----------------------------- MODULE LegacyServer -----------------------------
(***************************************************************************)
(* internal/daemon/server.go and executor.go, the first server of KingCrab: *)
(* a map of requests behind one sync.RWMutex, and an approval that runs     *)
(* the command while it holds that lock.  Nothing outlives the process, so  *)
(* its end is not modelled.                                                 *)
(*                                                                          *)
(* A call with a wrong method, a bad body, an empty command or a missing    *)
(* reason is refused before it has any effect and is not a step.            *)
(***************************************************************************)
EXTENDS Naturals

CONSTANTS
    Requests,     \* request identifiers (uuid.New, never reused)
    Allowed,      \* those whose command the allowlist matches
    Goroutines,   \* handlers
    None          \* nothing

Ops == {"create", "approve", "deny", "list"}

ASSUME LegacyAssumption == /\ Allowed \subseteq Requests
                           /\ None \notin Requests \cup Goroutines \cup Ops

VARIABLES
    queue,     \* Server.queue: the requests by identifier
    mu,        \* Server.mu
    call,      \* call[g]: the locals of the handler on goroutine g
    serving,   \* FALSE after Stop
    runs       \* history: how often the command of a request was started

legacyVars == <<queue, mu, call, serving, runs>>

M == INSTANCE RWMutex

-----------------------------------------------------------------------------
(* Requests and handlers *)

Row == [status: {"none", "pending", "denied", "completed", "failed"}, result: BOOLEAN]
NoRow == [status |-> "none", result |-> FALSE]

PC == {"idle", "lock", "act", "running", "record", "list", "encode", "reply"}
Call == [pc: PC, op: Ops \cup {None},
         id: Requests \cup {None}, seen: [Requests -> Row]]
IdleCall == [pc |-> "idle", op |-> None, id |-> None, seen |-> [id \in Requests |-> NoRow]]

Become(g, c) == call' = [call EXCEPT ![g] = c]
Goto(g, pc) == Become(g, [call[g] EXCEPT !.pc = pc])

-----------------------------------------------------------------------------
(* Calls *)

\* IsAllowed, then uuid.New: the identifier is in nobody's hands yet.
HandleRequest(g, id) ==
    /\ serving /\ call[g].pc = "idle"
    /\ id \in Allowed /\ queue[id] = NoRow
    /\ \A other \in Goroutines : call[other].op = "create" => call[other].id # id
    /\ Become(g, [IdleCall EXCEPT !.pc = "lock", !.op = "create", !.id = id])
    /\ UNCHANGED <<queue, mu, serving, runs>>

HandleApproveOrDeny(g, op, id) ==
    /\ serving /\ call[g].pc = "idle"
    /\ Become(g, [IdleCall EXCEPT !.pc = "lock", !.op = op, !.id = id])
    /\ UNCHANGED <<queue, mu, serving, runs>>

\* /requests calls RLock and is in, or parked.
HandleRequests(g) ==
    /\ serving /\ call[g].pc = "idle"
    /\ Become(g, [IdleCall EXCEPT !.pc = "list", !.op = "list"])
    /\ mu' = M!AfterRLock(mu, g)
    /\ UNCHANGED <<queue, serving, runs>>

\* s.mu.Lock, up to the point where it waits for the readers.
Lock(g) ==
    /\ call[g].pc = "lock"
    /\ M!MayAnnounce(mu)
    /\ mu' = M!AfterAnnounce(mu, g)
    /\ Goto(g, "act")
    /\ UNCHANGED <<queue, serving, runs>>

\* s.queue[id] = request, then Unlock.
Insert(g) ==
    /\ call[g].pc = "act" /\ M!HoldsWrite(mu, g) /\ call[g].op = "create"
    /\ queue' = [queue EXCEPT ![call[g].id].status = "pending"]
    /\ mu' = M!AfterUnlock(mu)
    /\ Goto(g, "reply")
    /\ UNCHANGED <<serving, runs>>

\* handleRequest encodes the shared record after Unlock, a data race with an approval that
\* learnt the identifier from /requests; the client may read any state of the record.
ReplyCreated(g) ==
    /\ call[g].pc = "reply"
    /\ Become(g, IdleCall)
    /\ UNCHANGED <<queue, mu, serving, runs>>

\* Mutant: the early return leaves the lock held.
RefuseKeepsLock(g) ==
    /\ call[g].pc = "act" /\ M!HoldsWrite(mu, g)
    /\ call[g].op \in {"approve", "deny"} /\ queue[call[g].id].status # "pending"
    /\ Become(g, IdleCall)
    /\ UNCHANGED <<queue, mu, serving, runs>>

\* "request not found" and "request already processed", with the deferred Unlock.
Refuse(g) ==
    /\ call[g].pc = "act" /\ M!HoldsWrite(mu, g)
    /\ call[g].op \in {"approve", "deny"} /\ queue[call[g].id].status # "pending"
    /\ mu' = M!AfterUnlock(mu)
    /\ Become(g, IdleCall)
    /\ UNCHANGED <<queue, serving, runs>>

Deny(g) ==
    /\ call[g].pc = "act" /\ M!HoldsWrite(mu, g)
    /\ call[g].op = "deny" /\ queue[call[g].id].status = "pending"
    /\ queue' = [queue EXCEPT ![call[g].id].status = "denied"]
    /\ mu' = M!AfterUnlock(mu)
    /\ Become(g, IdleCall)
    /\ UNCHANGED <<serving, runs>>

\* Mutant: the lock is not held while the command runs.
ApproveUnlocks(g) ==
    /\ call[g].pc = "act" /\ M!HoldsWrite(mu, g)
    /\ call[g].op = "approve" /\ queue[call[g].id].status = "pending"
    /\ mu' = M!AfterUnlock(mu)
    /\ Goto(g, "running")
    /\ UNCHANGED <<queue, serving, runs>>

\* The request is pending; the lock is kept for the execution.
Approve(g) ==
    /\ call[g].pc = "act" /\ M!HoldsWrite(mu, g)
    /\ call[g].op = "approve" /\ queue[call[g].id].status = "pending"
    /\ Goto(g, "running")
    /\ UNCHANGED <<queue, mu, serving, runs>>

\* Execute: the allowlist again, then `sh -c`, which may fail to start (no shell, no process
\* left, a command too long or with a zero byte).
Execute(g) ==
    /\ call[g].pc = "running"
    /\ \/ /\ call[g].id \in Allowed
          /\ runs' = [runs EXCEPT ![call[g].id] = @ + 1]
       \/ UNCHANGED runs
    /\ Goto(g, "record")
    /\ UNCHANGED <<queue, mu, serving>>

\* Execute returns, without an error whatever the exit code and also if nothing was started;
\* the answer is written and the deferred Unlock follows.  Only a command that may not run
\* is "failed".
Record(g) ==
    /\ call[g].pc = "record"
    /\ queue' = [queue EXCEPT ![call[g].id] =
                   IF call[g].id \in Allowed THEN [status |-> "completed", result |-> TRUE]
                                             ELSE [status |-> "failed", result |-> FALSE]]
    /\ mu' = M!AfterUnlock(mu)
    /\ Become(g, IdleCall)
    /\ UNCHANGED <<serving, runs>>

\* Mutant: the list is read without waiting for the lock.
ReadListUnlocked(g) ==
    /\ call[g].pc = "list"
    /\ Become(g, [call[g] EXCEPT !.pc = "encode", !.seen = queue])
    /\ UNCHANGED <<queue, mu, serving, runs>>

\* Under RLock the first rows of the list are collected and encoded ...
ReadList(g) ==
    /\ call[g].pc = "list" /\ M!HoldsRead(mu, g)
    /\ Become(g, [call[g] EXCEPT !.pc = "encode", !.seen = queue])
    /\ UNCHANGED <<queue, mu, serving, runs>>

\* Mutant: the list returns without RUnlock.
EncodeListKeepsRLock(g) ==
    /\ call[g].pc = "encode"
    /\ Become(g, IdleCall)
    /\ UNCHANGED <<queue, mu, serving, runs>>

\* ... and the last ones, then RUnlock.
EncodeList(g) ==
    /\ call[g].pc = "encode"
    /\ mu' = M!AfterRUnlock(mu, g)
    /\ Become(g, IdleCall)
    /\ UNCHANGED <<queue, serving, runs>>

\* httpServer.Close: no more calls; the handlers that run go on.
Stop ==
    /\ serving' = FALSE
    /\ UNCHANGED <<queue, mu, call, runs>>

HandlerStep(g) ==
    \/ Insert(g) \/ ReplyCreated(g) \/ Refuse(g) \/ Deny(g) \/ Approve(g) \/ Execute(g)
    \/ Record(g) \/ ReadList(g) \/ EncodeList(g)

Init ==
    /\ queue = [id \in Requests |-> NoRow]
    /\ mu = M!FreeMutex
    /\ call = [g \in Goroutines |-> IdleCall]
    /\ serving = TRUE
    /\ runs = [id \in Requests |-> 0]

Next ==
    \/ \E g \in Goroutines, id \in Requests :
          \/ HandleRequest(g, id)
          \/ \E op \in {"approve", "deny"} : HandleApproveOrDeny(g, op, id)
    \/ \E g \in Goroutines : HandleRequests(g) \/ Lock(g) \/ HandlerStep(g)
    \/ Stop

Spec == Init /\ [][Next]_legacyVars

\* Goroutines are scheduled, and one that waits for the lock among the writers gets it in
\* the end (sync.Mutex does not starve).  The other steps are in the hands of a command or of
\* a client: CombinedOutput returns when no process holds the output of the command any more,
\* which the time limit does not force, and answers are written without a time limit, those
\* of Record, Deny and EncodeList under the lock.
Fairness ==
    \A g \in Goroutines :
        /\ WF_legacyVars(Insert(g) \/ Refuse(g) \/ Approve(g) \/ Execute(g) \/ ReadList(g))
        /\ SF_legacyVars(Lock(g))

FairSpec == Spec /\ Fairness

-----------------------------------------------------------------------------
(* Properties *)

Executing(g) == call[g].op = "approve" /\ call[g].pc \in {"running", "record"}

\* Every variable has the shape the code gives it.
TypeOK ==
    /\ queue \in [Requests -> Row]
    /\ mu \in M!Mutex
    /\ call \in [Goroutines -> Call]
    /\ runs \in [Requests -> Nat]

\* The lock is the only thing that keeps a second approval, a denial and the list away from
\* a command that runs: one execution at a time, and when none is under way for a request its
\* command was started once at most, and never unless the table says "completed".  (The
\* converse is not so: a command that could not be started is "completed" too.)
TableTellsRuns ==
    /\ \A g, h \in Goroutines : Executing(g) /\ Executing(h) => g = h
    /\ \A id \in Requests : \/ \E g \in Goroutines : Executing(g) /\ call[g].id = id
                            \/ /\ runs[id] \in {0, 1}
                               /\ runs[id] = 1 => queue[id].status = "completed"
                               /\ queue[id].result <=> queue[id].status = "completed"

\* /requests shows one state of the table, although it reads it row by row.
ListIsSnapshot ==
    \A g \in Goroutines : call[g].pc = "encode" => call[g].seen = queue

\* The guards of Lock and HandlerStep.
CanGoOn(g) ==
    \/ call[g].pc = "lock" /\ M!MayAnnounce(mu)
    \/ call[g].pc = "act" /\ M!HoldsWrite(mu, g) /\ call[g].op \in {"create", "approve", "deny"}
    \/ call[g].pc = "list" /\ M!HoldsRead(mu, g)
    \/ call[g].pc \in {"running", "record", "encode", "reply"}

WaitsFor(g, h) ==
    \/ (call[g].pc = "lock" \/ g \in mu.parked) /\ mu.writer = h
    \/ mu.writer = g /\ h \in mu.readers

\* The lock never closes a circle of waiting calls: every call can go on, or waits for one
\* that can, over at most one writer that waits for its readers.  No early return keeps the
\* lock, and nobody asks for it twice.
NobodyWaitsInACircle ==
    \A g \in Goroutines : call[g].pc # "idle" /\ ~CanGoOn(g) =>
        \E h \in Goroutines :
            /\ WaitsFor(g, h)
            /\ CanGoOn(h) \/ \E k \in Goroutines : WaitsFor(h, k) /\ CanGoOn(k)

\* A call that waits for a command to let go of its output or for a client to read.
InOthersHands(g) ==
    \/ call[g].pc \in {"record", "encode", "reply"}
    \/ call[g].pc = "act" /\ M!HoldsWrite(mu, g) /\ call[g].op = "deny"

\* The server itself holds nobody up: a call that never returns, a writer behind readers, a
\* reader behind an execution or a call behind one that was refused, waits for a command or
\* a client that hangs for ever.
OnlyOthersHoldUp ==
    \/ \E g \in Goroutines : <>[]InOthersHands(g)
    \/ \A g \in Goroutines : call[g].pc # "idle" ~> call[g].pc = "idle"

\* Between the check of the status and the record of the result the request counts as
\* approved: only the goroutine that holds the lock can tell it from a pending one.
Promised == [id \in Requests |->
               IF \E g \in Goroutines : Executing(g) /\ call[g].id = id THEN "approved"
                                                                      ELSE queue[id].status]
Lifecycle == INSTANCE RequestLifecycle
             WITH state <- Promised, MayVanish <- FALSE, TellsRuns <- FALSE

\* The legacy server keeps the promise about a single request, except that "completed" does
\* not tell that the command was started.
ImplementsLifecycle == Lifecycle!Spec
=============================================================================
