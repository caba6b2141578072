---------------------------- MODULE ApprovalDaemon ----------------------------
(***************************************************************************)
(* The KingCrab daemon as cmd/kingcrab runs it: ServerV2 with its SQLite   *)
(* request table, the goroutines that serve POST /api/v1/request/{id}/     *)
(* approve and .../deny, the hourly cleanup, the executor, SIGTERM,        *)
(* crashes and restarts.                                                   *)
(*                                                                         *)
(* One SQL statement is one step: the store has a single connection.  A    *)
(* handler keeps the row it read (`req`) across steps, as the Go code      *)
(* does, and may be overtaken between any two of them.                     *)
(*                                                                         *)
(* Handlers compare instants, statements compare RFC3339Nano text, whose   *)
(* order (module Deadlines) is not that of time within a second.           *)
(***************************************************************************)
EXTENDS Deadlines

CONSTANTS
    Requests,     \* request identifiers (uuid.New, never reused)
    Handlers,     \* goroutines serving approve and deny calls
    Users,        \* approver identities
    Commands,     \* commands callers ask for
    None,         \* the empty string, SQL NULL or nil pointer
    TTL,          \* ticks from creation to expiry
    StartTime,    \* the clock when the model starts
    MaxTime,      \* bound: the last tick of the clock
    MaxDowns,     \* bound: how many times the process goes down
    Faults,       \* how it may go down: "stop" (SIGTERM), "crash"
    Persistent,   \* TRUE: DataDir is set; FALSE: the ":memory:" database
    StoreErrors   \* the statements that may fail while the store is open

ASSUME NoneAssumption == None \notin Requests \cup Users \cup Commands
ASSUME TimeAssumption == /\ TTL \in Nat \ {0}
                         /\ StartTime \in Nat
                         /\ MaxTime \in Nat
                         /\ MaxDowns \in Nat
ASSUME FaultAssumption == /\ Faults \subseteq {"stop", "crash"}
                          /\ Persistent \in BOOLEAN
                          /\ StoreErrors \subseteq {"get", "expire", "update", "record"}

VARIABLES
    rows,     \* table elevation_requests: rows[id]
    now,      \* wall clock
    allow,    \* the commands the loaded allowlist matches
    server,   \* "running", "draining" (Stop called), "closed" (store closed), "down"
    call,     \* call[h]: the locals of the handler running on goroutine h
    downs,    \* how many times the process went down
    runs      \* history: runs[id] counts the starts of the command of id

vars == <<rows, now, allow, server, call, downs, runs>>

-----------------------------------------------------------------------------
(* Rows, calls and the clock *)

NoTime == -1

RowStatus == {"none", "lost", "pending", "approved", "denied", "expired",
              "completed", "failed"}
Final == {"denied", "expired", "completed", "failed"}

Row == [status: RowStatus, command: Commands \cup {None}, expiresAt: Nat,
        approvedBy: Users \cup {None}, approvedAt: Nat \cup {NoTime}]

\* No row: the identifier was not issued yet, or its in-memory table is gone.
NoRow(why) == [status |-> why, command |-> None, expiresAt |-> 0,
               approvedBy |-> None, approvedAt |-> NoTime]

NewElevationRequest(cmd) ==
    [status |-> "pending", command |-> cmd, expiresAt |-> now + TTL,
     approvedBy |-> None, approvedAt |-> NoTime]

PC == {"idle", "get", "check", "stamp", "update", "expire", "exec", "running", "record"}

Call == [pc: PC, op: {"approve", "deny", None}, id: Requests \cup {None},
         user: Users \cup {None}, token: BOOLEAN, req: Row,
         stamp: Nat \cup {NoTime}, ok: BOOLEAN]

IdleCall == [pc |-> "idle", op |-> None, id |-> None, user |-> None, token |-> FALSE,
             req |-> NoRow("none"), stamp |-> NoTime, ok |-> FALSE]

-----------------------------------------------------------------------------
(* The SQLite store *)

StoreOpen == server \in {"running", "draining"}
StoreMayFail(statement) == statement \in StoreErrors \/ ~StoreOpen

\* Mutant: the WHERE clause forgets "AND status = ?".
MatchesAnyStatus(row, expected, new, at) ==
    new \in {"approved", "denied", "failed"} => TextAfter(row.expiresAt, at)

\* Mutant: only the expiry branch forgets "AND status = ?".
MatchesExpireAny(row, expected, new, at) ==
    IF new = "expired" THEN TRUE
    ELSE row.status = expected /\ TextAfter(row.expiresAt, at)

\* Mutant: the WHERE clause forgets "AND expires_at > ?".
MatchesAnyTime(row, expected, new, at) == row.status = expected

\* UpdateStateIf's WHERE clause, at the instant `at` it formatted beforehand.
Matches(row, expected, new, at) ==
    /\ row.status = expected
    /\ new \in {"approved", "denied", "failed"} => TextAfter(row.expiresAt, at)

\* Mutant: the actor is recorded for approvals only.
MovedWithoutDenier(row, new, by, at) ==
    IF new = "approved"
    THEN [row EXCEPT !.status = new, !.approvedBy = by, !.approvedAt = at]
    ELSE [row EXCEPT !.status = new]

\* UpdateStateIf's SET clause.
Moved(row, new, by, at) ==
    IF new \in {"approved", "denied", "failed"}
    THEN [row EXCEPT !.status = new, !.approvedBy = by, !.approvedAt = at]
    ELSE [row EXCEPT !.status = new]

\* Mutant: Update writes every column of the record it is given.
UpdatedWipesRow(row, new) == [NoRow(new) EXCEPT !.expiresAt = row.expiresAt]

\* Update's SET clause for the record V1Handler passes: it has no approver.
Updated(row, new) ==
    [row EXCEPT !.status = new, !.approvedBy = None, !.approvedAt = NoTime]

\* Mutant: approved rows are expired as well.
OverdueApproved(row) ==
    row.status \in {"pending", "approved"} /\ ~TextAfter(row.expiresAt, now)

\* Mutant: the comparison with the clock is the wrong way round.
OverdueReversed(row) == row.status = "pending" /\ TextAfter(row.expiresAt, now)

\* ExpireOldRequests' WHERE clause.
Overdue(row) == row.status = "pending" /\ ~TextAfter(row.expiresAt, now)

-----------------------------------------------------------------------------
(* POST /api/v1/request *)

\* The whole handler up to its one statement; a call admitted before Stop may end after it.
HandleCreateRequest(id, cmd) ==
    /\ StoreOpen
    /\ now + TTL < MaxTime            \* bound: every request can expire
    /\ rows[id].status = "none"
    /\ cmd \in allow
    /\ rows' = [rows EXCEPT ![id] = NewElevationRequest(cmd)]
    /\ UNCHANGED <<now, allow, server, call, downs, runs>>

-----------------------------------------------------------------------------
(* POST /api/v1/request/{id}/approve and /deny *)

Become(h, c) == call' = [call EXCEPT ![h] = c]
Goto(h, pc) == Become(h, [call[h] EXCEPT !.pc = pc])
Reply(h) == Become(h, IdleCall)

\* net/http hands the call to a goroutine; `user` and `token` may be empty.
Receive(h, op, id, user, token) ==
    /\ server = "running"
    /\ call[h].pc = "idle"
    /\ Become(h, [IdleCall EXCEPT !.pc = "get", !.op = op, !.id = id,
                                  !.user = user, !.token = token])
    /\ UNCHANGED <<rows, now, allow, server, downs, runs>>

\* store.Get, then "not found" or "request already ..." unless it is pending.
V1Get(h) ==
    /\ call[h].pc = "get"
    /\ \/ /\ StoreMayFail("get")
          /\ Reply(h)
       \/ /\ StoreOpen
          /\ LET row == rows[call[h].id] IN
             IF row.status = "pending"
             THEN Become(h, [call[h] EXCEPT !.pc = "check", !.req = row])
             ELSE Reply(h)
    /\ UNCHANGED <<rows, now, allow, server, downs, runs>>

\* The body an operation needs: approve a token and a user, deny a user.
BodyComplete(c) == c.user # None /\ (c.op = "approve" => c.token)

\* time.Now().After(request.ExpiresAt) on the row read before, then the body.
V1Check(h) ==
    /\ call[h].pc = "check"
    /\ CASE now > call[h].req.expiresAt -> Goto(h, "expire")
         [] now <= call[h].req.expiresAt /\ BodyComplete(call[h]) -> Goto(h, "stamp")
         [] OTHER -> Reply(h)
    /\ UNCHANGED <<rows, now, allow, server, downs, runs>>

\* UpdateStateIf(pending -> expired), whatever it returns.
V1Expire(h) ==
    /\ call[h].pc = "expire"
    /\ LET id == call[h].id IN
       \/ StoreMayFail("expire") /\ UNCHANGED rows
       \/ /\ StoreOpen
          /\ rows' = IF Matches(rows[id], "pending", "expired", now)
                     THEN [rows EXCEPT ![id] = Moved(@, "expired", None, now)]
                     ELSE rows
    /\ Reply(h)
    /\ UNCHANGED <<now, allow, server, downs, runs>>

\* UpdateStateIf formats its own time.Now before it waits for the connection.
V1Stamp(h) ==
    /\ call[h].pc = "stamp"
    /\ Become(h, [call[h] EXCEPT !.pc = "update", !.stamp = now])
    /\ UNCHANGED <<rows, now, allow, server, downs, runs>>

Target(op) == IF op = "approve" THEN "approved" ELSE "denied"

\* Mutant: an error of UpdateStateIf does not end the handler.
V1UpdateIgnoresError(h) ==
    /\ call[h].pc = "update"
    /\ LET c == call[h]
           new == Target(c.op)
       IN \/ /\ StoreMayFail("update")
             /\ IF c.op = "approve" THEN Goto(h, "exec") ELSE Reply(h)
             /\ UNCHANGED rows
          \/ /\ StoreOpen
             /\ Matches(rows[c.id], "pending", new, c.stamp)
             /\ rows' = [rows EXCEPT ![c.id] = Moved(@, new, c.user, c.stamp)]
             /\ IF c.op = "approve" THEN Goto(h, "exec") ELSE Reply(h)
    /\ UNCHANGED <<now, allow, server, downs, runs>>

\* UpdateStateIf(pending -> approved or denied); the loser answers "already processed".
V1Update(h) ==
    /\ call[h].pc = "update"
    /\ LET c == call[h]
           new == Target(c.op)
       IN \/ /\ StoreMayFail("update")
             /\ Reply(h)
             /\ UNCHANGED rows
          \/ /\ StoreOpen
             /\ ~Matches(rows[c.id], "pending", new, c.stamp)
             /\ Reply(h)
             /\ UNCHANGED rows
          \/ /\ StoreOpen
             /\ Matches(rows[c.id], "pending", new, c.stamp)
             /\ rows' = [rows EXCEPT ![c.id] = Moved(@, new, c.user, c.stamp)]
             /\ IF c.op = "approve" THEN Goto(h, "exec") ELSE Reply(h)
    /\ UNCHANGED <<now, allow, server, downs, runs>>

\* Mutant: Execute trusts the check made when the request was created.
V1ExecuteUnchecked(h) ==
    /\ call[h].pc = "exec"
    /\ runs' = [runs EXCEPT ![call[h].id] = @ + 1]
    /\ Goto(h, "running")
    /\ UNCHANGED <<rows, now, allow, server, downs>>

\* Executor.Execute: the allowlist again, then the command; it may fail to start.
V1Execute(h) ==
    /\ call[h].pc = "exec"
    /\ \/ /\ Become(h, [call[h] EXCEPT !.pc = "record", !.ok = FALSE])
          /\ UNCHANGED runs
       \/ /\ call[h].req.command \in allow
          /\ runs' = [runs EXCEPT ![call[h].id] = @ + 1]
          /\ Goto(h, "running")
    /\ UNCHANGED <<rows, now, allow, server, downs>>

\* cmd.Run returns: exit status 0, or any other exit, a signal or the time limit.
V1ExecuteReturns(h) ==
    /\ call[h].pc = "running"
    /\ \E ok \in BOOLEAN : Become(h, [call[h] EXCEPT !.pc = "record", !.ok = ok])
    /\ UNCHANGED <<rows, now, allow, server, downs, runs>>

\* Mutant: the error path of Execute returns before the row is updated.
V1RecordSuccessOnly(h) ==
    /\ call[h].pc = "record"
    /\ rows' = IF call[h].ok /\ StoreOpen
               THEN [rows EXCEPT ![call[h].id] = Updated(@, "completed")]
               ELSE rows
    /\ Reply(h)
    /\ UNCHANGED <<now, allow, server, downs, runs>>

\* Mutant: the error of Execute is not looked at.
V1RecordAlwaysCompleted(h) ==
    /\ call[h].pc = "record"
    /\ rows' = IF StoreOpen THEN [rows EXCEPT ![call[h].id] = Updated(@, "completed")] ELSE rows
    /\ Reply(h)
    /\ UNCHANGED <<now, allow, server, downs, runs>>

\* store.Update by identifier alone; its error is dropped.
V1Record(h) ==
    /\ call[h].pc = "record"
    /\ LET id == call[h].id IN
       \/ StoreMayFail("record") /\ UNCHANGED rows
       \/ /\ StoreOpen
          /\ rows' = [rows EXCEPT ![id] =
                         Updated(@, IF call[h].ok THEN "completed" ELSE "failed")]
    /\ Reply(h)
    /\ UNCHANGED <<now, allow, server, downs, runs>>

HandlerStep(h) ==
    \/ V1Get(h) \/ V1Check(h) \/ V1Expire(h) \/ V1Stamp(h) \/ V1Update(h)
    \/ V1Execute(h) \/ V1ExecuteReturns(h) \/ V1Record(h)

-----------------------------------------------------------------------------
(* Background work, shutdown and restart *)

Tick ==
    /\ now < MaxTime
    /\ now' = now + 1
    /\ UNCHANGED <<rows, allow, server, call, downs, runs>>

\* One statement expires every overdue row.
PerformCleanup ==
    /\ server = "running"
    /\ rows' = [id \in Requests |->
                   IF Overdue(rows[id]) THEN Moved(rows[id], "expired", None, now)
                   ELSE rows[id]]
    /\ UNCHANGED <<now, allow, server, call, downs, runs>>

\* SIGINT or SIGTERM: Stop cancels the cleanup and Shutdown closes the listener.
Stop ==
    /\ "stop" \in Faults /\ downs < MaxDowns
    /\ server = "running"
    /\ server' = "draining"
    /\ UNCHANGED <<rows, now, allow, call, downs, runs>>

\* Shutdown returned, drained or after its ten seconds; Stop closes the store.
CloseStore ==
    /\ server = "draining"
    /\ server' = "closed"
    /\ UNCHANGED <<rows, now, allow, call, downs, runs>>

\* Every goroutine dies with the process, a child command that was started does not.
GoDown ==
    /\ server' = "down"
    /\ call' = [h \in Handlers |-> IdleCall]
    /\ downs' = downs + 1
    /\ rows' = IF Persistent THEN rows
               ELSE [id \in Requests |-> IF rows[id].status = "none" THEN rows[id]
                                         ELSE NoRow("lost")]
    /\ UNCHANGED <<now, allow, runs>>

\* Serve returns as soon as Shutdown is called, so main reaches os.Exit(1).
MainExits ==
    /\ server \in {"draining", "closed"}
    /\ GoDown

\* HandleSignals: os.Exit(0) once Stop returned.
SignalExits ==
    /\ server = "closed"
    /\ GoDown

Crash ==
    /\ "crash" \in Faults /\ downs < MaxDowns
    /\ server # "down"
    /\ GoDown

\* systemd starts it again; the configuration, allowlist included, is read anew.
Restart ==
    /\ server = "down"
    /\ server' = "running"
    /\ \E a \in SUBSET Commands : allow' = a
    /\ UNCHANGED <<rows, now, call, downs, runs>>

-----------------------------------------------------------------------------

Init ==
    /\ rows = [id \in Requests |-> NoRow("none")]
    /\ now = StartTime
    /\ allow \in SUBSET Commands
    /\ server = "running"
    /\ call = [h \in Handlers |-> IdleCall]
    /\ downs = 0
    /\ runs = [id \in Requests |-> 0]

Next ==
    \/ \E id \in Requests, cmd \in Commands : HandleCreateRequest(id, cmd)
    \/ \E h \in Handlers, op \in {"approve", "deny"}, id \in Requests,
          user \in Users \cup {None}, token \in BOOLEAN : Receive(h, op, id, user, token)
    \/ \E h \in Handlers : HandlerStep(h)
    \/ Tick
    \/ PerformCleanup
    \/ Stop \/ CloseStore \/ MainExits \/ SignalExits \/ Crash \/ Restart

Spec == Init /\ [][Next]_vars

\* Handlers and the timer are scheduled, time passes, a stopping process exits and systemd
\* (Restart=always) starts it again.  Nobody has to send a request, a decision or a signal.
\* A command need not end: the time limit kills it, but Wait goes on for as long as a child
\* it left behind keeps its output open.
Fairness ==
    /\ \A h \in Handlers : WF_vars(HandlerStep(h) /\ call[h].pc # "running")
    /\ WF_vars(Tick)
    /\ WF_vars(PerformCleanup)
    /\ WF_vars(CloseStore) /\ WF_vars(MainExits \/ SignalExits) /\ WF_vars(Restart)

FairSpec == Spec /\ Fairness

\* The same when every command ends.
CommandsEndSpec == FairSpec /\ \A h \in Handlers : WF_vars(V1ExecuteReturns(h))

-----------------------------------------------------------------------------
(* Properties *)

CallsOK ==
    /\ call \in [Handlers -> Call]
    /\ \A h \in Handlers : call[h].pc # "idle" =>
           call[h].id \in Requests /\ call[h].op \in {"approve", "deny"}

\* Every variable has the shape the code gives it, and a busy handler knows its
\* request and operation.
TypeOK ==
    /\ rows \in [Requests -> Row]
    /\ now \in Nat
    /\ allow \subseteq Commands
    /\ server \in {"running", "draining", "closed", "down"}
    /\ CallsOK
    /\ downs \in Nat
    /\ runs \in [Requests -> Nat]

Executing(h) == call[h].pc \in {"exec", "running", "record"}

\* handleApproveOrDeny: from the UpdateStateIf it won until its Update, a handler
\* is the only one past that point for its request, and the row still says
\* "approved" although nothing locks it meanwhile.
ExecutorOwnsRequest ==
    \A h \in Handlers : Executing(h) =>
        /\ rows[call[h].id].status = "approved"
        /\ \A g \in Handlers \ {h} : Executing(g) => call[g].id # call[h].id

\* The command of a request is started at most once, whatever approvals race or
\* are retried, and whatever crashes and restarts come between approval and result.
RunsAtMostOnce == \A id \in Requests : runs[id] <= 1

\* A command that was ever started belongs to a request that was approved: it is
\* never found pending, denied or expired, before or after the run.
NeverRunsUnapproved ==
    \A id \in Requests : runs[id] > 0 =>
        rows[id].status \in {"approved", "completed", "failed", "lost"}

\* A row reads "completed" only if its command was started, and a handler that
\* waits for or records a success is the one that started it.
ResultsAreReal ==
    /\ \A id \in Requests : rows[id].status = "completed" => runs[id] = 1
    /\ \A h \in Handlers :
           /\ call[h].pc = "exec" => runs[call[h].id] = 0
           /\ call[h].pc = "running" \/ (call[h].pc = "record" /\ call[h].ok) =>
                  runs[call[h].id] = 1

\* The row a handler read stays true to the table in what the handler uses of it.
SnapshotsAgree ==
    \A h \in Handlers : call[h].pc \notin {"idle", "get"} =>
        /\ rows[call[h].id].status \notin {"none", "lost"}
        /\ call[h].req.command = rows[call[h].id].command
        /\ call[h].req.expiresAt = rows[call[h].id].expiresAt

\* The inductive invariant behind the safety theorems.
SafetyInv ==
    /\ TypeOK
    /\ ExecutorOwnsRequest
    /\ RunsAtMostOnce
    /\ NeverRunsUnapproved
    /\ ResultsAreReal
    /\ SnapshotsAgree

\* Comparing texts costs less than a second, whatever passes between the handler's own
\* check, its statement and the clean-up: no decision is recorded a second or more after the
\* deadline of its request, and nothing expires a second or more before it.
TextErrsWithinTheSecond ==
    \A id \in Requests :
        /\ rows[id].status \in {"approved", "denied"} =>
               rows[id].approvedAt < rows[id].expiresAt + Second
        /\ rows[id].status = "expired" =>
               rows[id].expiresAt < now + Second

\* UpdateStateIf: "reject if already expired"; ExpireOldRequests: "marks all expired pending
\* requests" - decisions are taken before the deadline, and expiry comes not before it.
DeadlineIsExact ==
    \A id \in Requests :
        /\ rows[id].status \in {"approved", "denied"} =>
               rows[id].approvedAt < rows[id].expiresAt
        /\ rows[id].status = "expired" =>
               rows[id].expiresAt <= now

\* While a decision stands in the table, so do the person and the time of it.
DeciderRecorded ==
    \A id \in Requests : rows[id].status \in {"approved", "denied"} =>
        rows[id].approvedBy \in Users /\ rows[id].approvedAt # NoTime

\* README.md: "Every command logged with who approved what and when" - a command
\* that was started has its approver and approval time in the table.
AuditTrail ==
    \A id \in Requests : runs[id] > 0 /\ rows[id].status # "lost" =>
        rows[id].approvedBy \in Users /\ rows[id].approvedAt # NoTime

\* A settled request is never touched again: handlers that read it while it was
\* pending, the unguarded Update and the cleanup leave the whole row as it is.
FinalStatusesAreFinal ==
    [][\A id \in Requests : rows[id].status \in Final =>
          rows'[id] = rows[id] \/ rows'[id].status = "lost"]_vars

\* What starts is on the allowlist in force at that moment, not only on the one in
\* force when the request was created, possibly by an earlier process.
RunsOnlyAllowlisted ==
    [][\A id \in Requests : runs'[id] # runs[id] => rows[id].command \in allow]_vars

\* Stop "stops the server gracefully": the process does not exit in the middle of a
\* drain while a handler still runs.
DrainsBeforeExit ==
    [][server = "draining" /\ server' = "down" =>
          \A h \in Handlers : call[h].pc = "idle"]_vars

\* The daemon implements the promise about a single request.
Lifecycle == INSTANCE RequestLifecycle
             WITH state <- [id \in Requests |-> rows[id].status],
                  MayVanish <- ~Persistent, TellsRuns <- TRUE

\* Every step of handlers, cleanup, shutdown and restart is a lifecycle step.
ImplementsLifecycle == Lifecycle!Spec

\* cleanupOldRequests: no request stays pending, through restarts too.
PendingResolves ==
    \A id \in Requests : rows[id].status = "pending" ~> rows[id].status # "pending"

\* An approval whose command did not start or has ended reaches the table as completed or
\* failed, provided the process is not stopped and the database works.
ExecutionRecorded ==
    \A h \in Handlers, id \in Requests :
        Executing(h) /\ call[h].pc # "running" /\ call[h].id = id ~>
            \/ rows[id].status \in {"completed", "failed"}
            \/ call[h].pc = "running"
            \/ server # "running"

\* API_SPECIFICATION: approved means "execution in progress" - it ends.
ApprovedIsInProgress ==
    \A id \in Requests :
        rows[id].status = "approved" ~> rows[id].status \in {"completed", "failed"}
=============================================================================
