------------------------------ MODULE PamService ------------------------------
(***************************************************************************)
(* The PAM handler of internal/pam: enrolment of a biometric token,        *)
(* approve and deny with that token, creation of requests, and the         *)
(* Telegram deny button that shares its request store.  Goroutines         *)
(* interleave between any two calls of the token store (one file per user  *)
(* behind PAM.mu, held for one call at a time) and of the request store.   *)
(*                                                                         *)
(* A call that fails to authenticate or is not authorised changes nothing; *)
(* Receive admits the others.                                              *)
(***************************************************************************)
EXTENDS Deadlines

CONSTANTS
    Requests,     \* request identifiers (uuid.New, never reused)
    Handlers,     \* goroutines serving calls
    Users,        \* Telegram users whose initData is valid
    Tokens,       \* biometric token values
    None,         \* the empty string or nil
    Active,       \* active rows of table authorized_users
    StaticLists,  \* the allowedUsers lists NewHandler may be given
    Backends,     \* the request stores NewHandler may be given
    TokenTTL,     \* Fallback.TTLMinutes, 0 turns token expiry off
    RequestTTL,   \* ticks from creation to expiry
    MaxTime,      \* bound: the last tick of the clock
    StoreErrors   \* TRUE: a call of the token store or of an SQL request store may fail

Ops == {"enroll", "approve", "deny", "button"}

ASSUME PamNoneAssumption == None \notin Requests \cup Users \cup Tokens \cup Ops
ASSUME PamUsersAssumption == /\ Active \subseteq Users
                             /\ StaticLists \subseteq SUBSET Users
                             /\ Backends \subseteq {"memory", "postgres", "sqlite"}
ASSUME PamTimeAssumption == /\ TokenTTL \in Nat
                            /\ RequestTTL \in Nat
                            /\ MaxTime \in Nat
                            /\ StoreErrors \in BOOLEAN

VARIABLES
    backend,   \* the request store in use, fixed at the start
    static,    \* Handler.allowedUsers, fixed at the start
    now,       \* wall clock
    file,      \* file[u]: the token file of user u
    rows,      \* the request store
    call,      \* call[h]: the locals of the handler running on goroutine h
    enrolled,  \* history: the tokens user u enrolled
    granted    \* history: how many decisions on a request were answered "success"

pamVars == <<backend, static, now, file, rows, call, enrolled, granted>>

-----------------------------------------------------------------------------
(* Tokens, rows and calls *)

NoTime == -1

\* "torn": os.WriteFile truncated the file and failed, it does not decrypt.
File == [kind: {"absent", "torn", "token"}, value: Tokens \cup {None}, lastUsed: Nat]
NoFile(why) == [kind |-> why, value |-> None, lastUsed |-> 0]
NewToken(t) == [kind |-> "token", value |-> t, lastUsed |-> now]

Row == [status: {"none", "pending", "approved", "denied", "expired"}, expiresAt: Nat,
        approvedBy: Users \cup {None}, approvedAt: Nat \cup {NoTime}]
NoRow == [status |-> "none", expiresAt |-> 0, approvedBy |-> None, approvedAt |-> NoTime]

PC == {"idle", "retrieve", "recheck", "match", "store", "get", "check", "expire", "decide"}

Call == [pc: PC, op: Ops \cup {None},
         user: Users \cup {None}, token: Tokens \cup {None}, id: Requests \cup {None},
         held: File, expiresAt: Nat, checked: Nat]

IdleCall == [pc |-> "idle", op |-> None, user |-> None, token |-> None, id |-> None,
             held |-> NoFile("absent"), expiresAt |-> 0, checked |-> 0]

-----------------------------------------------------------------------------
(* Authorisation and the stores *)

\* checkAuthorization: the static list, else the table if the store has one, else nobody.
AllowedUsers == IF static # {} THEN static
                ELSE IF backend = "postgres" THEN Active ELSE {}

\* TokenExpirationChecker is false: the token was idle for more than the TTL.
TokenExpired(f) == TokenTTL > 0 /\ now - f.lastUsed > TokenTTL

\* UpdateStateIf from "pending" reads the clock at instant `at`.  InMemoryRequestStore
\* changes nothing after the deadline; it keeps the actor of an approval, but not that of a
\* denial, and reads the clock again for the time.
MemoryAccepts(row, at) == row.status = "pending" /\ InTime("memory", row.expiresAt, at)

MemorySettled(row, new, by) ==
    IF new = "approved"
    THEN [row EXCEPT !.status = new, !.approvedBy = by, !.approvedAt = now]
    ELSE [row EXCEPT !.status = new, !.approvedBy = None, !.approvedAt = NoTime]

MemoryPastDeadline(row) == row.status = "pending" /\ ~InTime("memory", row.expiresAt, now)

\* Mutants: the status is not compared; the deadline is not compared again; the clean-up
\* does not look at the status.
AcceptsSettled(row, new, at) ==
    row.status # "none" /\ (new # "expired" => InTime(backend, row.expiresAt, at))
AcceptsLate(row, new, at) == row.status = "pending"
SqlPastDeadlineAny(row) == row.status # "none" /\ ~InTime(backend, row.expiresAt, now)

\* DBRequestStore and SQLiteRequestStore: an expiry is never refused for the time, and
\* every decision has its actor and time.
SqlAccepts(row, new, at) ==
    row.status = "pending" /\ (new # "expired" => InTime(backend, row.expiresAt, at))

SqlSettled(row, new, by, at) ==
    IF new = "expired" THEN [row EXCEPT !.status = new]
    ELSE [row EXCEPT !.status = new, !.approvedBy = by, !.approvedAt = at]

SqlPastDeadline(row) == row.status = "pending" /\ ~InTime(backend, row.expiresAt, now)

\* Does UpdateStateIf change the row, and into what.
Accepts(row, new, at) ==
    IF backend = "memory" THEN MemoryAccepts(row, at) ELSE SqlAccepts(row, new, at)
Settled(row, new, by, at) ==
    IF backend = "memory" THEN MemorySettled(row, new, by) ELSE SqlSettled(row, new, by, at)

\* ExpireOldRequests' condition.
PastDeadline(row) ==
    IF backend = "memory" THEN MemoryPastDeadline(row) ELSE SqlPastDeadline(row)

\* Calls of the in-memory store never fail.
SqlErrors == StoreErrors /\ backend # "memory"

-----------------------------------------------------------------------------
(* /api/pam/request *)

HandleCreateRequest(id, user) ==
    /\ user \in AllowedUsers
    /\ rows[id].status = "none"
    /\ now + RequestTTL < MaxTime     \* bound: every request can expire
    /\ rows' = [rows EXCEPT ![id] = [NoRow EXCEPT !.status = "pending",
                                                  !.expiresAt = now + RequestTTL]]
    /\ UNCHANGED <<backend, static, now, file, call, enrolled, granted>>

-----------------------------------------------------------------------------
(* /api/pam/enroll, /approve, /deny and the deny button *)

Become(h, c) == call' = [call EXCEPT ![h] = c]
Goto(h, pc) == Become(h, [call[h] EXCEPT !.pc = pc])
Reply(h) == Become(h, IdleCall)

\* A complete, authentic and authorised enrolment reaches StoreToken.
HandleEnroll(h, user, t) ==
    /\ call[h].pc = "idle"
    /\ user \in AllowedUsers
    /\ Become(h, [IdleCall EXCEPT !.pc = "store", !.op = "enroll", !.user = user,
                                  !.token = t, !.held = NewToken(t)])
    /\ UNCHANGED <<backend, static, now, file, rows, enrolled, granted>>

\* A complete, authentic and authorised decision reaches RetrieveToken.
HandleApproveOrDeny(h, op, user, t, id) ==
    /\ call[h].pc = "idle"
    /\ user \in AllowedUsers
    /\ Become(h, [IdleCall EXCEPT !.pc = "retrieve", !.op = op, !.user = user,
                                  !.token = t, !.id = id])
    /\ UNCHANGED <<backend, static, now, file, rows, enrolled, granted>>

\* WebhookHandler.handleDeny: whoever presses the button, without a token.
WebhookDeny(h, user, id) ==
    /\ call[h].pc = "idle"
    /\ Become(h, [IdleCall EXCEPT !.pc = "get", !.op = "button", !.user = user, !.id = id])
    /\ UNCHANGED <<backend, static, now, file, rows, enrolled, granted>>

\* RetrieveToken under the read lock, and its first look at the token's age.
RetrieveToken(h) ==
    /\ call[h].pc = "retrieve"
    /\ LET f == file[call[h].user] IN
       \/ StoreErrors /\ Reply(h)
       \/ f.kind # "token" /\ Reply(h)
       \/ f.kind = "token" /\ TokenExpired(f) /\ Goto(h, "recheck")
       \/ /\ f.kind = "token" /\ ~TokenExpired(f)
          /\ Become(h, [call[h] EXCEPT !.pc = "match", !.held = f])
    /\ UNCHANGED <<backend, static, now, file, rows, enrolled, granted>>

\* Mutant: the token is deleted on the first look's word.
RecheckTokenBlind(h) ==
    /\ call[h].pc = "recheck"
    /\ file' = [file EXCEPT ![call[h].user] = NoFile("absent")]
    /\ Reply(h)
    /\ UNCHANGED <<backend, static, now, rows, enrolled, granted>>

\* RetrieveToken under the write lock: read again, delete only if still expired.
RecheckToken(h) ==
    /\ call[h].pc = "recheck"
    /\ LET u == call[h].user
           f == file[u]
       IN \/ /\ StoreErrors \/ f.kind # "token"
             /\ Reply(h)
             /\ UNCHANGED file
          \/ /\ f.kind = "token" /\ TokenExpired(f)
             /\ file' = [file EXCEPT ![u] = NoFile("absent")]
             /\ Reply(h)
          \/ /\ f.kind = "token" /\ ~TokenExpired(f)
             /\ Become(h, [call[h] EXCEPT !.pc = "match", !.held = f])
             /\ UNCHANGED file
    /\ UNCHANGED <<backend, static, now, rows, enrolled, granted>>

\* Mutant: the presented token is not compared with the stored one.
MatchTokenAny(h) ==
    /\ call[h].pc = "match"
    /\ Become(h, [call[h] EXCEPT !.pc = "store", !.held = NewToken(call[h].token)])
    /\ UNCHANGED <<backend, static, now, file, rows, enrolled, granted>>

\* Compare the tokens; the held copy gets a new LastUsedAt.
MatchToken(h) ==
    /\ call[h].pc = "match"
    /\ IF call[h].held.value = call[h].token
       THEN Become(h, [call[h] EXCEPT !.pc = "store", !.held = NewToken(call[h].held.value)])
       ELSE Reply(h)
    /\ UNCHANGED <<backend, static, now, file, rows, enrolled, granted>>

\* StoreToken of the held copy: the end of an enrolment, a stage of a decision.
StoreToken(h) ==
    /\ call[h].pc = "store"
    /\ LET c == call[h]
           u == c.user
       IN \/ /\ StoreErrors
             /\ \/ UNCHANGED file
                \/ file' = [file EXCEPT ![u] = NoFile("torn")]
             /\ Reply(h)
             /\ UNCHANGED enrolled
          \/ /\ file' = [file EXCEPT ![u] = c.held]
             /\ IF c.op = "enroll"
                THEN /\ enrolled' = [enrolled EXCEPT ![u] = @ \cup {c.token}]
                     /\ Reply(h)
                ELSE /\ UNCHANGED enrolled
                     /\ Goto(h, "get")
    /\ UNCHANGED <<backend, static, now, rows, granted>>

\* requestStore.Get; the row's status is not looked at.
GetRequest(h) ==
    /\ call[h].pc = "get"
    /\ LET row == rows[call[h].id] IN
       \/ /\ SqlErrors \/ row.status = "none"
          /\ Reply(h)
       \/ /\ row.status # "none"
          /\ Become(h, [call[h] EXCEPT !.pc = "check", !.expiresAt = row.expiresAt])
    /\ UNCHANGED <<backend, static, now, file, rows, enrolled, granted>>

\* time.Now().After(pending.ExpiresAt).
CheckDeadline(h) ==
    /\ call[h].pc = "check"
    /\ CASE now <= call[h].expiresAt ->
                Become(h, [call[h] EXCEPT !.pc = "decide", !.checked = now])
         [] now > call[h].expiresAt /\ call[h].op # "button" -> Goto(h, "expire")
         [] OTHER -> Reply(h)
    /\ UNCHANGED <<backend, static, now, file, rows, enrolled, granted>>

\* UpdateStateIf(pending -> expired), then 410 whatever it returned or became of it.
MarkExpired(h) ==
    /\ call[h].pc = "expire"
    /\ LET id == call[h].id IN
       \/ SqlErrors /\ UNCHANGED rows
       \/ rows' = IF Accepts(rows[id], "expired", now)
                  THEN [rows EXCEPT ![id] = Settled(@, "expired", None, now)]
                  ELSE rows
    /\ Reply(h)
    /\ UNCHANGED <<backend, static, now, file, enrolled, granted>>

\* Mutant: the API word of the decision is stored as the status.
TargetWord(op) == IF op = "approve" THEN "approved" ELSE "rejected"

Target(op) == IF op = "approve" THEN "approved" ELSE "denied"

\* What UpdateStateIf takes for the time: a reading since the handler's check, under the
\* lock, before the statement (SQLite) or at the start of its transaction (Postgres).
Readings(h) == call[h].checked .. now

\* UpdateStateIf(pending -> approved or denied): 200 to the winner, 409 to the others, and
\* 500 on an error, which a lost connection or RowsAffected may also raise after the commit.
Decide(h) ==
    /\ call[h].pc = "decide"
    /\ LET c == call[h]
           new == Target(c.op)
       IN \E at \in Readings(h) :
          \/ /\ SqlErrors \/ ~Accepts(rows[c.id], new, at)
             /\ UNCHANGED <<rows, granted>>
          \/ /\ Accepts(rows[c.id], new, at)
             /\ rows' = [rows EXCEPT ![c.id] = Settled(@, new, c.user, at)]
             /\ \/ granted' = [granted EXCEPT ![c.id] = @ + 1]
                \/ SqlErrors /\ UNCHANGED granted
    /\ Reply(h)
    /\ UNCHANGED <<backend, static, now, file, enrolled>>

HandlerStep(h) ==
    \/ RetrieveToken(h) \/ RecheckToken(h) \/ MatchToken(h) \/ StoreToken(h)
    \/ GetRequest(h) \/ CheckDeadline(h) \/ MarkExpired(h) \/ Decide(h)

-----------------------------------------------------------------------------

ExpireOldRequests ==
    /\ rows' = [id \in Requests |-> IF PastDeadline(rows[id])
                                    THEN Settled(rows[id], "expired", None, now)
                                    ELSE rows[id]]
    /\ UNCHANGED <<backend, static, now, file, call, enrolled, granted>>

Tick ==
    /\ now < MaxTime
    /\ now' = now + 1
    /\ UNCHANGED <<backend, static, file, rows, call, enrolled, granted>>

Init ==
    /\ backend \in Backends
    /\ static \in StaticLists
    /\ now = 0
    /\ file = [u \in Users |-> NoFile("absent")]
    /\ rows = [id \in Requests |-> NoRow]
    /\ call = [h \in Handlers |-> IdleCall]
    /\ enrolled = [u \in Users |-> {}]
    /\ granted = [id \in Requests |-> 0]

Next ==
    \/ \E id \in Requests, u \in Users : HandleCreateRequest(id, u)
    \/ \E h \in Handlers, u \in Users, t \in Tokens : HandleEnroll(h, u, t)
    \/ \E h \in Handlers, op \in {"approve", "deny"}, u \in Users, t \in Tokens,
          id \in Requests : HandleApproveOrDeny(h, op, u, t, id)
    \/ \E h \in Handlers, u \in Users, id \in Requests : WebhookDeny(h, u, id)
    \/ \E h \in Handlers : HandlerStep(h)
    \/ ExpireOldRequests
    \/ Tick

Spec == Init /\ [][Next]_pamVars

-----------------------------------------------------------------------------
(* Properties *)

\* Every variable has the shape the code gives it.
TypeOK ==
    /\ backend \in Backends
    /\ static \in StaticLists
    /\ now \in Nat
    /\ file \in [Users -> File]
    /\ rows \in [Requests -> Row]
    /\ call \in [Handlers -> Call]
    /\ \A h \in Handlers : call[h].pc # "idle" =>
           /\ call[h].user \in Users
           /\ call[h].op # "enroll" => call[h].id \in Requests
           /\ call[h].op = "enroll" => call[h].pc = "store"
           /\ call[h].op # "button" => call[h].token \in Tokens
           /\ call[h].op # None
    /\ enrolled \in [Users -> SUBSET Tokens]
    /\ granted \in [Requests -> Nat]

\* handleApprove and handleDeny: whatever enrolments, expiries and failed writes come
\* between its steps, a call that reaches the request store presented a token its user
\* enrolled, and an approval in the store is by an authorised user who enrolled one.
ApproverIsEnrolled ==
    /\ \A h \in Handlers :
           call[h].op \in {"approve", "deny"} /\ call[h].pc \in {"get", "check", "expire", "decide"}
           => call[h].token \in enrolled[call[h].user]
    /\ \A id \in Requests : rows[id].status = "approved" =>
           /\ rows[id].approvedBy \in static \cup Active
           /\ enrolled[rows[id].approvedBy] # {}

\* UpdateStateIf is the only guard, no handler looks at the status it read: still one
\* call at most is told that it decided a request, and that decision is in the store.  (The
\* converse is not so: an SQL store may commit a decision and the call end in an error.)
DecidedOnce ==
    \A id \in Requests :
        /\ granted[id] <= 1
        /\ granted[id] = 1 => rows[id].status \in {"approved", "denied"}

\* The SQL stores compare the deadline again when they record an approval, so time that
\* passes after the handler's own check does not matter: Postgres records a time before
\* the deadline and SQLite, which compares texts, one that is less than a second late.  The
\* in-memory store reads the clock once more for the time it records, which may be later.
ApprovedBeforeDeadline ==
    \A id \in Requests : rows[id].status = "approved" =>
        /\ backend = "postgres" => rows[id].approvedAt < rows[id].expiresAt
        /\ backend = "sqlite" => rows[id].approvedAt < rows[id].expiresAt + Second

\* RetrieveToken re-checks "to avoid TOCTOU race": a token that was enrolled or used
\* again after the first look is not deleted.
DeletesOnlyIdleTokens ==
    [][\A u \in Users : file[u].kind = "token" /\ file'[u].kind = "absent" =>
          now - file[u].lastUsed > TokenTTL]_pamVars

\* "Update token last used": an approve or deny call leaves the value of the enrolled
\* token alone; only an enrolment replaces it.
OnlyEnrolmentReplacesToken ==
    [][\A u \in Users :
          file[u].kind = "token" /\ file'[u].kind = "token" /\ file'[u].value # file[u].value
          => \E h \in Handlers : call[h].op = "enroll" /\ call[h].user = u
                                 /\ call'[h].pc = "idle"]_pamVars

\* handleApprove, handleDeny and handleDeny of the webhook never look at the status they
\* read, and ExpireOldRequests scans the table under them: still no store ever changes
\* the status, decider or time of a request once it is approved, denied or expired.  An
\* approval by PAM is thereby final too, nothing executes it.
DecisionsAreFinal ==
    [][\A id \in Requests : rows[id].status \in {"approved", "denied", "expired"} =>
          rows'[id] = rows[id]]_pamVars

Lifecycle == INSTANCE RequestLifecycle
             WITH state <- [id \in Requests |-> rows[id].status],
                  runs <- [id \in Requests |-> 0],
                  MayVanish <- FALSE,
                  TellsRuns <- TRUE

\* The PAM handler, the deny button and the clean-up keep the promise about a single
\* request on every store; they never run its command.
ImplementsLifecycle == Lifecycle!Spec
=============================================================================
