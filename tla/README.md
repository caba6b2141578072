# KingCrab: a TLA+ verification project

KingCrab lets a caller ask for a privileged command, asks a person to approve or deny
it, and runs the command when it is approved. This directory models the parts of the
program that decide *whether and how often a command runs*, *what the request table says
about it*, *whose token is believed* and *what the outside world is told*, checks them
with TLC and proves the central results with TLAPS.

## 1. Inventory of the system

| Component | Source | State | Operations | What makes it correct |
|---|---|---|---|---|
| HTTP API v1 | `internal/api/v1.go` | locals of a handler: the row it read | create, get, list, approve, deny | one decision per request, one run per approval, result recorded |
| SQLite request store | `internal/pam/store_sqlite.go` | table `elevation_requests` | Create, Get, Update, UpdateStateIf, ListPending, ExpireOldRequests, Close | the conditional update is atomic and respects the deadline, as texts tell it |
| In-memory and Postgres stores | `internal/pam/store_request.go`, `store_db.go` | map / table | the same interface | the same promise on every back end |
| Executor | `internal/executor/executor.go` | allowlist, time limit | IsAllowed, Execute | only allowlisted commands start; the allowlist sees the words the program gets |
| Daemon | `internal/daemon/server_v2.go`, `cmd/kingcrab/main.go` | server, cleanup timer | Start, hourly cleanup, Stop, signals | pending requests end; shutdown drains |
| PAM handler | `internal/pam/handlers.go` | authorised users | enrol, approve, deny, create | decisions only by authorised users with an enrolled token |
| PAM token service | `internal/pam/pam.go`, `store.go` | `PAM.mu`, chosen store, one encrypted file per user | NewPAM, StoreToken, RetrieveToken, DeleteToken | the configured store is used, what was acknowledged is there, a token in use is not deleted |
| ClawVault token store | `internal/pam/clawvault.go` | the keyring behind `secret-tool` | search, lookup, resolve, store, clear | the same promise with child processes that fail or time out |
| Telegram webhook | `internal/telegram/webhook.go` | none; a goroutine per report | deny button, `/start`, `/status`, `notifyExternal` | every update handled, one true report per denial, true answers |
| Telegram bot client | `internal/telegram/bot.go` | none | answers, keyboards | inputs and outputs of the webhook |
| Legacy server and executor | `internal/daemon/server.go`, `executor.go` | map of requests, one `RWMutex` | create, list, approve, deny, execute under the lock | the lock keeps the table and the commands in step |
| initData validation | `internal/pam/validation.go` | none | keyed hash, age limit | its verdict is an input |
| Notifier, logger, configuration, migrations | `internal/notifications`, `logger`, `config`, `db` | none or start-up only | I/O | no effect on a request |
| Clients | `plugin/`, `skill/`, `bin/kc`, `frontend/` | none | HTTP calls | inputs of the handlers |

Interaction: clients call the API; a handler goroutine talks to the store one statement
at a time (one connection), runs the command itself and writes the result back by
identifier; a ticker expires overdue requests; SIGTERM runs `Stop` on one goroutine
while `main` waits in `Serve`; systemd restarts the process (`Restart=always`). The PAM
handler and the Telegram webhook act on the same `RequestStore` interface as the API.
The PAM handler reads and writes tokens through the token service, whose mutex guards
one of two stores that outlive the process. A denial by button starts a goroutine that
reports it to an external system.

What is hard: handlers keep a copy of the row across statements and are overtaken by
each other, by the cleanup and by the deadline; the process can go down between
approval and result; statements fail and their errors are partly dropped; the
allowlist changes between creation and execution; `PAM.mu` is released between reading
and writing a token, and a retrieval gives up its read lock to ask for the write lock;
a statement may commit and still report an error; two stores compare instants and one
compares texts; a token file is torn while it is written; a child process killed at its time limit may
have done its work; Telegram delivers an update more than once, also while the first
handler is at work, and copies of a report arrive after their sender gave them up.
`PROJECT.json` lists these hazards line by line.

Facts about the program as wired, which the models respect:

* `main` starts `ServerV2` with the SQLite store. `server_v2.go:131` registers the PAM
  handler with that store and no static user list, so `checkAuthorization` refuses every
  call to it; a request approved by the PAM handler or seen by the webhook is executed by
  nobody. `NewWebhookHandler`, `NewServer` (the legacy server), `RunMigrations` and
  `newConnectionFromConfig` have no caller in `main`. Those modules model the components
  as they are written, with the callers their interfaces allow.
* `server_v2.go:335` names package `db`, which that file does not import.
* `DeleteToken`, `ListSecrets` and the `Delete` of the SQLite store have no caller.
  `DeleteToken` is modelled all the same, because it is the service's interface.

## 2. Modules

| Module | Models | Composes |
|---|---|---|
| `RequestLifecycle` | the promise about one request: decided once, run at most once and only approved, never revised | abstract specification |
| `RequestLifecycleProofs` | what follows for every program that implements it | extends it |
| `ApprovalDaemon` | the daemon as `main` starts it: API v1 create/approve/deny, SQLite store, executor, cleanup, signals, crash, restart | instance `Lifecycle` of `RequestLifecycle` |
| `ApprovalDaemonProofs` | theorems about `ApprovalDaemon` | extends it |
| `Deadlines` | when each request store takes a deadline for past, with the text order of timestamps | extended by `ApprovalDaemon`, `PamService`, `TelegramWebhook` |
| `PamService` | PAM enrol/approve/deny/create, token files, Telegram deny button, over the in-memory, Postgres and SQLite stores | instance `Lifecycle` of `RequestLifecycle` |
| `PamServiceProofs` | theorems about `PamService` | extends it |
| `TokenStore` | choice of the token store at start-up, then store, retrieve and delete one system call or child process at a time | instance `M` of `RWMutex` |
| `TokenStoreProofs` | theorems about `TokenStore` | extends it |
| `RWMutex` | `sync.RWMutex`: readers, parked readers, a writer that announces itself and waits | external |
| `TelegramWebhook` | updates delivered at least once, the deny button, `notifyExternal` with retries | on the request stores of `PamService`; instance `Lifecycle` of `RequestLifecycle` |
| `TelegramWebhookProofs` | theorems about `TelegramWebhook` | extends it; instance `Promise` of `RequestLifecycleProofs` |
| `CommandMatch` | the allowlist matchers of the executor (with quotes), of the PAM handler (without) and of the legacy executor (prefix of the raw text), character by character | `ApprovalDaemon` and `LegacyServer` take their answer as a set |
| `CommandWords` | the words of a text and the matches of two texts, defined without a tokenizer: what `CommandMatch` is compared with | extends `CommandMatch` |
| `CommandMatchProofs` | theorems about `CommandMatch` and `CommandWords` | extends `CommandWords` |
| `LegacyServer` | the first server: a map, one `RWMutex`, execution under the lock | instances `M` of `RWMutex` and `Lifecycle` of `RequestLifecycle` |
| `LegacyServerProofs` | theorems about `LegacyServer` | extends it; instance `Promise` of `RequestLifecycleProofs` |
| `MCPamService`, `MCTelegramWebhook` | symmetry sets and small constants for TLC | |
| `MCCommandMatch` | all short texts | extends `CommandWords` |

Operators preceded by a comment "Mutant:" are plausible mistakes in the code that
the properties have been shown to catch; nothing else uses them.

### Deadlines

A clock counts ticks, `Second` of them to a second. `InTime(store, deadline, at)` is the
comparison of each store: the in-memory store asks whether `at` is after the deadline,
Postgres compares instants, SQLite compares the RFC3339Nano texts that the store wrote.
That layout drops the trailing zeros of a fraction, and the point with them; "Z" sorts
after the point and after the digits. So the text that ends earlier sorts *later* than
every text that goes on with more digits (`Extends`): "…05Z" after "…05.3Z", "…05.3Z"
after "…05.37Z". `Units` are what the last digit of a text may count: the second and its
decimal fractions, of which the runs take the second and one finer unit (`Second = 2`) and
the proofs any set. There is one clock for the process and for the database server; where
a statement reads the clock later than the handler, the model lets time pass in between.

### ApprovalDaemon

State: `rows` is the table (status, command, `expires_at`, `approved_by`,
`approved_at`); `call[h]` are the locals of the handler on goroutine `h`, with `pc`
between two statements and `req` the row it read; `server` is running, draining (after
`Stop` began), closed (store closed) or down; `allow` is the set of commands the loaded
allowlist matches; `now` is the clock; `runs` counts starts of a command and is never
read by an action.

Actions and code: `HandleCreateRequest` is `handleCreateRequest` up to its single
INSERT (allowlist check, five-minute expiry). `Receive`, `V1Get`, `V1Check`, `V1Expire`,
`V1Stamp`, `V1Update`, `V1Execute`, `V1ExecuteReturns` and `V1Record` are the stages of
`handleApproveOrDeny`, one per store call or command event; the statement's `now` is
formatted in `V1Stamp`, before the statement waits for the connection. `V1Record` is the
`Update` whose error is dropped and whose record has no approver. `PerformCleanup` is one
tick of the timer. `Stop`, `CloseStore`, `SignalExits` follow `HandleSignals`;
`MainExits` is `main` returning from `Serve`, which happens as soon as `Shutdown` is
called. `Crash` loses all goroutines; `Restart` reads the configuration again, with any
allowlist. A child command that was started is not undone by any of these.

`StoreErrors` is the set of statements that may fail while the store is open: "get" (Get),
"expire" and "update" (UpdateStateIf) and "record" (Update); once the store is closed all
of them fail.

### PamService

State: `file[u]` is the token file of a user (absent, torn by a failed write, or a token
with its last use); `rows` the request store; `call[h]` the handler's locals with `held`,
the copy of the token; `backend` and `static` are the store and user list the handler was
built with. `enrolled` and `granted` are histories.

`RetrieveToken` is the read under the read lock, `RecheckToken` the second read, and
possibly the deletion, under the write lock; `MatchToken` compares; `StoreToken` writes
the held copy (an enrolment's new token, or the used token with a new `LastUsedAt`);
`GetRequest`, `CheckDeadline`, `MarkExpired` and `Decide` act on the request store with
each back end's own conditions (`MemoryAccepts`, `SqlAccepts`, ...). Authentication
(`ValidateInitData`) is an input: calls it refuses have no effect and are not steps.

The stores differ. At the very instant of the deadline the in-memory store still
accepts a decision and Postgres does not; the handler, which asks "after", lets such
a call through and it is told that the request is already processed. Within a second
SQLite may refuse too early or accept too late. The in-memory store reads the clock once to
compare it with the deadline and again for `approved_at`, which can therefore be later than
the deadline; a statement takes one reading (`Readings`: since the handler's check, before
the statement waits for its connection). After the deadline the in-memory store refuses
every target status, the move to "expired" of the late call included, so the request stays
pending until a clean-up; on SQL that move succeeds. A call of an SQL store may end in an
error although its statement was committed (`Decide`): the row is decided and nobody was
told, so `DecidedOnce` is an implication.

### TokenStore

State: `setting` is `UseClawVault`; `process` is down, between the two looks of `NewPAM`,
or up; `mode` and `store` are the fields of `PAM`; `saved[s][u]` is what each of the two
stores has for a user, which outlives the process; `mu` is `PAM.mu`; `call[c]` are the
locals of a call. `settled` is a history: what the last acknowledged write left, or
"unknown" after a write that failed or was cut off.

`DetectClawVault` and `InitStore` are the two looks at the machine; the second one,
`CheckAvailability`, looks for the two programs again, so an endpoint found without
them can only end in the fall-back (or in an error when the setting is "true").
`RetrieveToken` takes the read lock; `ReadFile`, or `SearchSecret`, `LookupSecret` and
`GetSecret`, fetch the token; `Judge` releases the lock and looks at the token's age;
`Lock` asks for the write lock, the token is read again, and `Rejudge` removes it if it
is still idle. `TruncateFile` and `FillFile` are the two halves of `os.WriteFile`;
`SetSecret` and `Remove` are the child processes. `Age` makes a token idle; the TTL is
taken to be positive. Cryptography is a file that decrypts or does not. When a restart
chooses the other store, the tokens in the first one stay there and are visible again
when it is chosen again; `AcknowledgedIsSaved` is per store.
The keyring answers with what was stored in it: the branches of `Retrieve` for an empty
secret and for one that is no token's JSON are left out of `LookupSecret` and `GetSecret`,
because `SetSecret` writes neither.

### TelegramWebhook

State: `press[q]` is what update `q` says; `call[<<q, d>>]` is the goroutine that serves
delivery `d` of it, first as the handler, then as the notifier it starts; `wire` are the
copies of reports under way, `heard` those the external system received; `rows` is the
request store; `notifyURL` and `backend` are fixed at the start.

`ServeHTTP` takes the routing up to `handleDeny`; `GetAndCheckDeadline`, `UpdateStateIf`
and `AnswerAndReturn` are its stages, and the last one starts the notifier. `Post` is one
attempt, `TransportFails` a time-out or a refused connection, `ExternalReceives` the
arrival of a copy, seen by the sender only if it still waits for it; `OnCode` and `Retry`
are the loop. `CreateRequest`, `ApproveElsewhere` and `ExpireOldRequests` are the other
users of the store. `Crash` takes handlers (whose updates Telegram delivers again) and
notifiers (which are lost: a denial whose process dies before its report is never
reported, because the redelivered update finds it processed).

### CommandMatch

State: which `matcher` runs, the two texts, the one being read and how far, the locals of
`tokenizeCommand` (`scan`), the tokens so far and the verdict. `Start` is the
shortcuts, `ReadChar` one round of the loop, `EndOfText` what follows the loop, `Match`
the comparison of the tokens; `LegacyMatches` is the matcher of the legacy executor, which
does not split. Characters are letters and the classes the code distinguishes: blanks,
the two quotes, the star, every other metacharacter, and NUL. The executor's tokenizer says
"outside quotes" by an `inQuote` of zero and compares each character with `inQuote`, so
outside quotes it swallows a NUL, which a JSON request can carry; the PAM tokenizer keeps it. A list of patterns allows a command
if one of them matches, so one pattern is enough. The pattern `*` and a pattern that is
the very text of the command match before the text is split, so they allow a command with
an unclosed quote or a metacharacter. The comment of `TokenizeAndMatch` says of both that
they are rejected (`executor.go:20-22`); `ShouldMatch` follows the code, and so do the first
lines of the same comment. Only a star that is a token of its own is a wildcard. A test of
the PAM handler expects otherwise (`handlers_test.go:427-428`): that is the run
`command_star`.

`CommandWords` says what is promised. It counts instead of scanning: `QuoteAfter` is the
quote that is open at a position, `Breaks` the unquoted blanks, `Solid` the positions whose
character belongs to a word (not a quote that opens or closes a span, not a NUL the executor
drops), `WordNo` how many words have begun, and word k consists of the
solid characters of number k. `ShouldMatch` defines a match by these words.

### LegacyServer

State: `queue` is the map, `mu` its mutex, `call[g]` a handler, `serving` whether calls
are accepted, `runs` a history of started commands. A handler waits in `Lock`, then
takes one of `Insert`, `Refuse`, `Deny` or `Approve`; an approval keeps the lock through
`Execute` and `Record`. `HandleRequests`, `ReadList` and `EncodeList` are the list under
the read lock. `Execute` returns no error for a command that exits with another code than
zero, nor for one that could not be started (no shell, no process left, a command that is
too long or has a zero byte), so such a request is "completed"; "failed" is only the status of a command that the
allowlist no longer allows, and `StatusApproved` is never set. `handleRequest` encodes the
shared record after `Unlock`: `ReplyCreated` is a step of its own and what the client
reads there is left open.

`RWMutex` is the mutex these modules share: a writer announces itself, later readers are
parked, the writer has the lock when the earlier readers are gone, and its unlock lets all
parked readers in.

## 3. Runs

| Run | Expect | Shows |
|---|---|---|
| `daemon` | pass | 1 request, 2 handlers, a deadline two half-second ticks away, failing statements, one stop or crash and a restart: the safety and action properties, the refinement of `RequestLifecycle`, and under fairness `PendingResolves` and `ExecutionRecorded` |
| `pam_safety` | pass | 2 users of whom one is authorised, 2 tokens, 2 handlers, 3 back ends, static list or not, expiring tokens, failing writes, statements that commit and report an error |
| `command_match` | pass | every pattern of up to 3 and every command of up to 4 characters: the tokens are the words of the text and the verdict is that of a declarative definition, for all three matchers |
| `telegram_webhook` | pass | two updates, one delivered twice, three attempts, failures and a crash: reports, answers, the end of every update and notifier, refinement of `RequestLifecycle` |
| `token_store` | pass | every answer of the machine at start-up, two callers, one crash: the configured store, acknowledged writes, current reads, no circle of waiting calls, the end of every call |
| `legacy_server` | pass | three handlers and two requests: table and commands agree, lists are snapshots, no circle of waiting calls, whoever waits for ever waits for a command or a client, refinement of `RequestLifecycle` |
| `daemon_audit` | violation | the approver is wiped when the result is stored |
| `daemon_orphan` | violation | after a crash a request can say "approved" for ever |
| `daemon_drain` | violation | `main` exits while handlers are drained |
| `daemon_text_time` | violation | text comparison expires a request before its deadline (and accepts a decision after it) |
| `pam_lost_enrolment` | violation | an approval writes back the token an enrolment replaced |
| `command_star` | violation | the PAM matcher does not match `a*` with `a`, as a test expects |

The violations are disagreements between the code and a comment, document or test; each is
quoted in `PROJECT.json` under `findings`.

Properties, by module:

* `ApprovalDaemon`: `SafetyInv` (the conjunction that the proofs need: only the handler
  that won `UpdateStateIf` is past it, results are real, snapshots agree with the row),
  `RunsAtMostOnce`, `NeverRunsUnapproved`, `DeciderRecorded`, `TextErrsWithinTheSecond`
  (how wrong the text order can be, while `DeadlineIsExact` is what the comments say and the
  run `daemon_text_time` refutes); the action properties `FinalStatusesAreFinal` and
  `RunsOnlyAllowlisted`; `ImplementsLifecycle`; under fairness `PendingResolves` and
  `ExecutionRecorded`.
* `PamService`: `ApproverIsEnrolled`, `DecidedOnce`, `ApprovedBeforeDeadline` (on
  Postgres exactly, on SQLite within the second; nothing is said of the in-memory store);
  the action properties `DeletesOnlyIdleTokens` and
  `DecisionsAreFinal` (nothing undoes a decision that nobody executes);
  `ImplementsLifecycle`.
* `TelegramWebhook`: `OneReportPerDenial`, `ReportsAreTrue`, `AnswersAreTrue`;
  the action property `RetriesUntilVerdict`; `ImplementsLifecycle`; under fairness
  `EveryUpdateHandled` and `EveryNotifierEnds`.
* `TokenStore`: `StoreAsConfigured`, `AcknowledgedIsSaved`, `ReadsAreCurrent`,
  `NobodyWaitsInACircle`; under fairness `EveryCallReturns`.
* `LegacyServer`: `TableTellsRuns`, `ListIsSnapshot`, `NobodyWaitsInACircle`; under
  fairness `OnlyOthersHoldUp`; `ImplementsLifecycle` with `TellsRuns <- FALSE`.
* `CommandMatch`: `TokenizerCorrect`, `VerdictCorrect`, and `TypeOK`, which says that no
  token is empty.

The type invariants of `ApprovalDaemon`, `TelegramWebhook`, `TokenStore` and `LegacyServer`
are proved (`TypeCorrect`); the daemon's is also a conjunct of `SafetyInv`.
`NobodyWaitsInACircle` is about the mutex of a server: a call that cannot take its next step
(`CanGoOn` is the condition under which that step is enabled) waits for one that can, over
at most one writer that waits for its readers. It needs no fairness, unlike
`EveryCallReturns` and `OnlyOthersHoldUp`. The second of these is conditional on purpose: the
legacy server can hang. `CombinedOutput` waits for every process that holds the output of the
command, without a `WaitDelay`, and answers are written under the lock to clients that may not
read, without a `WriteTimeout`; either keeps everybody else waiting. The property says that
nothing else does: no refused call keeps the lock, no writer starves behind lists, no list
behind executions that end.

**Bounds.** The `Max...` constants and the small sets are the only bounds.

* Daemon: two handlers are enough for every race on one request, because each property
  speaks of at most two handlers. `TTL = 2` and `Second = 2` put deadlines at whole and at
  half seconds and let them fall before, at and after each step, in time order and in text
  order. There is one request: that one handler's result does not land on another row, and
  that requests do not hold each other up, is covered by the proofs (for safety, with any
  number of requests) and not by the liveness properties. One restart is enough for a request
  to meet a later process. The clock can pass every deadline, so no property holds because
  time stopped. "record" fails in the run only after the store was closed, because
  `ExecutionRecorded` needs a database that works; the proofs let it fail at any time. The
  `:memory:` database (`Persistent = FALSE`) is covered by the proofs only.
* PAM: two users, one of them authorised, and two tokens are an intruder and a replaced
  enrolment. With `Second = 2` and deadlines at both halves of it SQLite refuses early and
  accepts late within `MaxTime = 3`.
* Webhook: two updates by two users race for one request, and a third delivery repeats
  the first, also after a crash; three attempts are what the code has. An update may
  be delivered twice to the end; a delivery cut off by the crash does not count. In the run
  SQLite refuses a press before the deadline, which is what `AnswersAreTrue` has to allow;
  that it accepts one after it needs a longer clock and is covered by the proof.
* Token service: two callers are enough for a reader, a writer and the change from the
  read lock to the write lock; two tokens tell an old value from a new one; one user is
  enough because nothing but the lock relates users. One crash lets the next process
  choose the other store.
* Legacy server: three handlers are an execution, a call that waits and a list.
* Matchers: four characters are enough for a quote inside the other kind of quotes, for
  adjacent and empty quotes, and for two words with a blank between them; three for a
  pattern of two words or of a word and a star. Commands contain NUL, at every place of a
  word, within and outside quotes. A matcher stops when it has answered, so
  deadlock is not checked there.

**Fairness**, used by liveness properties only:

* `ApprovalDaemon`: weak fairness of every handler step but the end of a command, of the
  clock, of the cleanup ticker, of closing the store and exiting once a stop began, and
  of the restart (`Restart=always` in the installer's unit file). A command need not end:
  the five-minute limit kills it, but a child it leaves behind keeps `Run` waiting, for no
  `WaitDelay` is set. No client has to call, nobody has to decide, no signal has to
  arrive, and no fairness is assumed of failures. `daemon_orphan` assumes in addition
  that commands do end (`CommandsEndSpec`), so its counterexample is not a command that
  hangs. `ExecutionRecorded` is checked without statement failures, because the code
  drops the error and does not retry.
* `TelegramWebhook`: Telegram keeps delivering an update that nobody handled; every call
  a goroutine makes has a time limit or is local. Nothing is assumed of the network, of
  the external system or of whoever presses.
* `TokenStore` and `LegacyServer`: weak fairness of steps of a goroutine and strong
  fairness of `Lock`, because the mutex among the writers of a `sync.RWMutex` is a
  `sync.Mutex`, which does not starve a waiter. `TokenStore` assumes that system calls
  and child processes end. The latter have a time limit, which is as good as `cmd.Run`: if
  `clawvault resolve` left a child behind with the pipe open, `Run` would wait for it, because
  no `WaitDelay` is set there either. `LegacyServer` assumes nothing of the end of a command
  nor of a client that reads: `Record`, `Deny`, `EncodeList` and `ReplyCreated` have no
  fairness.

## 4. Proofs

`ApprovalDaemonProofs` proves, for every value of the constants that satisfies the named
assumptions (`NoneAssumption`, `TimeAssumption`, `FaultAssumption`, `UnitsAssumption`):

* `TypeCorrect`: `Spec => []TypeOK`.
* `SafetyInvHolds`: `Spec => []SafetyInv`. `RunsAtMostOnce` is not inductive: it needs to
  know that a handler about to execute is alone past `UpdateStateIf`
  (`ExecutorOwnsRequest`), that its request has not run yet (`ResultsAreReal`), that a
  pending request has never run (`NeverRunsUnapproved`), and that the command checked is
  the command of the row (`SnapshotsAgree`). `SafetyInv` is their conjunction with
  `TypeOK`; there is one lemma per kind of step. The key one is `UpdateSafe`: the
  conditional update succeeds only on a pending row, and a pending row has no executor.
* `RunsAtMostOnceHolds`, `NeverRunsUnapprovedHolds`: consequences.
* `FinalStatusesAreFinalHolds`, `RunsOnlyAllowlistedHolds`: action properties from the
  same invariant.
* `ImplementsLifecycleHolds`: every daemon step is a step or a stutter of
  `RequestLifecycle` under the mapping `state[id] = rows[id].status`.
* `DeciderRecordedHolds`. `DecisionStep` says that a row becomes approved or denied only
  together with its actor and a time whose text sorts before the deadline's, and expired only
  when the clock's text does not; it uses `HandlerKnows`, what a handler established on its
  way to the statement (a complete body, a time stamp, a deadline that is past).
* `TextErrsWithinTheSecondHolds`, for every `Second` and `Units`: the error that
  `daemon_text_time` finds stays below a second, because the order of the texts never
  contradicts the order of the seconds.

`RequestLifecycleProofs` proves, for any number of requests, what an implementation of
`RequestLifecycle` may rely on: `RunsAsApprovedHolds` (a command runs at most once, only
after an approval, and where "completed" tells runs only one that ran is completed) and `LivesForwardHolds` (no decision
is revised, no step skips the approval, a request is lost only with its process). Both are
carried over where they say something new: to the legacy server, and the second to the
webhook. `Promise` is the instance of `RequestLifecycleProofs` under the refinement mapping
and `SameLifecycle` shows that its specification is the `Lifecycle` the module implements.

`LegacyServerProofs` proves, from `LegacyAssumption` alone, for any number of requests and
goroutines:

* `TypeCorrect`, and `InvHolds`: `Spec => []Inv`. Neither `TableTellsRuns` nor
  `ListIsSnapshot` is inductive. `Inv` adds what a handler may rely on about the mutex at
  each of its stages (`LockInv`), that it knows its request (`KnowsInv`), that a request
  being created is not in the table and in nobody else's hands (`CreateInv`), and that the
  request of a command that runs looks pending and was not started before (`ExecInv`).
  `WriterIsAlone` is the key lemma: while one goroutine writes, no other holds the lock,
  so the three steps that change the table (`TableChangesUnderLock`) meet neither an
  execution nor a reader.
* `TableTellsRunsHolds`, `ListIsSnapshotHolds`: consequences.
* `NobodyWaitsInACircleHolds`, from `PlaceInv`: a call is at one place of the mutex and its
  stage says which (the writer, among the readers, parked, or nowhere), and readers are
  parked only behind a writer. `PlaceOfMover` lets each action be looked at from its own
  goroutine only, and `NoCircle` finds whom a blocked call waits for.
* `ImplementsLifecycleHolds`: the record says "pending" until the command is over, so the
  mapping (`Promised`) calls the request of the running command "approved"; `Insert` is
  Submit, `Approve` and `Deny` are Decide, `Execute` is Run (or nothing, for a command
  that is not allowed) and `Record` is Finish.
* `RunsAsApprovedHolds` and `LivesForwardHolds`, about the mapped state.

`PamServiceProofs` proves, from `PamNoneAssumption`, `PamUsersAssumption`,
`PamTimeAssumption` and `UnitsAssumption`, for any number of users, tokens, requests and handlers:

* `TypeCorrect`: `Spec => []TypeOK`.
* `RequestStep`, the lemma the request theorems share: a step leaves each request alone,
  creates it, expires it, or decides it while it is pending and its store finds it in time, on behalf of one handler whose press or call it was. From it follow
  `DecidedOnceHolds`, `ApprovedBeforeDeadlineHolds`, `DecisionsAreFinalHolds` and
  `ImplementsLifecycleHolds`.
* `ApproverIsEnrolledHolds` and `DeletesOnlyIdleTokensHolds`. Neither property is
  inductive; `EnrolInv` adds that files hold tokens of enrolled users, that a call past the
  authorisation check is made by a user who passed it and is entitled to its stage, and
  `ApprovalsEntitled` that every approval in the table was made by such a call.

`TelegramWebhookProofs` proves, from `WebhookNoneAssumption`, `WebhookBoundsAssumption`,
`PressesAssumption` and `UnitsAssumption`, for any number of updates, deliveries, users, attempts and crashes:

* `TypeCorrect`, with `StageInv`: what the stage of a goroutine says of its locals and of
  the update it serves.
* `CallMoves` and `RowsStep` classify what a step does to one goroutine and to one row;
  every theorem below is about these classes.
* `OneReportPerDenialHolds` and `ReportsAreTrueHolds`, from `ClaimInv`: a goroutine that is
  about to say "denied" or reports it has a true claim, no request has two claims, and only
  a reporter's copies are on the wire. A second claim cannot arise because a denied row
  accepts no decision (`DeniedStays`), and a crash that loses an in-memory row leaves it
  unusable.
* `AnswersAreTrueHolds`, from `ClaimInv` and `AnswerInv`: what was read of the row stays
  true.
* `RetriesUntilVerdictHolds`, an action property.
* `ImplementsLifecycleHolds`: the state of a request is the status of its row, nobody runs
  anything, and only a crash with the in-memory back end is Vanish; so the store in use
  must be known to be one of `Backends` (`BackendInv`). `LivesForwardHolds` follows.

`TokenStoreProofs` proves, from `TokenStoreAssumption`, for any number of goroutines, users,
tokens and crashes:

* `TypeCorrect`, together with `CallInv`: a call under way knows its operation and its user
  and the process is up; and `StoreAsConfiguredHolds`.
* `AcknowledgedIsSavedHolds`: `StoresStep` says that only ageing, a truncation, the end of
  a write and a crash touch the stores, and `WriteEffect`, `TruncateEffect` and `AgeEffect`
  what each does to the one cell it touches. While a file is torn its writer is still at
  work, or the crash that ended it made the content unknown.
* `ReadsAreCurrentHolds` needs more than the previous theorem: that a call which judges a
  result or completes a write really holds `PAM.mu` (`LockInv`), that holders exclude each
  other (`LockKept`), and that a file without a token has no value (`AbsentInv`).
  `GotOrigin` splits the results: one that was just read is compared with what is saved,
  and one read earlier stays current because its holder keeps every writer out.

* `NobodyWaitsInACircleHolds`, from a `PlaceInv` of its own. A retrieval here takes the read
  lock, gives it up and asks for the write lock, so `PlaceAt` ties each stage to a place,
  `Uses` lists the operations on the mutex, and `PlaceKept` shows once that each of them
  leaves the other goroutines where they are. `ParkedBehindWriter` is the other half: a
  reader is parked only while there is a writer to let it in.

`CommandMatchProofs` proves, from `LettersAssumption` and `TextAssumption`, for texts of any
length over any letters and the classes of characters, NUL included:

* `TokenizerTypeCorrect`, `Spec => []TypeOK`: `Flush` appends only what is not empty.
* `TokenizerIsCorrect` and `VerdictIsCorrect`: both properties at once are `WordsInv`,
  with `Scanned`, the invariant of the loop. It says by `Reads` what the locals are after
  n characters: the tokens, with the current one, are as many as words have begun, each
  is as long as the part of its word read so far and has every solid character at its
  place, and the open quote is `QuoteAfter` of n. `ReadsChar` is one round of the loop,
  by what the position is: a quote or a dropped NUL (`ReadsNoWord`), a break, the first
  character of a word (`ReadsFirst`) or a further one (`ReadsMore`). `ReadsEverything` is the end of the
  text. The definitions by counting make the rounds local: a further character adds one
  position to one word and leaves the others (`WordGrows`, `OtherWordsStay`). That the
  recursive function `QuoteAfter` has its values is an induction over positions; the
  lemma `Induction` gives it by the least counterexample, over a set rather than a
  predicate. `TokensMatchWords` and `LegacyMatchesTexts` compare the matchers with
  `ShouldMatch`.

Only model-checked are the liveness properties (`PendingResolves`, `ExecutionRecorded`,
`EveryUpdateHandled`, `EveryNotifierEnds`, `EveryCallReturns` and `OnlyOthersHoldUp`): they
rest on fairness and ENABLED, which the prover does not reason about. `NobodyWaitsInACircle` is the
safety part of the last two. The six violations are model-checked by their nature.

## 5. Not modelled

* `ValidateInitData` and the encryption of token files: keyed functions without state;
  their verdict is an input.
* Message texts, logging, the OpenClaw notification (one POST without a retry whose error
  every caller drops), CORS, the CSRF and token middleware, the clients.
* Configuration: a sequence of overrides read once at the start (when the file is missing,
  `Load` returns before the `KINGCRAB_PORT` override). `Restart` reads any allowlist.
* Database connection and migrations: a sequential list of statements with no caller in
  the daemon; the CREATE TRIGGER statements are not repeatable.
* The `Get` and list handlers of the API only read. Three things about `handleListRequests`
  are worth knowing: it lists pending requests only, while `docs/API_SPECIFICATION.md:144`
  describes all requests with a status filter and `README.md:238` "List all requests"; and
  `start + limit` (`v1.go:249`) wraps for a limit near the largest int, after which the slice
  expression (`v1.go:253`) panics. `Update`, `Delete` and `LogAudit` of the in-memory and Postgres
  stores have no caller that matters to a modelled operation.
* The bytes a client of the legacy server gets from the record encoded after `Unlock`.

## 6. Plan

What could still be added, in order of importance:

1. An abstract token service (one register per user, acknowledged writes) that `TokenStore`
   implements, which would join `AcknowledgedIsSaved` and `ReadsAreCurrent`.
2. The order in which `Load` overrides the configuration, as a pure function; it matters
   only before the first request.
3. The migrations as a list of statements that a crash can cut, once the daemon runs them.
