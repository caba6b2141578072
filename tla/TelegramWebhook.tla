---------------------------- MODULE TelegramWebhook ----------------------------
(***************************************************************************)
(* internal/telegram/webhook.go and the calls of bot.go it makes: updates   *)
(* that Telegram delivers at least once, the handler of a deny button, and  *)
(* the goroutine that tells an external system about a denial with up to    *)
(* three attempts.  Handlers race with each other, with approvals and       *)
(* denials made elsewhere on the same request store, with the deadline and  *)
(* with the end of the process; an HTTP copy can arrive after its sender    *)
(* gave it up.                                                              *)
(*                                                                          *)
(* An update without the secret token or with a bad body is refused before  *)
(* it has any effect and is not a step.                                     *)
(***************************************************************************)
EXTENDS Deadlines, FiniteSets

CONSTANTS
    Requests,       \* request identifiers
    Queries,        \* updates of Telegram, by identifier
    Users,          \* whoever presses a button: Username, else "tg:" and the ID
    None,           \* nil
    Presses,        \* Presses[q]: what update q may say
    NotifyURLs,     \* what notifyURL may be: "unset", "invalid", "valid"
    Backends,       \* the request store: "memory", "postgres", "sqlite"
    MaxRetries,     \* maxRetries of notifyExternal
    RequestTTL,     \* ticks from creation to expiry
    MaxTime,        \* bound: the last tick of the clock
    MaxDeliveries,  \* bound: MaxDeliveries[q], how often update q is handled to the end
    MaxCrashes,     \* bound: how often the process dies
    StoreErrors     \* TRUE: a call of an SQL request store may fail

ASSUME WebhookBoundsAssumption ==
    /\ MaxRetries \in Nat \ {0}
    /\ MaxDeliveries \in [Queries -> Nat \ {0}]
    /\ {RequestTTL, MaxTime, MaxCrashes} \subseteq Nat
    /\ StoreErrors \in BOOLEAN
    /\ NotifyURLs \subseteq {"unset", "invalid", "valid"}
    /\ Backends \subseteq {"memory", "postgres", "sqlite"}

VARIABLES
    notifyURL,  \* WebhookHandler.notifyURL, fixed at the start
    backend,    \* the request store, fixed at the start
    now,        \* wall clock
    rows,       \* the request store
    press,      \* press[q]: what update q says, None before it exists
    call,       \* call[<<q, d>>]: the goroutine that serves delivery d of update q
    wire,       \* copies under way to the external system; a lost one stays here for ever
    crashes,    \* how often the process died
    heard       \* history: the copies the external system received

hookVars == <<notifyURL, backend, now, rows, press, call, wire, crashes, heard>>

-----------------------------------------------------------------------------
(* Rows, updates and goroutines *)

Row == [status: {"none", "pending", "approved", "denied", "expired", "lost"},
        expiresAt: Nat, by: Users \cup {None}]    \* by: who denied

\* What an update can be: a deny button, another button, no data at all, or a text such as
\* /start or /status.
Press == [from: Users \cup {None}, data: Requests \cup {"empty", "other", "text"}]

ASSUME PressesAssumption == Presses \in [Queries -> SUBSET Press]

Deliveries == UNION {{<<q, d>> : d \in 1 .. MaxDeliveries[q]} : q \in Queries}

Verdict == {"denied", "already", "error", "expired", "not found", "invalid", "unknown", "text"}

\* "lost" is a notifier that died with its process.
PC == {"none", "get", "update", "answer", "post", "waiting", "done", "lost"}
HandlerPC == {"get", "update", "answer"}
NotifierPC == {"post", "waiting"}

Codes == {"2xx", "4xx", "other"}

ASSUME WebhookNoneAssumption == None \notin Requests \cup Users \cup Verdict \cup Codes

\* checked: when handleDeny compared the deadline with the clock, until UpdateStateIf.
Call == [pc: PC, checked: Nat, verdict: Verdict \cup {None}, attempt: 0 .. MaxRetries,
         code: Codes \cup {None}]
NoCall == [pc |-> "none", checked |-> 0, verdict |-> None, attempt |-> 0, code |-> None]

\* Deliveries of an update are numbered as they come.
FirstUnused(dl) == /\ call[dl].pc = "none"
                   /\ \A d \in 1 .. (dl[2] - 1) : call[<<dl[1], d>>].pc # "none"

\* notifyExternal was started for this delivery.
Notifies(dl) == call[dl].attempt > 0

-----------------------------------------------------------------------------
(* The request store and the others who use it *)

\* UpdateStateIf(pending -> approved or denied), with the clock read at instant `at`.
Accepts(row, at) == row.status = "pending" /\ InTime(backend, row.expiresAt, at)

\* The in-memory store does not keep who denied.
Denied(row, user) == [row EXCEPT !.status = "denied",
                                 !.by = IF backend = "memory" THEN None ELSE user]

\* Calls of the in-memory store never fail.
SqlErrors == StoreErrors /\ backend # "memory"

CreateRequest(id) ==
    /\ rows[id].status = "none"
    /\ now + RequestTTL < MaxTime     \* bound: every request can expire
    /\ rows' = [rows EXCEPT ![id] = [status |-> "pending", expiresAt |-> now + RequestTTL,
                                     by |-> None]]
    /\ UNCHANGED <<notifyURL, backend, now, press, call, wire, crashes, heard>>

\* The API or the PAM handler approves, with a clock it read since the request was made.
ApproveElsewhere(id) ==
    /\ \E at \in (rows[id].expiresAt - RequestTTL) .. now : Accepts(rows[id], at)
    /\ rows' = [rows EXCEPT ![id].status = "approved"]
    /\ UNCHANGED <<notifyURL, backend, now, press, call, wire, crashes, heard>>

ExpireOldRequests ==
    /\ rows' = [id \in Requests |->
                  IF rows[id].status = "pending" /\ ~Accepts(rows[id], now)
                  THEN [rows[id] EXCEPT !.status = "expired"] ELSE rows[id]]
    /\ UNCHANGED <<notifyURL, backend, now, press, call, wire, crashes, heard>>

Tick ==
    /\ now < MaxTime
    /\ now' = now + 1
    /\ UNCHANGED <<notifyURL, backend, rows, press, call, wire, crashes, heard>>

-----------------------------------------------------------------------------
(* Updates *)

\* Somebody presses a button or writes to the bot.
PressButton(q, p) ==
    /\ press[q] = None
    /\ press' = [press EXCEPT ![q] = p]
    /\ UNCHANGED <<notifyURL, backend, now, rows, call, wire, crashes, heard>>

Start(dl, pc, verdict) ==
    call' = [call EXCEPT ![dl] = [NoCall EXCEPT !.pc = pc, !.verdict = verdict]]

\* Mutant: the guard against a nil From is gone; the handler panics, the connection drops
\* and the update stays unanswered.
ServeHTTPNilFrom(dl) ==
    /\ FirstUnused(dl)
    /\ press[dl[1]] # None
    /\ LET p == press[dl[1]] IN
       CASE p.data = "text" -> Start(dl, "answer", "text")
         [] p.data = "empty" -> Start(dl, "answer", "invalid")
         [] p.data = "other" -> Start(dl, "answer", "unknown")
         [] p.data \in Requests -> p.from # None /\ Start(dl, "get", None)
    /\ UNCHANGED <<notifyURL, backend, now, rows, press, wire, crashes, heard>>

\* ServeHTTP, handleCallbackQuery and the first lines of handleDeny.  Telegram delivers an
\* update again whenever it did not see the answer, also while a handler is at work on it.
ServeHTTP(dl) ==
    /\ FirstUnused(dl)
    /\ press[dl[1]] # None
    /\ LET p == press[dl[1]] IN
       CASE p.data = "text" -> Start(dl, "answer", "text")
         [] p.data = "empty" -> Start(dl, "answer", "invalid")
         [] p.data = "other" -> Start(dl, "answer", "unknown")
         [] p.data \in Requests /\ p.from = None -> Start(dl, "answer", "invalid")
         [] OTHER -> Start(dl, "get", None)
    /\ UNCHANGED <<notifyURL, backend, now, rows, press, wire, crashes, heard>>

\* Go on at pc with the answer verdict.
Goto(dl, pc, verdict) ==
    call' = [call EXCEPT ![dl].pc = pc, ![dl].verdict = verdict, ![dl].checked = 0]

\* requestStore.Get and time.Now().After(req.ExpiresAt).  The status is not looked at, and a
\* row keeps its deadline, so nothing is lost by taking the two in one step.
GetAndCheckDeadline(dl) ==
    /\ call[dl].pc = "get"
    /\ LET row == rows[press[dl[1]].data] IN
       \/ /\ SqlErrors \/ row.status \in {"none", "lost"}
          /\ Goto(dl, "answer", "not found")
       \/ /\ row.status \notin {"none", "lost"}
          /\ IF now > row.expiresAt
             THEN Goto(dl, "answer", "expired")
             ELSE call' = [call EXCEPT ![dl].pc = "update", ![dl].checked = now]
    /\ UNCHANGED <<notifyURL, backend, now, rows, press, wire, crashes, heard>>

\* Mutant: a request somebody else denied counts as denied by this press.
UpdateStateIfOrDenied(dl) ==
    /\ call[dl].pc = "update"
    /\ LET id == press[dl[1]].data IN
       IF Accepts(rows[id], now) \/ rows[id].status = "denied"
       THEN /\ rows' = [rows EXCEPT ![id] = Denied(@, press[dl[1]].from)]
            /\ Goto(dl, "answer", "denied")
       ELSE Goto(dl, "answer", "already") /\ UNCHANGED rows
    /\ UNCHANGED <<notifyURL, backend, now, press, wire, crashes, heard>>

\* Mutant: plain Update of the row that was read, whatever it has become.
UpdateBlind(dl) ==
    /\ call[dl].pc = "update"
    /\ rows' = [rows EXCEPT ![press[dl[1]].data] = Denied(@, press[dl[1]].from)]
    /\ Goto(dl, "answer", "denied")
    /\ UNCHANGED <<notifyURL, backend, now, press, wire, crashes, heard>>

\* UpdateStateIf(pending -> denied), the one guard against everybody else, with a clock read
\* since the handler's check; an SQL store may fail, also after it committed the denial.
UpdateStateIf(dl) ==
    /\ call[dl].pc = "update"
    /\ LET id == press[dl[1]].data
           deny == rows' = [rows EXCEPT ![id] = Denied(@, press[dl[1]].from)]
       IN \/ SqlErrors /\ Goto(dl, "answer", "error") /\ UNCHANGED rows
          \/ \E at \in call[dl].checked .. now :
                \/ ~Accepts(rows[id], at) /\ Goto(dl, "answer", "already") /\ UNCHANGED rows
                \/ /\ Accepts(rows[id], at) /\ deny
                   /\ \/ Goto(dl, "answer", "denied")
                      \/ SqlErrors /\ Goto(dl, "answer", "error")
    /\ UNCHANGED <<notifyURL, backend, now, press, wire, crashes, heard>>

\* AnswerCallbackQuery (SendMessage for a text), after a denial EditMessageText too, then
\* return, and `go notifyExternal` when it denied and has a URL to call.  The errors of the
\* bot's calls are ignored: the handler does not know whether Telegram displayed anything.
AnswerAndReturn(dl) ==
    /\ call[dl].pc = "answer"
    /\ call' = [call EXCEPT ![dl] =
                  IF @.verdict = "denied" /\ notifyURL # "unset"
                  THEN [NoCall EXCEPT !.pc = "post", !.attempt = 1]
                  ELSE [NoCall EXCEPT !.pc = "done"]]
    /\ UNCHANGED <<notifyURL, backend, now, rows, press, wire, crashes, heard>>

-----------------------------------------------------------------------------
(* notifyExternal *)

\* The condition `attempt < maxRetries` is false.
GiveUp(c) == c.attempt = MaxRetries

\* Mutant: a round after a failed attempt does not count.
RetryUncounted(c) == [c EXCEPT !.pc = "post"]

\* The next round of the loop, after a sleep if there was a connection to fail, or the end.
Retry(c) == IF GiveUp(c) THEN [c EXCEPT !.pc = "done"]
                         ELSE [c EXCEPT !.pc = "post", !.attempt = @ + 1]

\* NewRequestWithContext fails on an invalid URL; otherwise client.Do sends a copy.
Post(dl) ==
    /\ call[dl].pc = "post"
    /\ IF notifyURL = "invalid"
       THEN call' = [call EXCEPT ![dl] = Retry(@)] /\ UNCHANGED wire
       ELSE /\ call' = [call EXCEPT ![dl].pc = "waiting", ![dl].code = None]
            /\ wire' = wire \cup {<<dl, call[dl].attempt>>}
    /\ UNCHANGED <<notifyURL, backend, now, rows, press, crashes, heard>>

\* client.Do fails: no connection, or the five seconds are over, whether the copy or the
\* answer is still under way or lost.
TransportFails(dl) ==
    /\ call[dl].pc = "waiting"
    /\ call' = [call EXCEPT ![dl] = Retry(@)]
    /\ UNCHANGED <<notifyURL, backend, now, rows, press, wire, crashes, heard>>

\* Mutant: only a success ends the loop early.
OnCodeRetries4xx(c, code) ==
    IF code = "2xx" THEN [c EXCEPT !.pc = "done", !.code = code]
                    ELSE Retry([c EXCEPT !.code = code])

\* 2xx is a success, 4xx is final, everything else is tried again.
OnCode(c, code) ==
    IF code \in {"2xx", "4xx"} THEN [c EXCEPT !.pc = "done", !.code = code]
                               ELSE Retry([c EXCEPT !.code = code])

\* The external system gets a copy and answers it; only a sender that still waits for this
\* very attempt sees the answer.
ExternalReceives(copy, code) ==
    /\ copy \in wire
    /\ wire' = wire \ {copy}
    /\ heard' = heard \cup {copy}
    /\ LET dl == copy[1] IN
       call' = IF call[dl].pc = "waiting" /\ call[dl].attempt = copy[2]
               THEN [call EXCEPT ![dl] = OnCode(@, code)] ELSE call
    /\ UNCHANGED <<notifyURL, backend, now, rows, press, crashes>>

-----------------------------------------------------------------------------

\* The process dies and is started again.  Telegram saw no answer from the handlers, so
\* their deliveries are to be made again; a notifier is gone for good.
Crash ==
    /\ crashes < MaxCrashes
    /\ crashes' = crashes + 1
    /\ call' = [dl \in Deliveries |->
                  CASE call[dl].pc \in HandlerPC -> NoCall
                    [] call[dl].pc \in NotifierPC -> [call[dl] EXCEPT !.pc = "lost"]
                    [] OTHER -> call[dl]]
    /\ rows' = [id \in Requests |->
                  IF backend = "memory" /\ rows[id].status # "none"
                  THEN [rows[id] EXCEPT !.status = "lost"] ELSE rows[id]]
    /\ UNCHANGED <<notifyURL, backend, now, press, wire, heard>>

HandlerStep(dl) == GetAndCheckDeadline(dl) \/ UpdateStateIf(dl) \/ AnswerAndReturn(dl)

NotifierStep(dl) == Post(dl) \/ TransportFails(dl)

Init ==
    /\ notifyURL \in NotifyURLs
    /\ backend \in Backends
    /\ now = 0
    /\ rows = [id \in Requests |-> [status |-> "none", expiresAt |-> 0, by |-> None]]
    /\ press = [q \in Queries |-> None]
    /\ call = [dl \in Deliveries |-> NoCall]
    /\ wire = {}
    /\ crashes = 0
    /\ heard = {}

Next ==
    \/ \E id \in Requests : CreateRequest(id) \/ ApproveElsewhere(id)
    \/ ExpireOldRequests
    \/ Tick
    \/ \E q \in Queries : \E p \in Presses[q] : PressButton(q, p)
    \/ \E dl \in Deliveries : ServeHTTP(dl) \/ HandlerStep(dl) \/ NotifierStep(dl)
    \/ \E copy \in wire, code \in Codes : ExternalReceives(copy, code)
    \/ Crash

Spec == Init /\ [][Next]_hookVars

\* Telegram keeps delivering an update nobody handled; every call a goroutine makes has a
\* time limit or is local.  Nothing is assumed of the network, of the external system or
\* of whoever presses.
Fairness ==
    /\ \A q \in Queries : WF_hookVars(\E d \in 1 .. MaxDeliveries[q] :
           (\A e \in 1 .. MaxDeliveries[q] : call[<<q, e>>].pc = "none") /\ ServeHTTP(<<q, d>>))
    /\ \A dl \in Deliveries : WF_hookVars(HandlerStep(dl)) /\ WF_hookVars(NotifierStep(dl))

FairSpec == Spec /\ Fairness

-----------------------------------------------------------------------------
(* Properties *)

\* The table says that the user denied the request, as far as this store can say it.
DeniedBy(id, user) ==
    IF backend = "memory" THEN rows[id].status \in {"denied", "lost"}
                          ELSE rows[id].status = "denied" /\ rows[id].by = user

\* Every variable has the shape the code gives it.
TypeOK ==
    /\ notifyURL \in NotifyURLs /\ backend \in Backends
    /\ now \in Nat
    /\ rows \in [Requests -> Row]
    /\ press \in [Queries -> Press \cup {None}]
    /\ call \in [Deliveries -> Call]
    /\ wire \subseteq Deliveries \X (1 .. MaxRetries)
    /\ heard \subseteq Deliveries \X (1 .. MaxRetries)

\* handleDeny: however often an update is delivered, however many people press and whatever
\* the process does, at most one goroutine ever reports the denial of a request, and the
\* external system gets no more than maxRetries copies about it.
OneReportPerDenial ==
    \A id \in Requests :
        LET reporters == {dl \in Deliveries : Notifies(dl) /\ press[dl[1]].data = id}
        IN /\ Cardinality(reporters) <= 1
           /\ Cardinality({c \in heard : c[1] \in reporters}) <= MaxRetries

\* What the external system hears, however late a copy arrives, is what the table says: the
\* request is denied, by the user the copy names unless the store does not keep it.
ReportsAreTrue ==
    \A c \in heard :
        LET p == press[c[1][1]] IN
        /\ p.data \in Requests
        /\ DeniedBy(p.data, p.from)

\* An answer is true when it is chosen and however much later Telegram is asked to display
\* it: "Request denied" only if this user's press denied it; "Request already processed" only
\* if it is decided or its deadline is reached, of which SQLite, comparing texts, may be wrong
\* by less than a second; "Request expired" only past the deadline.
AnswersAreTrue ==
    \A dl \in Deliveries :
        LET p == press[dl[1]]
            verdict == call[dl].verdict
        IN /\ verdict = "denied" =>
                 DeniedBy(p.data, p.from)
           /\ verdict = "already" =>
                 \/ rows[p.data].status # "pending"
                 \/ now >= rows[p.data].expiresAt
                 \/ backend = "sqlite" /\ now + Second > rows[p.data].expiresAt
           /\ verdict = "expired" => now > rows[p.data].expiresAt

\* notifyExternal "Retry on 5xx errors, fail on 4xx": no further copy is sent after an
\* answer that ends the loop, and without one the loop ends only when every attempt is used.
RetriesUntilVerdict ==
    [][\A dl \in Deliveries :
          /\ call[dl].code \in {"2xx", "4xx"} =>
                /\ call'[dl].code = call[dl].code
                /\ \A n \in 1 .. MaxRetries : <<dl, n>> \in wire' => <<dl, n>> \in wire
          /\ call[dl].pc \in NotifierPC /\ call'[dl].pc = "done" =>
                call'[dl].code \in {"2xx", "4xx"} \/ call[dl].attempt = MaxRetries]_hookVars

Lifecycle == INSTANCE RequestLifecycle
             WITH state <- [id \in Requests |-> rows[id].status],
                  runs <- [id \in Requests |-> 0],
                  MayVanish <- "memory" \in Backends,
                  TellsRuns <- TRUE

\* Deliveries, presses, approvals elsewhere, the clean-up and a crash in between: the row of
\* a request still goes through its life once, and it is lost only with an in-memory store.
ImplementsLifecycle == Lifecycle!Spec

\* Every update is handled to the end in some delivery, through crashes too.
EveryUpdateHandled ==
    \A q \in Queries :
        press[q] # None ~> \E d \in 1 .. MaxDeliveries[q] : call[<<q, d>>].pc \in {"done", "lost"}

\* Every notifier comes to an end, whatever the external system does.
EveryNotifierEnds ==
    \A dl \in Deliveries : call[dl].pc \in NotifierPC ~> call[dl].pc \in {"done", "lost"}
=============================================================================
