-------------------------- MODULE TelegramWebhookProofs --------------------------
(***************************************************************************)
(* Theorems about the Telegram webhook and its reports, for any number of   *)
(* updates, deliveries, users, requests, attempts and crashes.              *)
(***************************************************************************)
EXTENDS TelegramWebhook, FiniteSetTheorems, TLAPS

-----------------------------------------------------------------------------
(* Types and stages *)

\* A press of deny that handleDeny goes on with.
Complete(p) == p \in Press /\ p.data \in Requests /\ p.from # None

\* What the stage of a goroutine says of its locals and of the update it serves.
Stage(c, p) ==
    /\ c.pc # "none" => p \in Press /\ p # None
    /\ c.pc \in {"get", "update"} => Complete(p)
    /\ c.verdict \in {"denied", "already", "expired"} => Complete(p)
    /\ c.verdict # None => c.pc = "answer"
    /\ c.attempt # 0 => Complete(p) /\ c.pc \in {"post", "waiting", "done", "lost"}
    /\ c.pc \in NotifierPC => c.attempt # 0
    /\ c.code \in {"2xx", "4xx"} => c.pc = "done"

StageInv == \A dl \in Deliveries : Stage(call[dl], press[dl[1]])

\* A delivery belongs to an update.
LEMMA DeliveryType == \A dl \in Deliveries : dl[1] \in Queries
BY DEF Deliveries

\* There is at least one attempt, and None is neither a verdict nor a code.
LEMMA Bounds ==
    /\ MaxRetries \in Nat /\ 1 \in 1 .. MaxRetries /\ 0 \in 0 .. MaxRetries
    /\ 1 \in 0 .. MaxRetries
    /\ None \notin Verdict /\ None \notin Codes
BY WebhookNoneAssumption, WebhookBoundsAssumption

\* A goroutine without a call, which fits every update.
LEMMA NoCallType == NoCall \in Call /\ \A p : Stage(NoCall, p)
<1>1. NoCall \in Call
  BY Bounds DEF NoCall, Call, PC
<1>2. \A p : Stage(NoCall, p)
  BY Bounds DEF NoCall, Stage, NotifierPC, Verdict, Codes
<1> QED
  BY <1>1, <1>2

\* The locals of a handler that starts or ends and of a notifier that starts.
LEMMA FreshCall ==
    ASSUME NEW c \in Call, NEW p \in Press, p # None, c.code = None,
           c.pc \in {"get", "post"} => Complete(p),
           c.verdict \in {"text", "invalid", "unknown", None},
           c.verdict # None => c.pc = "answer",
           \/ c.attempt = 0 /\ c.pc \in {"get", "answer", "done"}
           \/ c.attempt = 1 /\ c.pc = "post"
    PROVE  Stage(c, p)
<1>1. c.verdict \notin {"denied", "already", "expired"} /\ c.code \notin {"2xx", "4xx"}
  BY Bounds DEF Verdict, Codes
<1> QED
  BY <1>1 DEF Stage, NotifierPC

\* Only goroutine dl moves, to locals that fit its update.
LEMMA CallStep ==
    ASSUME TypeOK, StageInv, NEW dl \in Deliveries, NEW c \in Call,
           Stage(c, press[dl[1]]), call' = [call EXCEPT ![dl] = c], UNCHANGED press
    PROVE  call' \in [Deliveries -> Call] /\ StageInv'
BY DEF TypeOK, StageInv

\* The loop of notifyExternal stays within its attempts.
LEMMA RetryType ==
    ASSUME NEW c \in Call, NEW p, Stage(c, p), c.pc \in NotifierPC
    PROVE  Retry(c) \in Call /\ Stage(Retry(c), p)
<1>1. c.attempt \in 1 .. MaxRetries /\ MaxRetries \in Nat
  BY WebhookBoundsAssumption DEF Call, Stage
<1>2. CASE c.attempt = MaxRetries
  BY <1>1, <1>2 DEF Retry, GiveUp, Call, PC, Stage, NotifierPC
<1>3. CASE c.attempt # MaxRetries
  <2> DEFINE n == c.attempt + 1
             d == [c EXCEPT !.pc = "post", !.attempt = n]
  <2>1. n \in 0 .. MaxRetries /\ n # 0
    BY <1>1, <1>3
  <2>2. Retry(c) = d
    BY <1>3 DEF Retry, GiveUp
  <2> HIDE DEF n
  <2>3. d \in Call
    BY <2>1 DEF Call, PC
  <2>4. Stage(d, p)
    <3>1. c.attempt # 0 /\ c.pc \in NotifierPC
      BY <1>1
    <3> QED
      BY <2>1, <3>1 DEF Stage, NotifierPC, Call
  <2> QED
    BY <2>2, <2>3, <2>4
<1> QED
  BY <1>2, <1>3

\* The reaction to a code leaves a call that fits its stage.
LEMMA OnCodeType ==
    ASSUME NEW c \in Call, NEW p, NEW code \in Codes, Stage(c, p), c.pc = "waiting"
    PROVE  OnCode(c, code) \in Call /\ Stage(OnCode(c, code), p)
<1>1. CASE code \in {"2xx", "4xx"}
  BY <1>1 DEF OnCode, Call, PC, Stage, NotifierPC
<1>2. CASE code \notin {"2xx", "4xx"}
  <2> DEFINE d == [c EXCEPT !.code = code]
  <2>1. d \in Call /\ Stage(d, p) /\ d.pc \in NotifierPC
    BY <1>2 DEF Call, PC, Stage, NotifierPC
  <2>2. OnCode(c, code) = Retry(d)
    BY <1>2 DEF OnCode
  <2> HIDE DEF d
  <2> QED
    BY <2>1, <2>2, RetryType
<1> QED
  BY <1>1, <1>2

\* Every step keeps the shapes and the stages.
LEMMA TypeStep == TypeOK /\ StageInv /\ [Next]_hookVars => TypeOK' /\ StageInv'
<1> SUFFICES ASSUME TypeOK, StageInv, [Next]_hookVars PROVE TypeOK' /\ StageInv'
  OBVIOUS
<1> USE DEF TypeOK
<1>1. ASSUME NEW id \in Requests, CreateRequest(id) \/ ApproveElsewhere(id)
      PROVE  TypeOK' /\ StageInv'
  BY <1>1, WebhookBoundsAssumption DEF CreateRequest, ApproveElsewhere, StageInv, Row
<1>2. CASE ExpireOldRequests
  <2>1. rows' \in [Requests -> Row]
    BY <1>2 DEF ExpireOldRequests, Row
  <2> QED
    BY <1>2, <2>1 DEF ExpireOldRequests, StageInv
<1>3. CASE Tick
  BY <1>3 DEF Tick, StageInv
<1>4. ASSUME NEW q \in Queries, NEW p \in Presses[q], PressButton(q, p)
      PROVE  TypeOK' /\ StageInv'
  <2>1. p \in Press
    BY PressesAssumption
  <2>2. \A dl \in Deliveries : press'[dl[1]] = press[dl[1]] \/ press[dl[1]] = None
    BY <1>4, DeliveryType DEF PressButton
  <2>3. ASSUME NEW dl \in Deliveries, press[dl[1]] = None
        PROVE  Stage(call[dl], press'[dl[1]])
    <3>1. Stage(call[dl], press[dl[1]]) /\ call[dl] \in Call
      BY DEF StageInv
    <3>2. call[dl].pc = "none"
      BY <2>3, <3>1 DEF Stage
    <3> QED
      BY <3>1, <3>2, Bounds DEF Stage, NotifierPC, Call, Verdict
  <2> QED
    BY <1>4, <2>1, <2>2, <2>3 DEF PressButton, StageInv
<1>5. ASSUME NEW dl \in Deliveries, ServeHTTP(dl)
      PROVE  TypeOK' /\ StageInv'
  <2>1. press[dl[1]] \in Press /\ press[dl[1]] # None
    BY <1>5, DeliveryType DEF ServeHTTP
  <2>2. ASSUME NEW verdict \in {"text", "invalid", "unknown"}, Start(dl, "answer", verdict)
        PROVE  TypeOK' /\ StageInv'
    <3> DEFINE c == [NoCall EXCEPT !.pc = "answer", !.verdict = verdict]
    <3>1. c \in Call /\ Stage(c, press[dl[1]])
      <4>1. /\ c \in Call /\ c.pc = "answer" /\ c.verdict = verdict
            /\ c.attempt = 0 /\ c.code = None
        BY NoCallType, Bounds DEF NoCall, Call, PC, Verdict
      <4> QED
        BY <2>1, <4>1, FreshCall
    <3> HIDE DEF c
    <3>2. call' = [call EXCEPT ![dl] = c]
      BY <2>2 DEF Start, c
    <3> QED
      BY <1>5, <3>1, <3>2, CallStep DEF ServeHTTP
  <2>3. ASSUME Start(dl, "get", None), Complete(press[dl[1]])
        PROVE  TypeOK' /\ StageInv'
    <3> DEFINE c == [NoCall EXCEPT !.pc = "get", !.verdict = None]
    <3>1. c \in Call /\ Stage(c, press[dl[1]])
      <4>1. /\ c \in Call /\ c.pc = "get" /\ c.verdict = None
            /\ c.attempt = 0 /\ c.code = None
        BY NoCallType, Bounds DEF NoCall, Call, PC, Verdict
      <4> QED
        BY <2>1, <2>3, <4>1, FreshCall
    <3> HIDE DEF c
    <3>2. call' = [call EXCEPT ![dl] = c]
      BY <2>3 DEF Start, c
    <3> QED
      BY <1>5, <3>1, <3>2, CallStep DEF ServeHTTP
  <2>4. \/ \E verdict \in {"text", "invalid", "unknown"} : Start(dl, "answer", verdict)
        \/ Start(dl, "get", None) /\ Complete(press[dl[1]])
    BY <1>5, <2>1 DEF ServeHTTP, Complete, Press
  <2> QED
    BY <2>2, <2>3, <2>4
<1>6. ASSUME NEW dl \in Deliveries, call[dl].pc \in {"get", "update"},
             NEW verdict \in Verdict \cup {None}, Goto(dl, "answer", verdict), UNCHANGED press
      PROVE  call' \in [Deliveries -> Call] /\ StageInv'
  <2> DEFINE c == [call[dl] EXCEPT !.pc = "answer", !.verdict = verdict, !.checked = 0]
  <2>1. call[dl] \in Call /\ Stage(call[dl], press[dl[1]])
    BY DEF StageInv
  <2>2. c \in Call /\ Stage(c, press[dl[1]])
    BY <1>6, <2>1 DEF Call, PC, Stage, NotifierPC
  <2> HIDE DEF c
  <2>3. call' = [call EXCEPT ![dl] = c]
    BY <1>6 DEF Goto, c
  <2> QED
    BY <1>6, <2>2, <2>3, CallStep
<1>7. ASSUME NEW dl \in Deliveries, GetAndCheckDeadline(dl)
      PROVE  TypeOK' /\ StageInv'
  <2>1. \/ Goto(dl, "answer", "not found") \/ Goto(dl, "answer", "expired")
        \/ call' = [call EXCEPT ![dl].pc = "update", ![dl].checked = now]
    BY <1>7 DEF GetAndCheckDeadline
  <2> DEFINE c == [call[dl] EXCEPT !.pc = "update", !.checked = now]
  <2>c. c \in Call /\ Stage(c, press[dl[1]])
    <3>1. call[dl] \in Call /\ Stage(call[dl], press[dl[1]]) /\ call[dl].pc = "get"
      BY <1>7 DEF StageInv, GetAndCheckDeadline
    <3> QED
      BY <3>1 DEF Call, PC, Stage, NotifierPC
  <2>d. CASE call' = [call EXCEPT ![dl].pc = "update", ![dl].checked = now]
    <3>1. call' = [call EXCEPT ![dl] = c]
      BY <2>d
    <3> HIDE DEF c
    <3>2. call' \in [Deliveries -> Call] /\ StageInv'
      BY <1>7, <2>c, <3>1, CallStep DEF GetAndCheckDeadline
    <3> QED
      BY <1>7, <3>2 DEF GetAndCheckDeadline
  <2>e. CASE Goto(dl, "answer", "not found") \/ Goto(dl, "answer", "expired")
    <3>1. call' \in [Deliveries -> Call] /\ StageInv'
      BY <1>6, <1>7, <2>e DEF GetAndCheckDeadline, Verdict
    <3> QED
      BY <1>7, <3>1 DEF GetAndCheckDeadline
  <2> QED
    BY <2>1, <2>d, <2>e
<1>8. ASSUME NEW dl \in Deliveries, UpdateStateIf(dl)
      PROVE  TypeOK' /\ StageInv'
  <2>1. \E verdict \in {"error", "already", "denied"} : Goto(dl, "answer", verdict)
    BY <1>8 DEF UpdateStateIf
  <2>2. call' \in [Deliveries -> Call] /\ StageInv'
    BY <1>6, <1>8, <2>1 DEF UpdateStateIf, Verdict
  <2>3. Complete(press[dl[1]])
    BY <1>8 DEF UpdateStateIf, StageInv, Stage
  <2>4. rows' \in [Requests -> Row]
    <3>1. press[dl[1]].data \in Requests /\ press[dl[1]].from \in Users
      BY <2>3 DEF Complete, Press
    <3>2. \A row \in Row, u \in Users : Denied(row, u) \in Row
      BY DEF Denied, Row
    <3> QED
      BY <1>8, <3>1, <3>2 DEF UpdateStateIf
  <2> QED
    BY <1>8, <2>2, <2>4 DEF UpdateStateIf
<1>9. ASSUME NEW dl \in Deliveries, AnswerAndReturn(dl)
      PROVE  TypeOK' /\ StageInv'
  <2>1. call[dl] \in Call /\ Stage(call[dl], press[dl[1]]) /\ call[dl].pc = "answer"
    BY <1>9 DEF StageInv, AnswerAndReturn
  <2>2. CASE call[dl].verdict = "denied" /\ notifyURL # "unset"
    <3> DEFINE c == [NoCall EXCEPT !.pc = "post", !.attempt = 1]
    <3>1. c \in Call /\ Stage(c, press[dl[1]])
      <4>1. /\ c \in Call /\ c.pc = "post" /\ c.verdict = None
            /\ c.attempt = 1 /\ c.code = None
        BY NoCallType, Bounds DEF NoCall, Call, PC, Verdict
      <4>2. press[dl[1]] \in Press /\ press[dl[1]] # None /\ Complete(press[dl[1]])
        BY <2>1, <2>2 DEF Stage
      <4> QED
        BY <4>1, <4>2, FreshCall
    <3> HIDE DEF c
    <3>2. call' = [call EXCEPT ![dl] = c]
      BY <1>9, <2>2 DEF AnswerAndReturn, c
    <3> QED
      BY <1>9, <3>1, <3>2, CallStep DEF AnswerAndReturn
  <2>3. CASE ~(call[dl].verdict = "denied" /\ notifyURL # "unset")
    <3> DEFINE c == [NoCall EXCEPT !.pc = "done"]
    <3>1. c \in Call /\ Stage(c, press[dl[1]])
      <4>1. /\ c \in Call /\ c.pc = "done" /\ c.verdict = None
            /\ c.attempt = 0 /\ c.code = None
        BY NoCallType, Bounds DEF NoCall, Call, PC, Verdict
      <4>2. press[dl[1]] \in Press /\ press[dl[1]] # None
        BY <2>1 DEF Stage
      <4> QED
        BY <4>1, <4>2, FreshCall
    <3> HIDE DEF c
    <3>2. call' = [call EXCEPT ![dl] = c]
      BY <1>9, <2>3 DEF AnswerAndReturn, c
    <3> QED
      BY <1>9, <3>1, <3>2, CallStep DEF AnswerAndReturn
  <2> QED
    BY <2>2, <2>3
<1>10. ASSUME NEW dl \in Deliveries, Post(dl)
       PROVE  TypeOK' /\ StageInv'
  <2>1. call[dl] \in Call /\ Stage(call[dl], press[dl[1]]) /\ call[dl].pc = "post"
    BY <1>10 DEF StageInv, Post
  <2>2. CASE notifyURL = "invalid"
    <3>1. Retry(call[dl]) \in Call /\ Stage(Retry(call[dl]), press[dl[1]])
      BY <2>1, RetryType DEF NotifierPC
    <3> QED
      BY <1>10, <2>2, <3>1, CallStep DEF Post
  <2>3. CASE notifyURL # "invalid"
    <3> DEFINE c == [call[dl] EXCEPT !.pc = "waiting", !.code = None]
    <3>1. c \in Call /\ Stage(c, press[dl[1]])
      BY <2>1, Bounds DEF Call, PC, Stage, NotifierPC, Codes
    <3>2. call[dl].attempt \in 1 .. MaxRetries
      BY <2>1, Bounds DEF Call, Stage, NotifierPC
    <3> HIDE DEF c
    <3>3. call' = [call EXCEPT ![dl] = c] /\ wire' = wire \cup {<<dl, call[dl].attempt>>}
      BY <1>10, <2>3 DEF Post, c
    <3> QED
      <4>1. wire' \subseteq Deliveries \X (1 .. MaxRetries)
        BY <3>2, <3>3
      <4>2. call' \in [Deliveries -> Call] /\ StageInv'
        BY <1>10, <3>1, <3>3, CallStep DEF Post
      <4> QED
        BY <1>10, <4>1, <4>2 DEF Post
  <2> QED
    BY <2>2, <2>3
<1>11. ASSUME NEW dl \in Deliveries, TransportFails(dl)
       PROVE  TypeOK' /\ StageInv'
  <2>1. call[dl] \in Call /\ Stage(call[dl], press[dl[1]]) /\ call[dl].pc = "waiting"
    BY <1>11 DEF StageInv, TransportFails
  <2>2. Retry(call[dl]) \in Call /\ Stage(Retry(call[dl]), press[dl[1]])
    BY <2>1, RetryType DEF NotifierPC
  <2> QED
    BY <1>11, <2>2, CallStep DEF TransportFails
<1>12. ASSUME NEW copy \in wire, NEW code \in Codes, ExternalReceives(copy, code)
       PROVE  TypeOK' /\ StageInv'
  <2> DEFINE dl == copy[1]
  <2>1. dl \in Deliveries /\ call[dl] \in Call /\ Stage(call[dl], press[dl[1]])
    BY DEF StageInv
  <2>2. /\ wire' \subseteq Deliveries \X (1 .. MaxRetries)
        /\ heard' \subseteq Deliveries \X (1 .. MaxRetries)
    BY <1>12 DEF ExternalReceives
  <2> HIDE DEF dl
  <2>3. call' \in [Deliveries -> Call] /\ StageInv'
    <3>1. CASE call[dl].pc = "waiting" /\ call[dl].attempt = copy[2]
      <4>1. OnCode(call[dl], code) \in Call /\ Stage(OnCode(call[dl], code), press[dl[1]])
        BY <2>1, <3>1, OnCodeType
      <4>2. call' = [call EXCEPT ![dl] = OnCode(call[dl], code)]
        BY <1>12, <3>1 DEF ExternalReceives, dl
      <4> QED
        BY <1>12, <2>1, <4>1, <4>2, CallStep DEF ExternalReceives
    <3>2. CASE ~(call[dl].pc = "waiting" /\ call[dl].attempt = copy[2])
      BY <1>12, <3>2 DEF ExternalReceives, StageInv, dl
    <3> QED
      BY <3>1, <3>2
  <2> QED
    BY <1>12, <2>2, <2>3 DEF ExternalReceives
<1>13. CASE Crash
  <2>1. rows' \in [Requests -> Row]
    BY <1>13 DEF Crash, Row
  <2>2. ASSUME NEW dl \in Deliveries
        PROVE  call'[dl] \in Call /\ Stage(call'[dl], press[dl[1]])
    <3> DEFINE c == [call[dl] EXCEPT !.pc = "lost"]
    <3>1. call[dl] \in Call /\ Stage(call[dl], press[dl[1]])
      BY DEF StageInv
    <3>2. c \in Call
      BY <3>1 DEF Call, PC
    <3>3. call[dl].pc \in NotifierPC => Stage(c, press[dl[1]])
      BY <3>1, Bounds DEF Call, Stage, NotifierPC
    <3>4. /\ call[dl].pc \in HandlerPC => call'[dl] = NoCall
          /\ call[dl].pc \in NotifierPC => call'[dl] = c
          /\ call[dl].pc \notin HandlerPC \cup NotifierPC => call'[dl] = call[dl]
      BY <1>13 DEF Crash, HandlerPC, NotifierPC
    <3> HIDE DEF c
    <3> QED
      BY <3>1, <3>2, <3>3, <3>4, NoCallType
  <2>3. call' \in [Deliveries -> Call]
    BY <1>13, <2>2 DEF Crash
  <2> QED
    BY <1>13, <2>1, <2>2, <2>3 DEF Crash, StageInv
<1>14. CASE UNCHANGED hookVars
  BY <1>14 DEF hookVars, StageInv
<1> QED
  BY <1>1, <1>2, <1>3, <1>4, <1>5, <1>7, <1>8, <1>9, <1>10, <1>11, <1>12, <1>13, <1>14
     DEF Next, HandlerStep, NotifierStep

\* THEOREM.  Every variable keeps the shape the code gives it, whatever the order in which
\* updates, copies, answers and crashes come.
THEOREM TypeCorrect == Spec => []TypeOK
<1>1. Init => TypeOK /\ StageInv
  <2> SUFFICES ASSUME Init PROVE TypeOK /\ StageInv
    OBVIOUS
  <2>0. notifyURL \in NotifyURLs /\ backend \in Backends
    BY DEF Init
  <2>1. now \in Nat /\ press \in [Queries -> Press \cup {None}] /\ wire = {} /\ heard = {}
    BY DEF Init
  <2>2. rows \in [Requests -> Row]
    BY DEF Init, Row
  <2>3. call \in [Deliveries -> Call] /\ StageInv
    BY NoCallType DEF Init, StageInv
  <2> QED
    BY <2>0, <2>1, <2>2, <2>3 DEF TypeOK
<1> QED
  BY <1>1, TypeStep, PTL DEF Spec

\* Types and stages hold in every reachable state.
LEMMA StagesHold == Spec => [](TypeOK /\ StageInv)
<1>1. Init => StageInv
  BY NoCallType DEF Init, StageInv
<1>2. TypeOK /\ TypeOK' /\ StageInv /\ [Next]_hookVars => StageInv'
  BY TypeStep
<1> QED
  BY <1>1, <1>2, TypeCorrect, PTL DEF Spec

-----------------------------------------------------------------------------
(* What a step may do to a row, to a goroutine and to the copies *)

\* A row that exists keeps its deadline, is never pending again, and a denial stays; the
\* in-memory store loses its rows with the process.
RowStep(id) ==
    \/ rows'[id] = rows[id]
    \/ rows[id].status = "none"
    \/ /\ rows'[id].status \notin {"none", "pending"}
       /\ rows'[id].expiresAt = rows[id].expiresAt
       /\ rows[id].status = "pending" \/ (backend = "memory" /\ rows'[id].status = "lost")

\* Each step is a RowStep for every row, and time does not go back.
LEMMA RowsStep ==
    ASSUME TypeOK, StageInv, [Next]_hookVars
    PROVE  /\ \A id \in Requests : RowStep(id)
           /\ now' \in Nat /\ now' >= now /\ backend' = backend
<1> USE DEF TypeOK
<1>1. ASSUME NEW id \in Requests, CreateRequest(id) \/ ApproveElsewhere(id)
      PROVE  (\A i \in Requests : RowStep(i)) /\ UNCHANGED <<now, backend>>
  BY <1>1 DEF CreateRequest, ApproveElsewhere, Accepts, RowStep, Row
<1>2. CASE ExpireOldRequests
  <2>1. \A i \in Requests : RowStep(i)
    BY <1>2 DEF ExpireOldRequests, RowStep, Row
  <2> QED
    BY <1>2, <2>1 DEF ExpireOldRequests
<1>3. ASSUME NEW dl \in Deliveries, UpdateStateIf(dl)
      PROVE  (\A i \in Requests : RowStep(i)) /\ UNCHANGED <<now, backend>>
  <2>1. press[dl[1]].data \in Requests
    BY <1>3 DEF UpdateStateIf, StageInv, Stage, Complete
  <2>2. UNCHANGED <<now, backend>>
    BY <1>3 DEF UpdateStateIf
  <2>3. \A i \in Requests : RowStep(i)
    <3> DEFINE id == press[dl[1]].data
    <3>1. \/ rows' = rows
          \/ /\ rows[id].status = "pending"
             /\ rows' = [rows EXCEPT ![id] = Denied(rows[id], press[dl[1]].from)]
      BY <1>3 DEF UpdateStateIf, Accepts
    <3>2. /\ Denied(rows[id], press[dl[1]].from).status = "denied"
          /\ Denied(rows[id], press[dl[1]].from).expiresAt = rows[id].expiresAt
      BY <2>1 DEF Denied, Row
    <3> HIDE DEF id
    <3> QED
      BY <2>1, <3>1, <3>2 DEF RowStep, id
  <2> QED
    BY <2>2, <2>3
<1>4. CASE Crash
  <2>1. \A i \in Requests : RowStep(i)
    BY <1>4 DEF Crash, RowStep, Row
  <2> QED
    BY <1>4, <2>1 DEF Crash
<1>5. CASE UNCHANGED <<rows, backend>> /\ now' \in {now, now + 1}
  BY <1>5 DEF RowStep
<1>6. \/ \E id \in Requests : CreateRequest(id) \/ ApproveElsewhere(id)
      \/ ExpireOldRequests
      \/ \E dl \in Deliveries : UpdateStateIf(dl)
      \/ Crash
      \/ UNCHANGED <<rows, backend>> /\ now' \in {now, now + 1}
  BY DEF Next, HandlerStep, NotifierStep, Tick, PressButton, ServeHTTP, GetAndCheckDeadline,
         AnswerAndReturn, Post, TransportFails, ExternalReceives, hookVars
<1> QED
  BY <1>1, <1>2, <1>3, <1>4, <1>5, <1>6

\* Goroutine dl starts, answers about no row, ends without a report or dies in the handler.
Quiet(dl) ==
    /\ call[dl].pc \in {"none"} \cup HandlerPC
    /\ call'[dl].pc # "update" /\ call'[dl].attempt = 0
    /\ call'[dl].verdict \notin {"denied", "already", "expired"}

\* It read a row, and answers when the deadline is over.
Reads(dl) ==
    /\ call[dl].pc = "get"
    /\ rows[press[dl[1]].data].status # "none"
    /\ call'[dl].attempt = 0
    /\ \/ call'[dl].verdict = None
       \/ /\ call'[dl].verdict = "expired" /\ call'[dl].pc # "update"
          /\ now > rows[press[dl[1]].data].expiresAt

\* The row is settled or, as the store reads the clock, out of time at instant `at`.
Processed(row, store, at) == \/ row.status # "pending"
                             \/ at >= row.expiresAt
                             \/ store = "sqlite" /\ at + Second > row.expiresAt

\* Its conditional update is refused.
Refused(dl) ==
    /\ call[dl].pc = "update"
    /\ Processed(rows[press[dl[1]].data], backend, now)
    /\ call'[dl].verdict = "already" /\ call'[dl].attempt = 0 /\ call'[dl].pc # "update"

\* It denies its request.
Denies(dl) ==
    LET p == press[dl[1]] IN
    /\ call[dl].pc = "update"
    /\ rows[p.data].status = "pending"
    /\ rows'[p.data] = Denied(rows[p.data], p.from)
    /\ call'[dl].verdict = "denied" /\ call'[dl].attempt = 0 /\ call'[dl].pc # "update"
    /\ \A e \in Deliveries \ {dl} : call'[e] = call[e]

\* It goes on to report its denial.
Reports(dl) ==
    /\ call[dl].pc = "answer" /\ call[dl].verdict = "denied"
    /\ call'[dl].verdict = None /\ call'[dl].attempt # 0 /\ call'[dl].pc # "update"

\* It is in notifyExternal, or dies there.
Posts(dl) ==
    /\ call[dl].pc \in NotifierPC
    /\ call'[dl].verdict = None /\ call'[dl].attempt # 0 /\ call'[dl].pc # "update"
    /\ call'[dl].pc = "done" =>
          call'[dl].code \in {"2xx", "4xx"} \/ call[dl].attempt = MaxRetries

CallMove(dl) ==
    \/ call'[dl] = call[dl]
    \/ Quiet(dl) \/ Reads(dl) \/ Refused(dl) \/ Denies(dl) \/ Reports(dl) \/ Posts(dl)

\* What sorts after the text of b is no second earlier than b, if it is earlier.
LEMMA TextErrs ==
    ASSUME NEW a \in Int, NEW b \in Int, ~TextAfter(a, b)
    PROVE  a < b + Second
<1>0. Second \in Nat /\ 0 < Second /\ \A unit \in Units : unit \in Int /\ unit <= Second
  BY UnitsAssumption
<1>1. CASE Extends(a, b)
  <2>1. PICK unit \in Units : a < b + unit
    BY <1>1 DEF Extends
  <2> QED
    BY <1>0, <2>1
<1>2. CASE a <= b
  BY <1>0, <1>2
<1> QED
  BY <1>1, <1>2 DEF TextAfter

\* A store that refuses a denial has a reason, however old its reading of the clock.
LEMMA RefusedIsProcessed ==
    ASSUME TypeOK, backend \in {"memory", "postgres", "sqlite"}, NEW row \in Row,
           NEW at \in Nat, at <= now, ~Accepts(row, at)
    PROVE  Processed(row, backend, now)
<1>0. now \in Nat /\ row.expiresAt \in Nat
  BY DEF TypeOK, Row
<1>1. CASE row.status # "pending"
  BY <1>1 DEF Processed
<1>2. CASE row.status = "pending"
  <2>0. ~InTime(backend, row.expiresAt, at)
    BY <1>2 DEF Accepts
  <2>1. CASE backend = "memory"
    <3>1. at > row.expiresAt
      BY <1>0, <2>0, <2>1 DEF InTime
    <3> QED
      BY <1>0, <3>1 DEF Processed
  <2>3. CASE backend = "postgres"
    <3>1. at >= row.expiresAt
      BY <1>0, <2>0, <2>3 DEF InTime
    <3> QED
      BY <1>0, <3>1 DEF Processed
  <2>2. CASE backend = "sqlite"
    <3>1. row.expiresAt < at + Second
      BY <1>0, <2>0, <2>2, TextErrs DEF InTime
    <3>2. now + Second > row.expiresAt
      BY <1>0, <3>1, UnitsAssumption
    <3> QED
      BY <2>2, <3>2 DEF Processed
  <2> QED
    BY <2>1, <2>2, <2>3
<1> QED
  BY <1>1, <1>2

\* After Retry the notifier posts again, or has used its attempts.
LEMMA RetryPosts ==
    ASSUME NEW c \in Call, c.attempt # 0, c.verdict = None, NEW d, d = Retry(c)
    PROVE  /\ d.verdict = None /\ d.attempt # 0 /\ d.pc \in {"post", "done"}
           /\ d.pc = "done" => c.attempt = MaxRetries
<1>1. CASE c.attempt = MaxRetries
  BY <1>1 DEF Retry, GiveUp, Call
<1>2. CASE c.attempt # MaxRetries
  <2> DEFINE n == c.attempt + 1
  <2>1. n # 0
    BY WebhookBoundsAssumption DEF Call
  <2>2. d = [c EXCEPT !.pc = "post", !.attempt = n]
    BY <1>2 DEF Retry, GiveUp
  <2> HIDE DEF n
  <2> QED
    BY <2>1, <2>2 DEF Call
<1> QED
  BY <1>1, <1>2

\* One goroutine moves at a time, or the process dies.
LEMMA CallMoves ==
    ASSUME TypeOK, StageInv, [Next]_hookVars, NEW dl \in Deliveries
    PROVE  CallMove(dl)
<1> USE DEF TypeOK
<1>0. /\ \A e \in Deliveries : call[e] \in Call /\ Stage(call[e], press[e[1]])
      /\ None \notin Verdict
      /\ {"denied", "already", "expired", "error", "not found"} \subseteq Verdict
      /\ {"text", "invalid", "unknown"} \subseteq Verdict
  BY Bounds DEF StageInv, Verdict
<1>1. ASSUME NEW e \in Deliveries, ServeHTTP(e)
      PROVE  CallMove(dl)
  <2>1. CASE e # dl
    BY <1>1, <2>1 DEF ServeHTTP, Start, CallMove
  <2>2. CASE e = dl
    <3>1. \E pc \in {"get", "answer"}, verdict \in {"text", "invalid", "unknown", None} :
             Start(dl, pc, verdict)
      BY <1>1, <2>2 DEF ServeHTTP
    <3>2. /\ call'[dl].pc # "update" /\ call'[dl].attempt = 0
          /\ call'[dl].verdict \in {"text", "invalid", "unknown", None}
      BY <3>1 DEF Start, NoCall
    <3>3. call[dl].pc = "none"
      BY <1>1, <2>2 DEF ServeHTTP, FirstUnused
    <3> QED
      BY <1>0, <3>2, <3>3 DEF CallMove, Quiet
  <2> QED
    BY <2>1, <2>2
<1>2. ASSUME NEW e \in Deliveries, GetAndCheckDeadline(e)
      PROVE  CallMove(dl)
  <2>1. CASE e # dl
    BY <1>2, <2>1 DEF GetAndCheckDeadline, Goto, CallMove
  <2>2. CASE e = dl
    <3>1. call[dl].pc = "get" /\ call[dl].attempt = 0
      BY <1>0, <1>2, <2>2 DEF GetAndCheckDeadline, Stage
    <3>2. CASE Goto(dl, "answer", "not found")
      BY <1>0, <3>1, <3>2 DEF Goto, Call, CallMove, Quiet, HandlerPC
    <3>3. CASE /\ rows[press[dl[1]].data].status # "none"
               /\ \/ Goto(dl, "answer", "expired") /\ now > rows[press[dl[1]].data].expiresAt
                  \/ call' = [call EXCEPT ![dl].pc = "update", ![dl].checked = now]
      <4>1. /\ call'[dl].attempt = 0
            /\ \/ /\ call'[dl].verdict = "expired" /\ call'[dl].pc # "update"
                  /\ now > rows[press[dl[1]].data].expiresAt
               \/ call'[dl].verdict = None
        <5>1. CASE call' = [call EXCEPT ![dl].pc = "update", ![dl].checked = now]
          <6>1. call'[dl].attempt = 0 /\ call'[dl].verdict = call[dl].verdict
            BY <1>0, <3>1, <5>1 DEF Call
          <6>2. call[dl].verdict = None
            BY <1>0, <3>1 DEF Stage
          <6> QED
            BY <6>1, <6>2
        <5>2. CASE Goto(dl, "answer", "expired") /\ now > rows[press[dl[1]].data].expiresAt
          <6>1. call'[dl] =
                   [call[dl] EXCEPT !.pc = "answer", !.verdict = "expired", !.checked = 0]
            BY <5>2 DEF Goto
          <6>2. /\ call'[dl].attempt = 0 /\ call'[dl].verdict = "expired"
                /\ call'[dl].pc = "answer"
            BY <1>0, <3>1, <6>1 DEF Call
          <6> QED
            BY <5>2, <6>2
        <5> QED
          BY <3>3, <5>1, <5>2
      <4> QED
        BY <3>1, <3>3, <4>1 DEF CallMove, Reads
    <3> QED
      BY <1>2, <2>2, <3>2, <3>3 DEF GetAndCheckDeadline
  <2> QED
    BY <2>1, <2>2
<1>3. ASSUME NEW e \in Deliveries, UpdateStateIf(e)
      PROVE  CallMove(dl)
  <2>1. CASE e # dl
    BY <1>3, <2>1 DEF UpdateStateIf, Goto, CallMove
  <2>2. CASE e = dl
    <3> DEFINE p == press[dl[1]]
    <3>1. call[dl].pc = "update" /\ call[dl].attempt = 0 /\ p.data \in Requests
      BY <1>0, <1>3, <2>2 DEF UpdateStateIf, Stage, Complete
    <3>2. ASSUME NEW verdict \in Verdict, Goto(dl, "answer", verdict)
          PROVE  /\ call'[dl].pc = "answer" /\ call'[dl].attempt = 0
                 /\ call'[dl].verdict = verdict
                 /\ \A d \in Deliveries \ {dl} : call'[d] = call[d]
      BY <1>0, <3>1, <3>2 DEF Goto, Call
    <3>3. CASE Goto(dl, "answer", "error")
      BY <1>0, <3>1, <3>2, <3>3 DEF CallMove, Quiet, HandlerPC
    <3>4. ASSUME NEW at \in call[dl].checked .. now, ~Accepts(rows[p.data], at),
                 Goto(dl, "answer", "already")
          PROVE  CallMove(dl)
      <4>1. at \in Nat /\ at <= now /\ rows[p.data] \in Row
        <5>1. call[dl].checked \in Nat
          BY <1>0 DEF Call
        <5> QED
          BY <3>1, <3>4, <5>1
      <4>2. backend \in {"memory", "postgres", "sqlite"}
        BY WebhookBoundsAssumption
      <4>3. Processed(rows[p.data], backend, now)
        BY <3>4, <4>1, <4>2, RefusedIsProcessed
      <4> QED
        BY <1>0, <3>1, <3>2, <3>4, <4>3 DEF CallMove, Refused
    <3>5. CASE /\ rows[p.data].status = "pending" /\ Goto(dl, "answer", "denied")
               /\ rows' = [rows EXCEPT ![p.data] = Denied(@, p.from)]
      <4>1. rows'[p.data] = Denied(rows[p.data], p.from)
        BY <3>1, <3>5
      <4> QED
        BY <1>0, <3>1, <3>2, <3>5, <4>1 DEF CallMove, Denies
    <3>6. \/ Goto(dl, "answer", "error")
          \/ \E at \in call[dl].checked .. now :
                ~Accepts(rows[p.data], at) /\ Goto(dl, "answer", "already")
          \/ /\ rows[p.data].status = "pending" /\ Goto(dl, "answer", "denied")
             /\ rows' = [rows EXCEPT ![p.data] = Denied(@, p.from)]
      BY <1>3, <2>2 DEF UpdateStateIf, Accepts
    <3> QED
      BY <3>3, <3>4, <3>5, <3>6
  <2> QED
    BY <2>1, <2>2
<1>4. ASSUME NEW e \in Deliveries, AnswerAndReturn(e)
      PROVE  CallMove(dl)
  <2>1. CASE e # dl
    BY <1>4, <2>1 DEF AnswerAndReturn, CallMove
  <2>2. CASE e = dl /\ call[dl].verdict = "denied" /\ notifyURL # "unset"
    <3>1. call'[dl].verdict = None /\ call'[dl].attempt = 1 /\ call'[dl].pc = "post"
      BY <1>4, <2>2 DEF AnswerAndReturn, NoCall
    <3> QED
      BY <1>4, <2>2, <3>1 DEF AnswerAndReturn, CallMove, Reports
  <2>3. CASE e = dl /\ ~(call[dl].verdict = "denied" /\ notifyURL # "unset")
    <3>1. call'[dl].verdict = None /\ call'[dl].attempt = 0 /\ call'[dl].pc = "done"
      BY <1>4, <2>3 DEF AnswerAndReturn, NoCall
    <3> QED
      BY <1>0, <1>4, <2>3, <3>1 DEF AnswerAndReturn, CallMove, Quiet, HandlerPC
  <2> QED
    BY <2>1, <2>2, <2>3
<1>5. ASSUME call[dl].pc \in NotifierPC, call'[dl] = Retry(call[dl])
      PROVE  CallMove(dl)
  <2>1. call[dl].attempt # 0 /\ call[dl].verdict = None
    BY <1>0, <1>5 DEF Stage, NotifierPC
  <2> QED
    BY <1>0, <1>5, <2>1, RetryPosts DEF CallMove, Posts
<1>6. ASSUME NEW e \in Deliveries, Post(e)
      PROVE  CallMove(dl)
  <2>1. CASE e # dl
    BY <1>6, <2>1 DEF Post, CallMove
  <2>2. CASE e = dl /\ notifyURL = "invalid"
    BY <1>5, <1>6, <2>2 DEF Post, NotifierPC
  <2>3. CASE e = dl /\ notifyURL # "invalid"
    <3>1. call[dl].pc = "post" /\ call[dl].attempt # 0 /\ call[dl].verdict = None
      BY <1>0, <1>6, <2>3 DEF Post, Stage, NotifierPC
    <3>2. /\ call'[dl].pc = "waiting" /\ call'[dl].attempt = call[dl].attempt
          /\ call'[dl].verdict = call[dl].verdict
      <4>1. call'[dl] = [call[dl] EXCEPT !.pc = "waiting", !.code = None]
        BY <1>6, <2>3 DEF Post
      <4> QED
        BY <1>0, <4>1 DEF Call
    <3> QED
      BY <3>1, <3>2 DEF CallMove, Posts, NotifierPC
  <2> QED
    BY <2>1, <2>2, <2>3
<1>7. ASSUME NEW e \in Deliveries, TransportFails(e)
      PROVE  CallMove(dl)
  BY <1>5, <1>7 DEF TransportFails, CallMove, NotifierPC
<1>8. ASSUME NEW copy \in wire, NEW code \in Codes, ExternalReceives(copy, code)
      PROVE  CallMove(dl)
  <2>1. CASE call'[dl] = call[dl]
    BY <2>1 DEF CallMove
  <2>2. CASE call[dl].pc = "waiting" /\ call'[dl] = OnCode(call[dl], code)
    <3>1. call[dl].attempt # 0 /\ call[dl].verdict = None
      BY <1>0, <2>2 DEF Stage, NotifierPC
    <3> DEFINE c == [call[dl] EXCEPT !.code = code]
               d == [call[dl] EXCEPT !.pc = "done", !.code = code]
    <3>2. /\ c \in Call /\ c.attempt = call[dl].attempt /\ c.verdict = call[dl].verdict
          /\ d.code = code /\ d.attempt = call[dl].attempt /\ d.verdict = call[dl].verdict
          /\ d.pc = "done"
      BY <1>0 DEF Call
    <3>3. \/ call'[dl] = d /\ code \in {"2xx", "4xx"}
          \/ call'[dl] = Retry(c)
      BY <2>2 DEF OnCode
    <3> HIDE DEF c, d
    <3>4. CASE call'[dl] = d /\ code \in {"2xx", "4xx"}
      BY <2>2, <3>1, <3>2, <3>4 DEF CallMove, Posts, NotifierPC
    <3>5. CASE call'[dl] = Retry(c)
      BY <2>2, <3>1, <3>2, <3>5, RetryPosts DEF CallMove, Posts, NotifierPC
    <3> QED
      BY <3>3, <3>4, <3>5
  <2> QED
    BY <1>8, <2>1, <2>2 DEF ExternalReceives
<1>9. CASE Crash
  <2>1. CASE call[dl].pc \in HandlerPC
    <3>1. call'[dl] = NoCall
      BY <1>9, <2>1 DEF Crash, HandlerPC, NotifierPC
    <3> QED
      <4>1. call'[dl].pc = "none" /\ call'[dl].attempt = 0 /\ call'[dl].verdict = None
        BY <3>1 DEF NoCall
      <4> QED
        BY <1>0, <2>1, <4>1 DEF CallMove, Quiet
  <2>2. CASE call[dl].pc \in NotifierPC
    <3>1. call'[dl] = [call[dl] EXCEPT !.pc = "lost"]
      BY <1>9, <2>2 DEF Crash, HandlerPC, NotifierPC
    <3>2. call[dl].attempt # 0 /\ call[dl].verdict = None
      BY <1>0, <2>2 DEF Stage, NotifierPC
    <3> QED
      BY <1>0, <2>2, <3>1, <3>2 DEF CallMove, Posts, Call
  <2>3. CASE call[dl].pc \notin HandlerPC \cup NotifierPC
    BY <1>9, <2>3 DEF Crash, CallMove
  <2> QED
    BY <2>1, <2>2, <2>3
<1>10. CASE call' = call
  BY <1>10 DEF CallMove
<1>11. \/ \E e \in Deliveries : ServeHTTP(e) \/ HandlerStep(e) \/ NotifierStep(e)
       \/ \E copy \in wire, code \in Codes : ExternalReceives(copy, code)
       \/ Crash
       \/ call' = call
  BY DEF Next, CreateRequest, ApproveElsewhere, ExpireOldRequests, Tick, PressButton, hookVars
<1> QED
  BY <1>1, <1>2, <1>3, <1>4, <1>6, <1>7, <1>8, <1>9, <1>10, <1>11 DEF HandlerStep, NotifierStep

\* Only a goroutine about to post puts a copy on the wire, and what is heard was on it.
LEMMA CopiesStep ==
    ASSUME TypeOK, [Next]_hookVars
    PROVE  /\ wire' \subseteq
                 wire \cup {<<dl, n>> : dl \in {e \in Deliveries : call[e].pc = "post"}, n \in Nat}
           /\ heard' \subseteq heard \cup wire
<1>1. ASSUME NEW dl \in Deliveries, Post(dl)
      PROVE  /\ wire' \subseteq wire \cup {<<dl, call[dl].attempt>>}
             /\ call[dl].pc = "post" /\ call[dl].attempt \in Nat /\ heard' = heard
  BY <1>1, WebhookBoundsAssumption DEF Post, TypeOK, Call
<1>2. ASSUME NEW copy \in wire, NEW code \in Codes, ExternalReceives(copy, code)
      PROVE  wire' \subseteq wire /\ heard' \subseteq heard \cup wire
  BY <1>2 DEF ExternalReceives
<1>3. \/ \E dl \in Deliveries : Post(dl)
      \/ \E copy \in wire, code \in Codes : ExternalReceives(copy, code)
      \/ wire' = wire /\ heard' = heard
  BY DEF Next, CreateRequest, ApproveElsewhere, ExpireOldRequests, Tick, PressButton,
         HandlerStep, NotifierStep, ServeHTTP, GetAndCheckDeadline, UpdateStateIf,
         AnswerAndReturn, TransportFails, Crash, hookVars
<1> QED
  BY <1>1, <1>2, <1>3

\* An update is what it is.
LEMMA PressStep ==
    ASSUME TypeOK, [Next]_hookVars, NEW dl \in Deliveries, press[dl[1]] # None
    PROVE  press'[dl[1]] = press[dl[1]]
BY DeliveryType
   DEF Next, CreateRequest, ApproveElsewhere, ExpireOldRequests, Tick, PressButton, TypeOK,
       HandlerStep, NotifierStep, ServeHTTP, GetAndCheckDeadline, UpdateStateIf,
       AnswerAndReturn, Post, TransportFails, ExternalReceives, Crash, hookVars

-----------------------------------------------------------------------------
(* Denials and their reports *)

\* Goroutine dl denied its request: it is about to say so, or it reports or reported it.
Claims(dl) == call[dl].verdict = "denied" \/ Notifies(dl)

\* A claim is true, a request has at most one, and only claims are on the wire or heard.
ClaimInv ==
    /\ \A dl \in Deliveries : Claims(dl) => DeniedBy(press[dl[1]].data, press[dl[1]].from)
    /\ \A d, e \in Deliveries :
          Claims(d) /\ Claims(e) /\ press[d[1]].data = press[e[1]].data => d = e
    /\ \A c \in wire \cup heard : Notifies(c[1])

\* Where a claim comes from, and that a report stays one.
LEMMA ClaimOrigin ==
    ASSUME TypeOK, StageInv, [Next]_hookVars, NEW dl \in Deliveries
    PROVE  /\ Claims(dl)' => (Claims(dl) \/ Denies(dl)) /\ press[dl[1]] # None
           /\ Claims(dl) => press[dl[1]] # None
           /\ Notifies(dl) => Notifies(dl)'
<1> DEFINE c == call[dl]
<1>1. c \in Call /\ Stage(c, press[dl[1]]) /\ call'[dl] \in Call
  BY TypeStep DEF TypeOK, StageInv
<1>2. Notifies(dl) <=> c.attempt # 0
  BY <1>1, WebhookBoundsAssumption DEF Notifies, Call
<1>3. Notifies(dl)' <=> call'[dl].attempt # 0
  BY <1>1, WebhookBoundsAssumption DEF Notifies, Call
<1>4. CallMove(dl)
  BY CallMoves
<1>5. None # "denied"
  BY Bounds DEF Verdict
<1>6. Claims(dl) => c.pc # "none"
  BY <1>1, <1>2, <1>5 DEF Claims, Stage
<1>7. Claims(dl)' => Claims(dl) \/ Denies(dl)
  <2>1. call[dl].pc \in NotifierPC => Claims(dl)
    BY <1>1, <1>2 DEF Stage, Claims
  <2>2. call'[dl] = call[dl] => (Claims(dl)' <=> Claims(dl))
    BY <1>2, <1>3 DEF Claims
  <2> QED
    BY <1>3, <1>4, <1>5, <2>1, <2>2
       DEF CallMove, Quiet, Reads, Refused, Reports, Posts, Claims
<1>8. Denies(dl) => c.pc # "none"
  BY DEF Denies
<1>9. Notifies(dl) => Notifies(dl)'
  BY <1>1, <1>2, <1>3, <1>4
     DEF CallMove, Quiet, Reads, Refused, Denies, Reports, Posts, Stage, HandlerPC
<1> QED
  BY <1>1, <1>6, <1>7, <1>8, <1>9 DEF Stage

\* A denial that was true stays true, and its request accepts no other decision.
LEMMA DeniedStays ==
    ASSUME TypeOK, StageInv, [Next]_hookVars, NEW id \in Requests, NEW user,
           DeniedBy(id, user)
    PROVE  DeniedBy(id, user)' /\ rows[id].status # "pending"
<1>1. rows[id].status \in {"denied", "lost"} /\ rows[id] \in Row
  BY DEF DeniedBy, TypeOK
<1>2. RowStep(id) /\ backend' = backend
  BY RowsStep
<1>3. rows[id].status # "pending"
  BY <1>1
<1>4. CASE rows'[id] = rows[id]
  BY <1>2, <1>3, <1>4 DEF DeniedBy
<1>5. CASE backend = "memory" /\ rows'[id].status = "lost"
  BY <1>2, <1>3, <1>5 DEF DeniedBy
<1> QED
  BY <1>1, <1>2, <1>3, <1>4, <1>5 DEF RowStep

\* A denial is true when it is made.
LEMMA DenialIsTrue ==
    ASSUME TypeOK, StageInv, [Next]_hookVars, NEW dl \in Deliveries, Denies(dl)
    PROVE  DeniedBy(press[dl[1]].data, press[dl[1]].from)'
<1> DEFINE p == press[dl[1]]
<1>1. Complete(p) /\ p # None
  BY DEF Denies, StageInv, Stage
<1>2. p.data \in Requests /\ press'[dl[1]] = p
  BY <1>1, PressStep DEF Complete
<1>3. rows[p.data] \in Row /\ rows'[p.data] = Denied(rows[p.data], p.from)
  BY <1>2 DEF Denies, TypeOK
<1>4. /\ rows'[p.data].status = "denied"
      /\ backend # "memory" => rows'[p.data].by = p.from
  BY <1>3 DEF Denied, Row
<1>5. backend' = backend
  BY RowsStep
<1> HIDE DEF p
<1> QED
  BY <1>2, <1>4, <1>5 DEF DeniedBy, p

\* Every step keeps the claims true and single.
LEMMA ClaimStep ==
    TypeOK /\ StageInv /\ ClaimInv /\ [Next]_hookVars => ClaimInv'
<1> SUFFICES ASSUME TypeOK, StageInv, ClaimInv, [Next]_hookVars PROVE ClaimInv'
  OBVIOUS
<1>1. ASSUME NEW dl \in Deliveries, Claims(dl) \/ Denies(dl)
      PROVE  press[dl[1]].data \in Requests
  BY <1>1, WebhookBoundsAssumption
     DEF Claims, Notifies, Denies, StageInv, Stage, Complete, TypeOK, Call
<1>2. ASSUME NEW dl \in Deliveries, Claims(dl)'
      PROVE  DeniedBy(press[dl[1]].data, press[dl[1]].from)'
  <2>1. Claims(dl) \/ Denies(dl)
    BY <1>2, ClaimOrigin
  <2>2. press'[dl[1]] = press[dl[1]]
    BY <1>2, ClaimOrigin, PressStep
  <2>3. CASE Claims(dl)
    <3>1. DeniedBy(press[dl[1]].data, press[dl[1]].from)
      BY <2>3 DEF ClaimInv
    <3> QED
      BY <1>1, <2>2, <2>3, <3>1, DeniedStays DEF DeniedBy
  <2> QED
    BY <2>1, <2>3, DenialIsTrue
<1>3. ASSUME NEW d \in Deliveries, NEW e \in Deliveries, Claims(d)', Claims(e)',
             press'[d[1]].data = press'[e[1]].data
      PROVE  d = e
  <2>1. (Claims(d) \/ Denies(d)) /\ (Claims(e) \/ Denies(e))
    BY <1>3, ClaimOrigin
  <2>2. press[d[1]].data = press[e[1]].data
    BY <1>3, ClaimOrigin, PressStep
  <2>3. \A f \in Deliveries : Claims(f) => rows[press[f[1]].data].status # "pending"
    BY <1>1, DeniedStays DEF ClaimInv
  <2>4. CASE Claims(d) /\ Claims(e)
    BY <2>2, <2>4 DEF ClaimInv
  <2>5. ~(Claims(d) /\ Denies(e)) /\ ~(Denies(d) /\ Claims(e))
    BY <2>2, <2>3 DEF Denies
  <2>6. CASE Denies(d) /\ Denies(e)
    \* Denies(d) leaves the goroutine of e where it is, if it is another one.
    BY <2>6, Bounds DEF Denies, StageInv, Stage
  <2> QED
    BY <2>1, <2>4, <2>5, <2>6
<1>4. ASSUME NEW c \in (wire \cup heard)'
      PROVE  Notifies(c[1])'
  <2>1. CASE c \in wire \cup heard
    <3>1. c[1] \in Deliveries /\ Notifies(c[1])
      BY <2>1 DEF ClaimInv, TypeOK
    <3> QED
      BY <3>1, ClaimOrigin
  <2>2. CASE c \notin wire \cup heard
    <3>1. c[1] \in Deliveries /\ call[c[1]].pc = "post"
      BY <1>4, <2>2, CopiesStep
    <3>2. Notifies(c[1])
      BY <3>1, WebhookBoundsAssumption DEF StageInv, Stage, NotifierPC, Notifies, TypeOK, Call
    <3> QED
      BY <3>1, <3>2, ClaimOrigin
  <2> QED
    BY <2>1, <2>2
<1> QED
  BY <1>2, <1>3, <1>4 DEF ClaimInv

\* Types, stages and claims hold in every reachable state.
LEMMA ClaimsHold == Spec => [](TypeOK /\ StageInv /\ ClaimInv)
<1>1. Init => ClaimInv
  <2> SUFFICES ASSUME Init PROVE ClaimInv
    OBVIOUS
  <2>1. \A dl \in Deliveries : ~Claims(dl)
    <3>1. NoCall.verdict = None /\ NoCall.attempt = 0
      BY DEF NoCall
    <3>3. None # "denied"
      BY Bounds DEF Verdict
    <3>2. \A dl \in Deliveries : call[dl] = NoCall
      BY DEF Init
    <3> HIDE DEF NoCall
    <3> QED
      BY <3>1, <3>2, <3>3 DEF Claims, Notifies
  <2> QED
    BY <2>1 DEF Init, ClaimInv
<1>2. TypeOK /\ StageInv /\ ClaimInv /\ [Next]_hookVars => ClaimInv'
  BY ClaimStep
<1> QED
  BY <1>1, <1>2, StagesHold, PTL DEF Spec

\* What one goroutine sends is at most maxRetries copies.
LEMMA CopiesOfOne ==
    ASSUME NEW S, NEW dl, S \subseteq {dl} \X (1 .. MaxRetries)
    PROVE  Cardinality(S) <= MaxRetries
<1>1. IsFiniteSet({dl}) /\ Cardinality({dl}) = 1
  BY FS_Singleton
<1>2. IsFiniteSet(1 .. MaxRetries) /\ Cardinality(1 .. MaxRetries) = MaxRetries
  <2>1. MaxRetries \in Nat \ {0} /\ 1 \in Int /\ MaxRetries \in Int
    BY WebhookBoundsAssumption
  <2>2. /\ IsFiniteSet(1 .. MaxRetries)
        /\ Cardinality(1 .. MaxRetries) =
              IF 1 > MaxRetries THEN 0 ELSE MaxRetries - 1 + 1
    BY <2>1, FS_Interval
  <2> QED
    BY <2>1, <2>2
<1>3. /\ IsFiniteSet({dl} \X (1 .. MaxRetries))
      /\ Cardinality({dl} \X (1 .. MaxRetries)) = 1 * MaxRetries
  BY <1>1, <1>2, FS_Product
<1>4. IsFiniteSet(S) /\ Cardinality(S) <= Cardinality({dl} \X (1 .. MaxRetries))
  BY <1>3, FS_Subset
<1> QED
  BY <1>3, <1>4, WebhookBoundsAssumption

\* THEOREM.  However often updates are delivered, pressed again or lost with the process, the
\* denial of a request has at most one reporter, and the external system gets no more than
\* maxRetries copies about it.
THEOREM OneReportPerDenialHolds == Spec => []OneReportPerDenial
<1>1. TypeOK /\ StageInv /\ ClaimInv => OneReportPerDenial
  <2> SUFFICES ASSUME TypeOK, StageInv, ClaimInv, NEW id \in Requests
               PROVE  LET reporters ==
                              {dl \in Deliveries : Notifies(dl) /\ press[dl[1]].data = id}
                      IN /\ Cardinality(reporters) <= 1
                         /\ Cardinality({c \in heard : c[1] \in reporters}) <= MaxRetries
    BY DEF OneReportPerDenial
  <2> DEFINE reporters == {dl \in Deliveries : Notifies(dl) /\ press[dl[1]].data = id}
             copies == {c \in heard : c[1] \in reporters}
  <2>1. \A d, e \in reporters : d = e
    BY DEF ClaimInv, Claims
  <2>2. CASE reporters = {}
    <3>1. copies = {}
      BY <2>2
    <3> QED
      <4>1. Cardinality(reporters) = 0 /\ Cardinality(copies) = 0
        BY <2>2, <3>1, FS_EmptySet
      <4> HIDE DEF reporters, copies
      <4> QED
        BY <4>1, WebhookBoundsAssumption DEF reporters, copies
  <2>3. CASE reporters # {}
    <3>1. PICK dl : reporters = {dl}
      BY <2>1, <2>3
    <3>2. copies \subseteq {dl} \X (1 .. MaxRetries)
      BY <3>1 DEF TypeOK
    <3> HIDE DEF copies, reporters
    <3>3. Cardinality(reporters) = 1 /\ Cardinality(copies) <= MaxRetries
      BY <3>1, <3>2, CopiesOfOne, FS_Singleton
    <3> QED
      BY <3>3 DEF copies, reporters
  <2> QED
    BY <2>2, <2>3
<1> QED
  BY <1>1, ClaimsHold, PTL

\* THEOREM.  What the external system hears is what the table says, however late the copy.
THEOREM ReportsAreTrueHolds == Spec => []ReportsAreTrue
<1>1. TypeOK /\ StageInv /\ ClaimInv => ReportsAreTrue
  <2> SUFFICES ASSUME TypeOK, StageInv, ClaimInv, NEW c \in heard
               PROVE  LET p == press[c[1][1]]
                      IN p.data \in Requests /\ DeniedBy(p.data, p.from)
    BY DEF ReportsAreTrue
  <2>1. c[1] \in Deliveries /\ Notifies(c[1])
    BY DEF TypeOK, ClaimInv
  <2>2. Complete(press[c[1][1]])
    BY <2>1, WebhookBoundsAssumption DEF TypeOK, StageInv, Stage, Notifies, Call
  <2> QED
    BY <2>1, <2>2 DEF ClaimInv, Claims, Complete
<1> QED
  BY <1>1, ClaimsHold, PTL

-----------------------------------------------------------------------------
(* Answers and attempts *)

\* What a goroutine has learnt of the row stays true: it is there, it cannot be decided any
\* more, or its deadline is over.
AnswerInv ==
    \A dl \in Deliveries :
        LET row == rows[press[dl[1]].data] IN
        /\ call[dl].pc = "update" => row.status # "none"
        /\ call[dl].verdict = "already" => /\ row.status # "none"
                                           /\ Processed(row, backend, now)
        /\ call[dl].verdict = "expired" => row.status # "none" /\ now > row.expiresAt

\* Every step keeps what a handler read of a row true.
LEMMA AnswerStep ==
    TypeOK /\ StageInv /\ AnswerInv /\ [Next]_hookVars => AnswerInv'
<1> SUFFICES ASSUME TypeOK, StageInv, AnswerInv, [Next]_hookVars, NEW dl \in Deliveries
             PROVE  LET row == rows'[press'[dl[1]].data] IN
                    /\ call'[dl].pc = "update" => row.status # "none"
                    /\ call'[dl].verdict = "already" =>
                          /\ row.status # "none"
                          /\ Processed(row, backend', now')
                    /\ call'[dl].verdict = "expired" =>
                          row.status # "none" /\ now' > row.expiresAt
  BY DEF AnswerInv
<1> DEFINE id == press[dl[1]].data
<1> DEFINE old == rows[id]
<1> DEFINE new == rows'[id]
<1>1. Stage(call[dl], press[dl[1]]) /\ None # "already" /\ None # "expired"
  BY Bounds DEF StageInv, Verdict
<1>2. CASE call'[dl].pc # "update" /\ call'[dl].verdict \notin {"already", "expired"}
  BY <1>2
<1>3. CASE call'[dl].pc = "update" \/ call'[dl].verdict \in {"already", "expired"}
  <2>1. \/ call'[dl] = call[dl]
        \/ Reads(dl)
        \/ Refused(dl)
    BY <1>1, <1>3, CallMoves DEF CallMove, Quiet, Denies, Reports, Posts
  <2>2. press[dl[1]] # None /\ id \in Requests
    BY <1>1, <1>3, <2>1 DEF Reads, Refused, Stage, Complete
  <2>3. press'[dl[1]] = press[dl[1]]
    BY <2>2, PressStep
  <2>4. /\ old.expiresAt \in Nat /\ now \in Nat /\ now' \in Nat /\ now' >= now
        /\ rows'[id] \in Row /\ backend' = backend
    BY <2>2, RowsStep, TypeStep DEF TypeOK, Row
  <2>5. /\ call'[dl].pc = "update" => old.status # "none"
        /\ call'[dl].verdict = "already" =>
              old.status # "none" /\ Processed(old, backend, now)
        /\ call'[dl].verdict = "expired" => old.status # "none" /\ now > old.expiresAt
    <3>1. CASE call'[dl] = call[dl]
      BY <3>1 DEF AnswerInv
    <3>2. CASE Reads(dl)
      BY <1>1, <3>2 DEF Reads
    <3>3. CASE Refused(dl)
      <4>1. old.status # "none"
        BY <3>3 DEF Refused, AnswerInv
      <4>2. Processed(old, backend, now)
        BY <3>3 DEF Refused
      <4> QED
        BY <3>3, <4>1, <4>2 DEF Refused
    <3> QED
      BY <2>1, <3>1, <3>2, <3>3
  <2>6. old.status # "none" =>
           \/ new = old
           \/ new.status \notin {"none", "pending"} /\ new.expiresAt = old.expiresAt
    BY <2>2, RowsStep DEF RowStep
  <2> HIDE DEF old, new
  <2>7. /\ call'[dl].pc = "update" => new.status # "none"
        /\ call'[dl].verdict = "already" =>
              new.status # "none" /\ Processed(new, backend', now')
        /\ call'[dl].verdict = "expired" => new.status # "none" /\ now' > new.expiresAt
    BY <2>4, <2>5, <2>6, UnitsAssumption DEF Processed
  <2> QED
    BY <2>3, <2>7 DEF new
<1> QED
  BY <1>2, <1>3

\* THEOREM.  An answer is true when it is chosen and however much later it is displayed.
THEOREM AnswersAreTrueHolds == Spec => []AnswersAreTrue
<1>1. Init => AnswerInv
  <2> SUFFICES ASSUME Init, NEW dl \in Deliveries
               PROVE  /\ call[dl].pc # "update"
                      /\ call[dl].verdict \notin {"already", "expired"}
    BY DEF AnswerInv
  <2>1. call[dl].pc = "none" /\ call[dl].verdict = None
    BY DEF Init, NoCall
  <2> QED
    BY <2>1, Bounds DEF Verdict
<1>2. TypeOK /\ StageInv /\ AnswerInv /\ [Next]_hookVars => AnswerInv'
  BY AnswerStep
<1>3. ClaimInv /\ AnswerInv => AnswersAreTrue
  BY DEF ClaimInv, Claims, AnswerInv, AnswersAreTrue, Processed
<1> QED
  BY <1>1, <1>2, <1>3, StagesHold, ClaimsHold, PTL DEF Spec

\* THEOREM.  notifyExternal sends nothing after an answer that ends it, and ends without one
\* only when every attempt is used.
THEOREM RetriesUntilVerdictHolds == Spec => RetriesUntilVerdict
<1> DEFINE Ends(dl) ==
              /\ call[dl].code \in {"2xx", "4xx"} =>
                    /\ call'[dl].code = call[dl].code
                    /\ \A n \in 1 .. MaxRetries : <<dl, n>> \in wire' => <<dl, n>> \in wire
              /\ call[dl].pc \in NotifierPC /\ call'[dl].pc = "done" =>
                    call'[dl].code \in {"2xx", "4xx"} \/ call[dl].attempt = MaxRetries
<1>1. ASSUME TypeOK, StageInv, [Next]_hookVars, NEW dl \in Deliveries
      PROVE  Ends(dl)
  <2>1. call[dl].code \in {"2xx", "4xx"} => call[dl].pc = "done"
    BY <1>1 DEF StageInv, Stage
  <2>2. CallMove(dl)
    BY <1>1, CallMoves
  <2>3. call[dl].pc = "done" => call'[dl] = call[dl]
    BY <2>2 DEF CallMove, Quiet, Reads, Refused, Denies, Reports, Posts, HandlerPC, NotifierPC
  <2>4. ASSUME call[dl].pc # "post", NEW n \in 1 .. MaxRetries, <<dl, n>> \in wire'
        PROVE  <<dl, n>> \in wire
    BY <1>1, <2>4, CopiesStep
  <2>5. call[dl].pc \in NotifierPC /\ call'[dl].pc = "done" =>
           call'[dl].code \in {"2xx", "4xx"} \/ call[dl].attempt = MaxRetries
    BY <2>2 DEF CallMove, Quiet, Reads, Refused, Denies, Reports, Posts, HandlerPC, NotifierPC
  <2> QED
    BY <2>1, <2>3, <2>4, <2>5
<1>2. TypeOK /\ StageInv /\ [Next]_hookVars => [\A dl \in Deliveries : Ends(dl)]_hookVars
  BY <1>1
<1> QED
  BY <1>2, StagesHold, PTL DEF Spec, RetriesUntilVerdict

-----------------------------------------------------------------------------
(* The webhook implements the lifecycle of a request *)

\* The abstract state.
StatusOf == [id \in Requests |-> rows[id].status]

\* Every step is a step of the lifecycle or invisible in it.
LEMMA NextRefines ==
    ASSUME TypeOK, StageInv, [Next]_hookVars
    PROVE  Lifecycle!Next \/ StatusOf' = StatusOf
<1> USE DEF TypeOK
<1>1. ASSUME NEW id \in Requests, CreateRequest(id)
      PROVE  Lifecycle!Next
  <2>1. StatusOf[id] = "none" /\ StatusOf' = [StatusOf EXCEPT ![id] = "pending"]
    BY <1>1 DEF CreateRequest, StatusOf
  <2>2. Lifecycle!Submit(id)
    BY <2>1 DEF Lifecycle!Submit, StatusOf
  <2> QED
    BY <2>2 DEF Lifecycle!Next
<1>2. ASSUME NEW id \in Requests, ApproveElsewhere(id)
      PROVE  Lifecycle!Next
  <2>1. StatusOf[id] = "pending" /\ StatusOf' = [StatusOf EXCEPT ![id] = "approved"]
    BY <1>2 DEF ApproveElsewhere, Accepts, StatusOf, Row
  <2>2. Lifecycle!Decide(id)
    BY <2>1 DEF Lifecycle!Decide, StatusOf
  <2> QED
    BY <2>2 DEF Lifecycle!Next
<1>3. ASSUME NEW dl \in Deliveries, UpdateStateIf(dl)
      PROVE  Lifecycle!Next \/ StatusOf' = StatusOf
  <2>1. PICK id \in Requests : id = press[dl[1]].data
    BY <1>3 DEF UpdateStateIf, StageInv, Stage, Complete
  <2>2. \/ rows' = rows
        \/ /\ rows[id].status = "pending"
           /\ rows' = [rows EXCEPT ![id] = Denied(rows[id], press[dl[1]].from)]
    BY <1>3, <2>1 DEF UpdateStateIf, Accepts
  <2>3. Denied(rows[id], press[dl[1]].from).status = "denied"
    BY <2>1 DEF Denied, Row
  <2>4. CASE rows' = rows
    BY <2>4 DEF StatusOf
  <2>5. CASE rows' # rows
    <3>1. StatusOf[id] = "pending" /\ StatusOf' = [StatusOf EXCEPT ![id] = "denied"]
      BY <2>1, <2>2, <2>3, <2>5 DEF StatusOf
    <3>2. Lifecycle!Decide(id)
      BY <3>1 DEF Lifecycle!Decide, StatusOf
    <3> QED
      BY <2>1, <3>2 DEF Lifecycle!Next
  <2> QED
    BY <2>4, <2>5
<1>4. CASE ExpireOldRequests
  <2>1. PICK S \in SUBSET Requests :
            S = {id \in Requests : rows[id].status = "pending" /\ ~Accepts(rows[id], now)}
    OBVIOUS
  <2>2. \A id \in Requests : rows'[id].status = IF id \in S THEN "expired" ELSE rows[id].status
    BY <1>4, <2>1 DEF ExpireOldRequests, Row
  <2>3. Lifecycle!Expire(S)
    BY <2>1, <2>2 DEF Lifecycle!Expire
  <2> QED
    BY <2>3 DEF Lifecycle!Next
<1>5. CASE Crash
  <2>1. CASE backend = "memory"
    <3>1. \A id \in Requests :
             rows'[id].status = IF rows[id].status = "none" THEN "none" ELSE "lost"
      BY <1>5, <2>1 DEF Crash, Row
    <3>2. Lifecycle!Vanish
      BY <2>1, <3>1 DEF Lifecycle!Vanish
    <3> QED
      BY <3>2 DEF Lifecycle!Next
  <2>2. CASE backend # "memory"
    <3>1. \A id \in Requests : rows'[id] = rows[id]
      BY <1>5, <2>2 DEF Crash
    <3> QED
      BY <3>1 DEF StatusOf
  <2> QED
    BY <2>1, <2>2
<1>6. CASE UNCHANGED rows
  BY <1>6 DEF StatusOf
<1> QED
  BY <1>1, <1>2, <1>3, <1>4, <1>5, <1>6
     DEF Next, HandlerStep, NotifierStep, Tick, PressButton, ServeHTTP, GetAndCheckDeadline,
         AnswerAndReturn, Post, TransportFails, ExternalReceives, hookVars

\* THEOREM.  Duplicate deliveries, late presses, decisions made elsewhere and crashes leave
\* every request a single life, on every store.
THEOREM ImplementsLifecycleHolds == Spec => ImplementsLifecycle
<1>1. Init => Lifecycle!Init
  BY DEF Init, Lifecycle!Init
<1>2. TypeOK /\ StageInv /\ [Next]_hookVars
      => [Lifecycle!Next]_(Lifecycle!lifecycleVars)
  BY NextRefines DEF StatusOf, Lifecycle!lifecycleVars
<1> QED
  BY <1>1, <1>2, StagesHold, PTL DEF Spec, ImplementsLifecycle, Lifecycle!Spec

\* The theorems about the lifecycle, read in the webhook.
Promise == INSTANCE RequestLifecycleProofs
           WITH state <- [id \in Requests |-> rows[id].status],
                runs <- [id \in Requests |-> 0],
                MayVanish <- "memory" \in Backends,
                TellsRuns <- TRUE

\* It is the same lifecycle.
LEMMA SameLifecycle == ImplementsLifecycle => Promise!Spec
<1>1. Lifecycle!Init => Promise!Init
  BY DEF Lifecycle!Init, Promise!Init
<1>2. [Lifecycle!Next]_(Lifecycle!lifecycleVars) => [Promise!Next]_(Promise!lifecycleVars)
  BY DEF Lifecycle!Next, Lifecycle!lifecycleVars, Lifecycle!Submit, Lifecycle!Decide,
         Lifecycle!Run, Lifecycle!Finish, Lifecycle!Expire, Lifecycle!Vanish,
         Promise!Next, Promise!lifecycleVars, Promise!Submit, Promise!Decide,
         Promise!Run, Promise!Finish, Promise!Expire, Promise!Vanish
<1> QED
  BY <1>1, <1>2, PTL DEF ImplementsLifecycle, Lifecycle!Spec, Promise!Spec

\* THEOREM.  However updates are repeated and wherever else a request is decided, its row
\* goes forward in its life only, and is lost only where an in-memory store may be in use.
THEOREM LivesForwardHolds == Spec => Lifecycle!LivesForward
<1>1. Promise!Spec => Promise!LivesForward
  BY Promise!LivesForwardHolds
<1>2. Promise!LivesForward => Lifecycle!LivesForward
  BY DEF Promise!LivesForward, Lifecycle!LivesForward, Promise!After, Lifecycle!After,
         Promise!lifecycleVars, Lifecycle!lifecycleVars
<1> QED
  BY <1>1, <1>2, SameLifecycle, ImplementsLifecycleHolds, PTL
=============================================================================
