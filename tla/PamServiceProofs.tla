---------------------------- MODULE PamServiceProofs ----------------------------
(***************************************************************************)
(* Theorems about the PAM handler, the deny button and the clean-up on      *)
(* every request store, for any number of users, tokens, requests and       *)
(* handlers.                                                                *)
(***************************************************************************)
EXTENDS PamService, TLAPS

-----------------------------------------------------------------------------
(* Types *)

\* What the locals of a busy handler know.
Known(c) == c.pc # "idle" =>
    /\ c.user \in Users
    /\ c.op # "enroll" => c.id \in Requests
    /\ c.op = "enroll" => c.pc = "store"
    /\ c.op # "button" => c.token \in Tokens
    /\ c.op # None

\* Locals of the right shape may replace those of a handler.
LEMMA CallType ==
    ASSUME TypeOK, NEW h \in Handlers, NEW c \in Call, Known(c), Become(h, c)
    PROVE  /\ call' \in [Handlers -> Call]
           /\ \A g \in Handlers : Known(call'[g])
BY DEF TypeOK, Become, Known

\* A goroutine without a call.
LEMMA IdleType == IdleCall \in Call /\ Known(IdleCall)
BY DEF IdleCall, Call, PC, File, NoFile, Known

\* Whoever is authorised is a user.
LEMMA AllowedType ==
    TypeOK => AllowedUsers \subseteq Users /\ AllowedUsers \subseteq static \cup Active
BY PamUsersAssumption DEF TypeOK, AllowedUsers

\* Every store writes rows.
LEMMA SettledType ==
    ASSUME TypeOK, NEW row \in Row, NEW by \in Users \cup {None}, NEW at \in Nat,
           NEW new \in {"approved", "denied", "expired"}
    PROVE  Settled(row, new, by, at) \in Row
BY DEF TypeOK, Settled, MemorySettled, SqlSettled, Row

\* Clock readings are instants.
LEMMA ReadingsType ==
    ASSUME TypeOK, NEW h \in Handlers, NEW at \in Readings(h)
    PROVE  at \in Nat
BY DEF TypeOK, Readings, Call

\* A handler of which only the stage, and the copies it holds, change stays one.
LEMMA StageType ==
    ASSUME TypeOK, NEW h \in Handlers, call[h].pc # "idle", call[h].op # "enroll",
           NEW pc \in PC, NEW f \in File, NEW t \in Nat
    PROVE  /\ [call[h] EXCEPT !.pc = pc] \in Call /\ Known([call[h] EXCEPT !.pc = pc])
           /\ [call[h] EXCEPT !.pc = pc, !.held = f] \in Call
           /\ Known([call[h] EXCEPT !.pc = pc, !.held = f])
           /\ [call[h] EXCEPT !.pc = pc, !.expiresAt = t] \in Call
           /\ Known([call[h] EXCEPT !.pc = pc, !.expiresAt = t])
           /\ [call[h] EXCEPT !.pc = pc, !.checked = t] \in Call
           /\ Known([call[h] EXCEPT !.pc = pc, !.checked = t])
<1>1. call[h] \in Call /\ Known(call[h])
  BY DEF TypeOK, Known
<1> QED
  BY <1>1 DEF Call, Known

\* Every step keeps the shapes.
LEMMA TypeStep == TypeOK /\ [Next]_pamVars => TypeOK'
<1> SUFFICES ASSUME TypeOK, [Next]_pamVars PROVE TypeOK'
  OBVIOUS
<1> DEFINE CallOK == call \in [Handlers -> Call] /\ \A h \in Handlers : Known(call[h])
           Rest == /\ backend \in Backends /\ static \in StaticLists /\ now \in Nat
                   /\ file \in [Users -> File] /\ rows \in [Requests -> Row]
                   /\ enrolled \in [Users -> SUBSET Tokens] /\ granted \in [Requests -> Nat]
<1>a. (TypeOK <=> CallOK /\ Rest) /\ (TypeOK' <=> CallOK' /\ Rest')
  BY DEF TypeOK, Known
<1>b. ASSUME NEW h \in Handlers, Reply(h) PROVE CallOK'
  BY <1>b, CallType, IdleType DEF Reply
<1>c. ASSUME NEW h \in Handlers, call[h].pc # "idle", call[h].op # "enroll",
             NEW pc \in PC, Goto(h, pc)
      PROVE  CallOK'
  <2>1. NoFile("absent") \in File
    BY DEF File, NoFile
  <2> QED
    BY <1>c, <2>1, CallType, StageType DEF Goto
<1>1. ASSUME NEW id \in Requests, NEW u \in Users, HandleCreateRequest(id, u)
      PROVE  TypeOK'
  <2>1. [NoRow EXCEPT !.status = "pending", !.expiresAt = now + RequestTTL] \in Row
    <3>1. NoRow \in Row
      BY DEF NoRow, Row, NoTime
    <3>2. now + RequestTTL \in Nat
      BY PamTimeAssumption DEF TypeOK
    <3> QED
      BY <3>1, <3>2 DEF Row
  <2> QED
    BY <1>1, <1>a, <2>1 DEF HandleCreateRequest
<1>2. ASSUME NEW h \in Handlers, NEW u \in Users, NEW t \in Tokens, HandleEnroll(h, u, t)
      PROVE  TypeOK'
  <2> DEFINE c == [IdleCall EXCEPT !.pc = "store", !.op = "enroll", !.user = u,
                                   !.token = t, !.held = NewToken(t)]
  <2>1. c \in Call /\ Known(c)
    BY PamNoneAssumption DEF IdleCall, Call, PC, Ops, File, NewToken, Known, TypeOK, NoFile
  <2> HIDE DEF c
  <2>2. Become(h, c)
    BY <1>2 DEF HandleEnroll, c
  <2> QED
    BY <1>2, <1>a, <2>1, <2>2, CallType DEF HandleEnroll
<1>3. ASSUME NEW h \in Handlers, NEW op \in {"approve", "deny"}, NEW u \in Users,
             NEW t \in Tokens, NEW id \in Requests, HandleApproveOrDeny(h, op, u, t, id)
      PROVE  TypeOK'
  <2> DEFINE c == [IdleCall EXCEPT !.pc = "retrieve", !.op = op, !.user = u,
                                   !.token = t, !.id = id]
  <2>1. c \in Call /\ Known(c)
    BY PamNoneAssumption DEF IdleCall, Call, PC, Ops, File, Known, NoFile
  <2> HIDE DEF c
  <2>2. Become(h, c)
    BY <1>3 DEF HandleApproveOrDeny, c
  <2> QED
    BY <1>3, <1>a, <2>1, <2>2, CallType DEF HandleApproveOrDeny
<1>4. ASSUME NEW h \in Handlers, NEW u \in Users, NEW id \in Requests, WebhookDeny(h, u, id)
      PROVE  TypeOK'
  <2> DEFINE c == [IdleCall EXCEPT !.pc = "get", !.op = "button", !.user = u, !.id = id]
  <2>1. c \in Call /\ Known(c)
    BY PamNoneAssumption DEF IdleCall, Call, PC, Ops, File, Known, NoFile
  <2> HIDE DEF c
  <2>2. Become(h, c)
    BY <1>4 DEF WebhookDeny, c
  <2> QED
    BY <1>4, <1>a, <2>1, <2>2, CallType DEF WebhookDeny
<1>5. ASSUME NEW h \in Handlers, RetrieveToken(h)
      PROVE  TypeOK'
  <2> DEFINE c == [call[h] EXCEPT !.pc = "match", !.held = file[call[h].user]]
  <2>1. call[h].pc = "retrieve" /\ call[h].op # "enroll" /\ call[h].user \in Users
    BY <1>5 DEF RetrieveToken, TypeOK
  <2>2. c \in Call /\ Known(c)
    BY <2>1, StageType DEF TypeOK, PC
  <2> HIDE DEF c
  <2>3. Reply(h) \/ Goto(h, "recheck") \/ Become(h, c)
    BY <1>5 DEF RetrieveToken, c
  <2>4. CallOK'
    BY <1>b, <1>c, <2>1, <2>2, <2>3, CallType DEF PC
  <2> QED
    BY <1>5, <1>a, <2>4 DEF RetrieveToken
<1>6. ASSUME NEW h \in Handlers, RecheckToken(h)
      PROVE  TypeOK'
  <2> DEFINE c == [call[h] EXCEPT !.pc = "match", !.held = file[call[h].user]]
  <2>1. call[h].pc = "recheck" /\ call[h].op # "enroll" /\ call[h].user \in Users
    BY <1>6 DEF RecheckToken, TypeOK
  <2>2. c \in Call /\ Known(c)
    BY <2>1, StageType DEF TypeOK, PC
  <2> HIDE DEF c
  <2>3. Reply(h) \/ Become(h, c)
    BY <1>6 DEF RecheckToken, c
  <2>4. CallOK'
    BY <1>b, <2>2, <2>3, CallType
  <2>5. file' \in [Users -> File]
    BY <1>6 DEF RecheckToken, TypeOK, File, NoFile
  <2> QED
    BY <1>6, <1>a, <2>4, <2>5 DEF RecheckToken
<1>7. ASSUME NEW h \in Handlers, MatchToken(h)
      PROVE  TypeOK'
  <2> DEFINE c == [call[h] EXCEPT !.pc = "store", !.held = NewToken(call[h].held.value)]
  <2>1. call[h].pc = "match" /\ call[h].op # "enroll" /\ call[h].held \in File
    BY <1>7 DEF MatchToken, TypeOK, Call
  <2>2. NewToken(call[h].held.value) \in File
    BY <2>1 DEF NewToken, File, TypeOK
  <2>3. c \in Call /\ Known(c)
    BY <2>1, <2>2, StageType DEF PC
  <2> HIDE DEF c
  <2>4. Reply(h) \/ Become(h, c)
    BY <1>7 DEF MatchToken, c
  <2>5. CallOK'
    BY <1>b, <2>3, <2>4, CallType
  <2> QED
    BY <1>7, <1>a, <2>5 DEF MatchToken
<1>8. ASSUME NEW h \in Handlers, StoreToken(h)
      PROVE  TypeOK'
  <2>1. call[h].pc = "store" /\ call[h] \in Call /\ call[h].user \in Users
    BY <1>8 DEF StoreToken, TypeOK
  <2>2. Reply(h) \/ (call[h].op # "enroll" /\ Goto(h, "get"))
    BY <1>8 DEF StoreToken
  <2>3. CallOK'
    BY <1>b, <1>c, <2>1, <2>2 DEF PC
  <2>4. NoFile("torn") \in File /\ call[h].held \in File
    BY <2>1 DEF File, NoFile, Call
  <2>5. file' \in [Users -> File]
    BY <1>8, <2>4 DEF StoreToken, TypeOK
  <2>6. enrolled' \in [Users -> SUBSET Tokens]
    BY <1>8, <2>1 DEF StoreToken, TypeOK
  <2> QED
    BY <1>8, <1>a, <2>3, <2>5, <2>6 DEF StoreToken
<1>9. ASSUME NEW h \in Handlers, GetRequest(h)
      PROVE  TypeOK'
  <2> DEFINE c == [call[h] EXCEPT !.pc = "check", !.expiresAt = rows[call[h].id].expiresAt]
  <2>1. call[h].pc = "get" /\ call[h].op # "enroll" /\ call[h].id \in Requests
    BY <1>9 DEF GetRequest, TypeOK
  <2>2. rows[call[h].id].expiresAt \in Nat
    BY <2>1 DEF TypeOK, Row
  <2>3. c \in Call /\ Known(c)
    <3>1. NoFile("absent") \in File
      BY DEF File, NoFile
    <3> QED
      BY <2>1, <2>2, <3>1, StageType DEF PC
  <2> HIDE DEF c
  <2>4. Reply(h) \/ Become(h, c)
    BY <1>9 DEF GetRequest, c
  <2>5. CallOK'
    BY <1>b, <2>3, <2>4, CallType
  <2> QED
    BY <1>9, <1>a, <2>5 DEF GetRequest
<1>10. ASSUME NEW h \in Handlers, CheckDeadline(h)
       PROVE  TypeOK'
  <2>1. call[h].pc = "check" /\ call[h].op # "enroll"
    BY <1>10 DEF CheckDeadline, TypeOK
  <2> DEFINE c == [call[h] EXCEPT !.pc = "decide", !.checked = now]
  <2>c. c \in Call /\ Known(c)
    <3>1. NoFile("absent") \in File /\ now \in Nat
      BY DEF File, NoFile, TypeOK
    <3> QED
      BY <2>1, <3>1, StageType DEF PC
  <2> HIDE DEF c
  <2>2. Reply(h) \/ Become(h, c) \/ Goto(h, "expire")
    BY <1>10 DEF CheckDeadline, c
  <2>3. CallOK'
    BY <1>b, <1>c, <2>c, <2>1, <2>2, CallType DEF PC
  <2> QED
    BY <1>10, <1>a, <2>3 DEF CheckDeadline
<1>11. ASSUME NEW h \in Handlers, MarkExpired(h)
       PROVE  TypeOK'
  <2>1. call[h].id \in Requests
    BY <1>11 DEF MarkExpired, TypeOK
  <2>2. Settled(rows[call[h].id], "expired", None, now) \in Row
    BY <2>1, SettledType DEF TypeOK
  <2>3. rows' \in [Requests -> Row]
    BY <1>11, <2>2 DEF MarkExpired, TypeOK
  <2>4. CallOK'
    BY <1>11, <1>b DEF MarkExpired
  <2> QED
    BY <1>11, <1>a, <2>3, <2>4 DEF MarkExpired
<1>12. ASSUME NEW h \in Handlers, Decide(h)
       PROVE  TypeOK'
  <2>1. call[h].id \in Requests /\ call[h].user \in Users
    BY <1>12 DEF Decide, TypeOK
  <2>2. \A at \in Readings(h) :
            Settled(rows[call[h].id], Target(call[h].op), call[h].user, at) \in Row
    BY <2>1, SettledType, ReadingsType DEF TypeOK, Target
  <2>3. rows' \in [Requests -> Row] /\ granted' \in [Requests -> Nat]
    BY <1>12, <2>1, <2>2 DEF Decide, TypeOK
  <2>4. CallOK'
    BY <1>12, <1>b DEF Decide
  <2> QED
    BY <1>12, <1>a, <2>3, <2>4 DEF Decide
<1>13. CASE ExpireOldRequests
  <2>1. \A id \in Requests : Settled(rows[id], "expired", None, now) \in Row
    BY SettledType DEF TypeOK
  <2>2. rows' \in [Requests -> Row]
    BY <1>13, <2>1 DEF ExpireOldRequests, TypeOK
  <2> QED
    BY <1>13, <1>a, <2>2 DEF ExpireOldRequests
<1>14. CASE Tick
  BY <1>14, <1>a DEF Tick
<1>15. CASE UNCHANGED pamVars
  BY <1>15, <1>a DEF pamVars
<1> QED
  BY <1>1, <1>2, <1>3, <1>4, <1>5, <1>6, <1>7, <1>8, <1>9, <1>10, <1>11, <1>12, <1>13,
     <1>14, <1>15 DEF Next, HandlerStep

\* The variables have their shape, for any number of users, tokens, requests and handlers.
THEOREM TypeCorrect == Spec => []TypeOK
<1>1. Init => TypeOK
  BY IdleType DEF Init, TypeOK, NoFile, File, NoRow, Row, NoTime, Known, IdleCall
<1> QED
  BY <1>1, TypeStep, PTL DEF Spec

-----------------------------------------------------------------------------
(* What happens to a request *)

\* A request that nobody created yet is created.
Created(id) == /\ rows[id].status = "none"
               /\ rows'[id].status = "pending"
               /\ granted'[id] = granted[id]

\* A pending one is expired, by a late call or by the clean-up.
Expired(id) == /\ rows[id].status = "pending"
               /\ rows'[id].status = "expired"
               /\ granted'[id] = granted[id]

\* The time of an approval in an SQL store, a second more or less on SQLite.
InSqlTime(row) == /\ backend = "postgres" => row.approvedAt < row.expiresAt
                  /\ backend = "sqlite" => row.approvedAt < row.expiresAt + Second

\* A pending one is decided in time by the user of the call, who may be told so.
DecidedBy(id, h) ==
    /\ call[h].pc = "decide" /\ call[h].id = id
    /\ rows[id].status = "pending"
    /\ rows'[id].status = Target(call[h].op)
    /\ rows'[id].expiresAt = rows[id].expiresAt
    /\ rows'[id].status = "approved" => /\ rows'[id].approvedBy = call[h].user
                                        /\ InSqlTime(rows'[id])
    /\ granted'[id] \in {granted[id], granted[id] + 1}

Untouched(id) == rows'[id] = rows[id] /\ granted'[id] = granted[id]

\* What sorts after the text of b is later than b by less than a second, if it is earlier.
LEMMA TextErrs ==
    ASSUME NEW a \in Int, NEW b \in Int, TextAfter(a, b)
    PROVE  b < a + Second
<1>0. Second \in Nat /\ \A unit \in Units : unit \in Int /\ unit <= Second
  BY UnitsAssumption
<1>1. CASE Extends(b, a)
  <2>1. PICK unit \in Units : b < a + unit
    BY <1>1 DEF Extends
  <2> QED
    BY <1>0, <2>1
<1>2. CASE a > b
  BY <1>0, <1>2
<1> QED
  BY <1>1, <1>2 DEF TextAfter

\* UpdateStateIf of every store decides a pending request only, an SQL store in its time.
LEMMA UpdateDecides ==
    ASSUME TypeOK, NEW row \in Row, NEW by, NEW at \in Nat,
           NEW new \in {"approved", "denied"}, Accepts(row, new, at)
    PROVE  /\ row.status = "pending"
           /\ Settled(row, new, by, at).status = new
           /\ Settled(row, new, by, at).expiresAt = row.expiresAt
           /\ new = "approved" => /\ Settled(row, new, by, at).approvedBy = by
                                  /\ InSqlTime(Settled(row, new, by, at))
<1> DEFINE set == Settled(row, new, by, at)
<1>1. /\ row.status = "pending"
      /\ set.status = new
      /\ set.expiresAt = row.expiresAt
      /\ new = "approved" => set.approvedBy = by
      /\ new = "approved" /\ backend # "memory" => set.approvedAt = at
  BY DEF Row, Accepts, MemoryAccepts, SqlAccepts, Settled, MemorySettled, SqlSettled
<1>2. backend = "postgres" => at < row.expiresAt
  BY DEF Accepts, SqlAccepts, InTime
<1>3. backend = "sqlite" => at < row.expiresAt + Second
  <2>1. backend = "sqlite" => TextAfter(row.expiresAt, at)
    BY DEF Accepts, SqlAccepts, InTime
  <2> QED
    BY <2>1, TextErrs DEF Row
<1> HIDE DEF set
<1>4. new = "approved" => InSqlTime(set)
  BY <1>1, <1>2, <1>3 DEF InSqlTime
<1> QED
  BY <1>1, <1>4 DEF set

\* UpdateStateIf and ExpireOldRequests of every store expire a pending request only.
LEMMA ExpiryExpires ==
    ASSUME NEW row \in Row, NEW at, Accepts(row, "expired", at) \/ PastDeadline(row)
    PROVE  row.status = "pending" /\ Settled(row, "expired", None, at).status = "expired"
BY DEF Row, Accepts, MemoryAccepts, SqlAccepts, PastDeadline, MemoryPastDeadline,
   SqlPastDeadline, Settled, MemorySettled, SqlSettled

\* Whatever handlers, the button and the clean-up do, this is all that happens to a request.
LEMMA RequestStep ==
    ASSUME TypeOK, [Next]_pamVars, NEW id \in Requests
    PROVE  \/ Untouched(id) \/ Created(id) \/ Expired(id)
           \/ \E h \in Handlers : DecidedBy(id, h)
<1> USE DEF TypeOK
<1>1. ASSUME NEW new \in Requests, NEW u \in Users, HandleCreateRequest(new, u)
      PROVE  Untouched(id) \/ Created(id)
  BY <1>1 DEF HandleCreateRequest, Untouched, Created, NoRow
<1>2. ASSUME NEW h \in Handlers, MarkExpired(h)
      PROVE  Untouched(id) \/ Expired(id)
  BY <1>2, ExpiryExpires DEF MarkExpired, Untouched, Expired
<1>3. ASSUME NEW h \in Handlers, Decide(h)
      PROVE  Untouched(id) \/ DecidedBy(id, h)
  <2>1. CASE UNCHANGED <<rows, granted>>
    BY <2>1 DEF Untouched
  <2>2. ASSUME NEW at \in Readings(h),
               Accepts(rows[call[h].id], Target(call[h].op), at),
               rows' = [rows EXCEPT ![call[h].id] =
                            Settled(@, Target(call[h].op), call[h].user, at)],
               \/ granted' = [granted EXCEPT ![call[h].id] = @ + 1]
               \/ UNCHANGED granted
        PROVE  Untouched(id) \/ DecidedBy(id, h)
    <3>1. CASE id # call[h].id
      BY <2>2, <3>1 DEF Untouched
    <3>2. CASE id = call[h].id
      <4>1. rows[id] \in Row /\ Target(call[h].op) \in {"approved", "denied"}
        BY DEF Target
      <4>2. rows'[id] = Settled(rows[id], Target(call[h].op), call[h].user, at)
        BY <2>2, <3>2
      <4>3. granted'[id] \in {granted[id], granted[id] + 1}
        BY <2>2, <3>2
      <4>4. call[h].pc = "decide" /\ at \in Nat
        BY <1>3, <2>2, ReadingsType DEF Decide
      <4>5. /\ rows[id].status = "pending"
            /\ rows'[id].status = Target(call[h].op)
            /\ rows'[id].expiresAt = rows[id].expiresAt
            /\ Target(call[h].op) = "approved" => /\ rows'[id].approvedBy = call[h].user
                                                  /\ InSqlTime(rows'[id])
        BY <2>2, <3>2, <4>1, <4>2, <4>4, UpdateDecides
      <4> QED
        BY <3>2, <4>3, <4>4, <4>5 DEF DecidedBy
    <3> QED
      BY <3>1, <3>2
  <2> QED
    BY <1>3, <2>1, <2>2 DEF Decide
<1>4. CASE ExpireOldRequests
  BY <1>4, ExpiryExpires DEF ExpireOldRequests, Untouched, Expired
<1>5. CASE UNCHANGED <<rows, granted>>
  BY <1>5 DEF Untouched
<1> QED
  BY <1>1, <1>2, <1>3, <1>4, <1>5
     DEF Next, HandlerStep, HandleEnroll, HandleApproveOrDeny, WebhookDeny, RetrieveToken,
         RecheckToken, MatchToken, StoreToken, GetRequest, CheckDeadline, Tick, pamVars

\* The store is chosen at the start.
LEMMA BackendFixed == [Next]_pamVars => backend' = backend
BY DEF Next, HandlerStep, HandleCreateRequest, HandleEnroll, HandleApproveOrDeny, WebhookDeny,
       RetrieveToken, RecheckToken, MatchToken, StoreToken, GetRequest, CheckDeadline,
       MarkExpired, Decide, ExpireOldRequests, Tick, pamVars

\* At most one answer "success" per request and the decision it speaks of in the store,
\* although no handler looks at the status and a decision may be committed without an answer.
THEOREM DecidedOnceHolds == Spec => []DecidedOnce
<1> DEFINE Once == \A id \in Requests :
               granted[id] = 0 \/ (granted[id] = 1 /\ rows[id].status \in {"approved", "denied"})
<1>1. Init => Once
  BY DEF Init
<1>2. TypeOK /\ Once /\ [Next]_pamVars => Once'
  <2> SUFFICES ASSUME TypeOK, Once, [Next]_pamVars, NEW id \in Requests
               PROVE  \/ granted'[id] = 0
                      \/ granted'[id] = 1 /\ rows'[id].status \in {"approved", "denied"}
    OBVIOUS
  <2>1. \/ granted[id] = 0
        \/ granted[id] = 1 /\ rows[id].status \in {"approved", "denied"}
    OBVIOUS
  <2> HIDE DEF Once
  <2>2. CASE Untouched(id)
    BY <2>1, <2>2 DEF Untouched
  <2>3. CASE Created(id) \/ Expired(id)
    BY <2>1, <2>3 DEF Created, Expired
  <2>4. CASE \E h \in Handlers : DecidedBy(id, h)
    BY <2>1, <2>4 DEF DecidedBy, Target
  <2> QED
    BY <2>2, <2>3, <2>4, RequestStep
<1>3. Once => DecidedOnce
  BY DEF DecidedOnce
<1> HIDE DEF Once
<1> QED
  BY <1>1, <1>2, <1>3, TypeCorrect, PTL DEF Spec

\* Postgres records no approval from its deadline on and SQLite none a second after it,
\* whatever time passes between the handler's check, its clock reading and the statement.
THEOREM ApprovedBeforeDeadlineHolds == Spec => []ApprovedBeforeDeadline
<1>1. Init => ApprovedBeforeDeadline
  BY DEF Init, ApprovedBeforeDeadline, NoRow
<1>2. TypeOK /\ ApprovedBeforeDeadline /\ [Next]_pamVars => ApprovedBeforeDeadline'
  <2> SUFFICES ASSUME TypeOK, ApprovedBeforeDeadline, [Next]_pamVars, NEW id \in Requests,
                      rows'[id].status = "approved"
               PROVE  /\ backend' = "postgres" => rows'[id].approvedAt < rows'[id].expiresAt
                      /\ backend' = "sqlite" =>
                             rows'[id].approvedAt < rows'[id].expiresAt + Second
    BY DEF ApprovedBeforeDeadline
  <2>0. backend' = backend
    BY BackendFixed
  <2>1. CASE Untouched(id)
    BY <2>0, <2>1 DEF Untouched, ApprovedBeforeDeadline
  <2>2. CASE \E h \in Handlers : DecidedBy(id, h)
    BY <2>0, <2>2 DEF DecidedBy, InSqlTime
  <2> QED
    BY <2>1, <2>2, RequestStep DEF Created, Expired
<1> QED
  BY <1>1, <1>2, TypeCorrect, PTL DEF Spec

\* No store ever changes a request again that is approved, denied or expired.
THEOREM DecisionsAreFinalHolds == Spec => DecisionsAreFinal
<1>1. TypeOK /\ [Next]_pamVars =>
        [\A id \in Requests : rows[id].status \in {"approved", "denied", "expired"} =>
            rows'[id] = rows[id]]_pamVars
  <2> SUFFICES ASSUME TypeOK, [Next]_pamVars, NEW id \in Requests,
                      rows[id].status \in {"approved", "denied", "expired"}
               PROVE  rows'[id] = rows[id]
    OBVIOUS
  <2> QED
    BY RequestStep DEF Untouched, Created, Expired, DecidedBy
<1> QED
  BY <1>1, TypeCorrect, PTL DEF Spec, DecisionsAreFinal

-----------------------------------------------------------------------------
(* Who decides *)

\* What a call has shown for itself at each stage, given the tokens that were enrolled.
Entitled(c, tokens) ==
    /\ c.op = "enroll" => c.held.kind = "token" /\ c.held.value = c.token
    /\ c.op \in {"approve", "deny"} =>
          /\ c.pc \in {"match", "store"} => /\ c.held.kind = "token"
                                            /\ c.held.value \in tokens[c.user]
          /\ c.pc = "store" => c.held.value = c.token
          /\ c.pc \in {"get", "check", "expire", "decide"} => c.token \in tokens[c.user]
    /\ c.op = "button" => c.pc \in {"get", "check", "decide"}

\* A file holds a token its user enrolled, every call is entitled to its stage, and only
\* authorised users get past authorisation.
EnrolInv ==
    /\ \A u \in Users : file[u].kind = "token" => file[u].value \in enrolled[u]
    /\ \A h \in Handlers :
          /\ Entitled(call[h], enrolled)
          /\ call[h].op \in {"enroll", "approve", "deny"} => call[h].user \in static \cup Active

\* The locals of handler h change to c, which is entitled; no file and no enrolment do.
LEMMA EntitledStep ==
    ASSUME TypeOK, EnrolInv, NEW h \in Handlers, NEW c, Become(h, c),
           Entitled(c, enrolled),
           c.op \in {"enroll", "approve", "deny"} => c.user \in static \cup Active,
           UNCHANGED <<static, file, enrolled>>
    PROVE  EnrolInv'
BY DEF TypeOK, EnrolInv, Become

\* A goroutine without a call is entitled to its stage.
LEMMA IdleEntitled == Entitled(IdleCall, enrolled) /\ IdleCall.op = None
BY PamNoneAssumption DEF Entitled, IdleCall, Ops

\* No step admits a token that nobody enrolled.
LEMMA EnrolStep == TypeOK /\ EnrolInv /\ [Next]_pamVars => EnrolInv'
<1> SUFFICES ASSUME TypeOK, EnrolInv, [Next]_pamVars PROVE EnrolInv'
  OBVIOUS
<1>0. None \notin Ops
  BY PamNoneAssumption
<1>a. ASSUME NEW h \in Handlers, Reply(h), UNCHANGED <<static, file, enrolled>>
      PROVE  EnrolInv'
  BY <1>0, <1>a, EntitledStep, IdleEntitled DEF Reply, Ops
<1>b. ASSUME NEW h \in Handlers, NEW u, NEW t, HandleEnroll(h, u, t)
      PROVE  EnrolInv'
  <2> DEFINE c == [IdleCall EXCEPT !.pc = "store", !.op = "enroll", !.user = u,
                                   !.token = t, !.held = NewToken(t)]
  <2>1. /\ Entitled(c, enrolled) /\ c.user = u
    BY DEF Entitled, IdleCall, NewToken
  <2> HIDE DEF c
  <2>2. Become(h, c) /\ u \in static \cup Active
    BY <1>b, AllowedType DEF HandleEnroll, c
  <2> QED
    BY <1>b, <2>1, <2>2, EntitledStep DEF HandleEnroll
<1>c. ASSUME NEW h \in Handlers, NEW op \in {"approve", "deny"}, NEW u, NEW t, NEW id,
             HandleApproveOrDeny(h, op, u, t, id)
      PROVE  EnrolInv'
  <2> DEFINE c == [IdleCall EXCEPT !.pc = "retrieve", !.op = op, !.user = u,
                                   !.token = t, !.id = id]
  <2>1. /\ Entitled(c, enrolled) /\ c.user = u
    BY DEF Entitled, IdleCall
  <2> HIDE DEF c
  <2>2. Become(h, c) /\ u \in static \cup Active
    BY <1>c, AllowedType DEF HandleApproveOrDeny, c
  <2> QED
    BY <1>c, <2>1, <2>2, EntitledStep DEF HandleApproveOrDeny
<1>d. ASSUME NEW h \in Handlers, NEW u, NEW id, WebhookDeny(h, u, id)
      PROVE  EnrolInv'
  <2> DEFINE c == [IdleCall EXCEPT !.pc = "get", !.op = "button", !.user = u, !.id = id]
  <2>1. Entitled(c, enrolled) /\ c.op = "button"
    BY DEF Entitled, IdleCall
  <2> HIDE DEF c
  <2>2. Become(h, c)
    BY <1>d DEF WebhookDeny, c
  <2> QED
    BY <1>d, <2>1, <2>2, EntitledStep DEF WebhookDeny
<1>e. ASSUME NEW h \in Handlers, call[h].pc \in {"retrieve", "recheck"},
             file[call[h].user].kind = "token",
             Become(h, [call[h] EXCEPT !.pc = "match", !.held = file[call[h].user]]),
             UNCHANGED <<static, file, enrolled>>
      PROVE  EnrolInv'
  <2> DEFINE c == [call[h] EXCEPT !.pc = "match", !.held = file[call[h].user]]
  <2>1. call[h].user \in Users /\ call[h].op \in {"approve", "deny"} /\ call[h] \in Call
    BY <1>e DEF EnrolInv, Entitled, TypeOK, Call, Ops
  <2>2. /\ Entitled(c, enrolled)
        /\ c.op = call[h].op /\ c.user = call[h].user
    BY <1>e, <2>1 DEF Entitled, EnrolInv, Call
  <2> HIDE DEF c
  <2>3. Become(h, c)
    BY <1>e DEF c
  <2> QED
    BY <1>e, <2>2, <2>3, EntitledStep DEF EnrolInv
<1>1. ASSUME NEW h \in Handlers, RetrieveToken(h)
      PROVE  EnrolInv'
  <2>1. CASE Goto(h, "recheck")
    <3>1. /\ Entitled([call[h] EXCEPT !.pc = "recheck"], enrolled)
          /\ [call[h] EXCEPT !.pc = "recheck"].op = call[h].op
          /\ [call[h] EXCEPT !.pc = "recheck"].user = call[h].user
      BY <1>1 DEF RetrieveToken, Entitled, EnrolInv, TypeOK, Call
    <3> QED
      BY <1>1, <2>1, <3>1, EntitledStep DEF RetrieveToken, Goto, EnrolInv
  <2> QED
    BY <1>1, <1>a, <1>e, <2>1 DEF RetrieveToken
<1>2. ASSUME NEW h \in Handlers, RecheckToken(h)
      PROVE  EnrolInv'
  <2>1. CASE UNCHANGED file
    BY <1>2, <1>a, <1>e, <2>1 DEF RecheckToken
  <2>2. CASE file' = [file EXCEPT ![call[h].user] = NoFile("absent")] /\ Reply(h)
    <3>1. \A g \in Handlers : call'[g] = call[g] \/ (g = h /\ call'[g] = IdleCall)
      BY <2>2 DEF Reply, Become, TypeOK
    <3>2. \A u \in Users : file'[u] = file[u] \/ file'[u].kind = "absent"
      BY <2>2 DEF NoFile, TypeOK
    <3> QED
      BY <1>0, <1>2, <3>1, <3>2, IdleEntitled DEF RecheckToken, EnrolInv, Ops
  <2> QED
    BY <1>2, <2>1, <2>2 DEF RecheckToken
<1>3. ASSUME NEW h \in Handlers, MatchToken(h)
      PROVE  EnrolInv'
  <2> DEFINE c == [call[h] EXCEPT !.pc = "store", !.held = NewToken(call[h].held.value)]
  <2>1. call[h].op \in {"approve", "deny"} /\ call[h] \in Call
    BY <1>3 DEF MatchToken, EnrolInv, Entitled, TypeOK, Call, Ops
  <2>2. CASE call[h].held.value = call[h].token /\ Become(h, c)
    <3>1. /\ Entitled(c, enrolled)
          /\ c.op = call[h].op /\ c.user = call[h].user
      BY <1>3, <2>1, <2>2 DEF MatchToken, Entitled, EnrolInv, Call, NewToken
    <3> HIDE DEF c
    <3> QED
      BY <1>3, <2>2, <3>1, EntitledStep DEF MatchToken, EnrolInv
  <2>3. CASE Reply(h)
    BY <1>3, <1>a, <2>3 DEF MatchToken
  <2> QED
    BY <1>3, <2>2, <2>3 DEF MatchToken
<1>4. ASSUME NEW h \in Handlers, StoreToken(h)
      PROVE  EnrolInv'
  <2> DEFINE u == call[h].user
  <2>1. u \in Users /\ call[h] \in Call /\ call[h].op \in {"enroll", "approve", "deny"}
    BY <1>4 DEF StoreToken, TypeOK, EnrolInv, Entitled, Call, Ops
  <2>2. \A w \in Users : enrolled[w] \subseteq enrolled'[w]
    BY <1>4, <2>1 DEF StoreToken, TypeOK
  <2>3. \A g \in Handlers : g # h => call'[g] = call[g]
    BY <1>4 DEF StoreToken, Reply, Goto, Become, TypeOK
  <2>4. \A g \in Handlers : g # h => Entitled(call'[g], enrolled')
    <3>1. \A g \in Handlers : call[g].pc # "idle" => call[g].user \in Users
      BY DEF TypeOK
    <3> QED
      BY <2>2, <2>3, <3>1 DEF EnrolInv, Entitled
  <2>5. /\ \/ call'[h] = IdleCall
           \/ call[h].op # "enroll" /\ call'[h] = [call[h] EXCEPT !.pc = "get"]
        /\ static' = static
    BY <1>4 DEF StoreToken, Reply, Goto, Become, TypeOK
  <2>6. /\ Entitled(call'[h], enrolled')
        /\ call'[h].op \in {"enroll", "approve", "deny"} => call'[h].user \in static' \cup Active
    <3>1. CASE call'[h] = IdleCall
      BY <1>0, <3>1 DEF IdleCall, Entitled, Ops
    <3>2. CASE call[h].op # "enroll" /\ call'[h] = [call[h] EXCEPT !.pc = "get"]
      BY <1>4, <2>1, <2>2, <2>5, <3>2 DEF StoreToken, Entitled, EnrolInv, Call
    <3> QED
      BY <2>5, <3>1, <3>2
  <2>7. \A w \in Users : file'[w].kind = "token" => file'[w].value \in enrolled'[w]
    <3>1. CASE /\ file' = [file EXCEPT ![u] = call[h].held]
               /\ IF call[h].op = "enroll"
                  THEN enrolled' = [enrolled EXCEPT ![u] = @ \cup {call[h].token}]
                  ELSE UNCHANGED enrolled
      <4>1. CASE call[h].op = "enroll"
        <5>1. call[h].held.value = call[h].token
          BY <4>1 DEF EnrolInv, Entitled
        <5> QED
          BY <2>1, <2>2, <3>1, <4>1, <5>1 DEF EnrolInv, TypeOK
      <4>2. CASE call[h].op # "enroll"
        <5>1. call[h].held.value \in enrolled[u]
          BY <1>4, <2>1, <4>2 DEF StoreToken, EnrolInv, Entitled
        <5> QED
          BY <2>1, <2>2, <3>1, <4>2, <5>1 DEF EnrolInv, TypeOK
      <4> QED
        BY <4>1, <4>2
    <3>2. CASE file' = file \/ file' = [file EXCEPT ![u] = NoFile("torn")]
      BY <2>1, <2>2, <3>2 DEF EnrolInv, NoFile, TypeOK
    <3> QED
      BY <1>4, <3>1, <3>2 DEF StoreToken
  <2> QED
    BY <2>3, <2>4, <2>5, <2>6, <2>7 DEF EnrolInv
<1>5. ASSUME NEW h \in Handlers, GetRequest(h)
      PROVE  EnrolInv'
  <2> DEFINE c == [call[h] EXCEPT !.pc = "check", !.expiresAt = rows[call[h].id].expiresAt]
  <2>1. CASE Become(h, c)
    <3>1. /\ Entitled(c, enrolled)
          /\ c.op = call[h].op /\ c.user = call[h].user
      BY <1>5 DEF GetRequest, Entitled, EnrolInv, TypeOK, Call
    <3> HIDE DEF c
    <3> QED
      BY <1>5, <2>1, <3>1, EntitledStep DEF GetRequest, EnrolInv
  <2> QED
    BY <1>5, <1>a, <2>1 DEF GetRequest
<1>6. ASSUME NEW h \in Handlers, CheckDeadline(h)
      PROVE  EnrolInv'
  <2>1. ASSUME NEW c \in {[call[h] EXCEPT !.pc = "decide", !.checked = now],
                          [call[h] EXCEPT !.pc = "expire"]},
               Become(h, c), c.pc = "expire" => call[h].op # "button"
        PROVE  EnrolInv'
    <3>1. /\ Entitled(c, enrolled)
          /\ c.op = call[h].op /\ c.user = call[h].user
      BY <1>6, <2>1 DEF CheckDeadline, Entitled, EnrolInv, TypeOK, Call
    <3> QED
      BY <1>6, <2>1, <3>1, EntitledStep DEF CheckDeadline, EnrolInv
  <2>2. \/ Reply(h)
        \/ Become(h, [call[h] EXCEPT !.pc = "decide", !.checked = now])
        \/ (Become(h, [call[h] EXCEPT !.pc = "expire"]) /\ call[h].op # "button")
    BY <1>6 DEF CheckDeadline, Goto
  <2>3. /\ [call[h] EXCEPT !.pc = "decide", !.checked = now].pc = "decide"
        /\ [call[h] EXCEPT !.pc = "expire"].pc = "expire"
    BY DEF TypeOK, Call
  <2> QED
    BY <1>6, <1>a, <2>1, <2>2, <2>3 DEF CheckDeadline
<1>7. ASSUME NEW h \in Handlers, MarkExpired(h) \/ Decide(h)
      PROVE  EnrolInv'
  BY <1>7, <1>a DEF MarkExpired, Decide
<1>8. CASE UNCHANGED <<static, file, call, enrolled>>
  BY <1>8 DEF EnrolInv
<1> QED
  BY <1>b, <1>c, <1>d, <1>1, <1>2, <1>3, <1>4, <1>5, <1>6, <1>7, <1>8
     DEF Next, HandlerStep, HandleCreateRequest, ExpireOldRequests, Tick, pamVars

\* No step forgets an enrolment or changes the list of users.
LEMMA EnrolledGrows ==
    ASSUME TypeOK, [Next]_pamVars
    PROVE  static' = static /\ \A u \in Users : enrolled[u] \subseteq enrolled'[u]
<1>1. ASSUME NEW h \in Handlers, StoreToken(h)
      PROVE  static' = static /\ \A u \in Users : enrolled[u] \subseteq enrolled'[u]
  BY <1>1 DEF StoreToken, TypeOK
<1>2. CASE UNCHANGED <<static, enrolled>>
  BY <1>2
<1> QED
  BY <1>1, <1>2
     DEF Next, HandlerStep, HandleCreateRequest, HandleEnroll, HandleApproveOrDeny,
         WebhookDeny, RetrieveToken, RecheckToken, MatchToken, GetRequest, CheckDeadline,
         MarkExpired, Decide, ExpireOldRequests, Tick, pamVars

\* The approvals in the store, the second half of ApproverIsEnrolled.
ApprovalsEntitled ==
    \A id \in Requests : rows[id].status = "approved" =>
        /\ rows[id].approvedBy \in static \cup Active
        /\ enrolled[rows[id].approvedBy] # {}

\* Every step keeps the approvals in the table those of enrolled, authorised users.
LEMMA ApprovalsStep ==
    TypeOK /\ EnrolInv /\ ApprovalsEntitled /\ [Next]_pamVars => ApprovalsEntitled'
<1> SUFFICES ASSUME TypeOK, EnrolInv, ApprovalsEntitled, [Next]_pamVars,
                    NEW id \in Requests, rows'[id].status = "approved"
             PROVE  /\ rows'[id].approvedBy \in static' \cup Active
                    /\ enrolled'[rows'[id].approvedBy] # {}
  BY DEF ApprovalsEntitled
<1>0. static \cup Active \subseteq Users
  BY PamUsersAssumption DEF TypeOK
<1>1. CASE Untouched(id)
  BY <1>0, <1>1, EnrolledGrows DEF Untouched, ApprovalsEntitled
<1>2. ASSUME NEW h \in Handlers, DecidedBy(id, h)
      PROVE  /\ rows'[id].approvedBy \in static' \cup Active
             /\ enrolled'[rows'[id].approvedBy] # {}
  <2>1. call[h].op = "approve" /\ call[h].pc = "decide" /\ rows'[id].approvedBy = call[h].user
    <3>1. Target(call[h].op) = "approved"
      BY <1>2 DEF DecidedBy
    <3> QED
      BY <1>2, <3>1 DEF DecidedBy, Target
  <2>2. call[h].user \in static \cup Active /\ call[h].token \in enrolled[call[h].user]
    BY <2>1 DEF EnrolInv, Entitled
  <2> QED
    BY <1>0, <2>1, <2>2, EnrolledGrows
<1> QED
  BY <1>1, <1>2, RequestStep DEF Created, Expired

\* The inductive invariant.
Inv == TypeOK /\ EnrolInv /\ ApprovalsEntitled

\* Files, calls and approvals rest on enrolments, in every reachable state.
THEOREM InvHolds == Spec => []Inv
<1>1. Init => EnrolInv /\ ApprovalsEntitled
  <2> SUFFICES ASSUME Init PROVE EnrolInv /\ ApprovalsEntitled
    OBVIOUS
  <2>1. /\ \A u \in Users : file[u].kind = "absent"
        /\ \A h \in Handlers : call[h] = IdleCall
        /\ \A id \in Requests : rows[id].status = "none"
    BY DEF Init, NoFile, NoRow
  <2> QED
    BY <2>1, IdleEntitled, PamNoneAssumption DEF EnrolInv, ApprovalsEntitled, Ops
<1>2. Inv /\ [Next]_pamVars => EnrolInv' /\ ApprovalsEntitled'
  BY EnrolStep, ApprovalsStep DEF Inv
<1> QED
  BY <1>1, <1>2, TypeCorrect, PTL DEF Spec, Inv

\* Whoever reaches the request store presented an enrolled token, and approvals are by
\* authorised users who enrolled, for any number of enrolments, expiries and failures.
THEOREM ApproverIsEnrolledHolds == Spec => []ApproverIsEnrolled
<1>1. Inv => ApproverIsEnrolled
  BY DEF Inv, EnrolInv, Entitled, ApprovalsEntitled, ApproverIsEnrolled
<1> QED
  BY <1>1, InvHolds, PTL

\* The second look under the write lock: no step deletes a token in use.
THEOREM DeletesOnlyIdleTokensHolds == Spec => DeletesOnlyIdleTokens
<1>1. Inv /\ [Next]_pamVars =>
        [\A u \in Users : file[u].kind = "token" /\ file'[u].kind = "absent" =>
            now - file[u].lastUsed > TokenTTL]_pamVars
  <2> SUFFICES ASSUME Inv, [Next]_pamVars, NEW u \in Users, file[u].kind = "token",
                      file'[u].kind = "absent"
               PROVE  now - file[u].lastUsed > TokenTTL
    OBVIOUS
  <2>1. ASSUME NEW h \in Handlers, RecheckToken(h)
        PROVE  now - file[u].lastUsed > TokenTTL
    <3>1. /\ TokenExpired(file[call[h].user])
          /\ file' = [file EXCEPT ![call[h].user] = NoFile("absent")]
      BY <2>1 DEF RecheckToken
    <3>2. u = call[h].user
      BY <3>1 DEF Inv, TypeOK
    <3> QED
      BY <3>1, <3>2 DEF TokenExpired
  <2>2. ASSUME NEW h \in Handlers, StoreToken(h)
        PROVE  FALSE
    <3>1. call[h].held.kind = "token"
      BY <2>2 DEF StoreToken, Inv, TypeOK, EnrolInv, Entitled, Call, Ops
    <3> QED
      BY <2>2, <3>1 DEF StoreToken, NoFile, Inv, TypeOK
  <2>3. CASE UNCHANGED file
    BY <2>3
  <2> QED
    BY <2>1, <2>2, <2>3
       DEF Next, HandlerStep, HandleCreateRequest, HandleEnroll, HandleApproveOrDeny,
           WebhookDeny, RetrieveToken, MatchToken, GetRequest, CheckDeadline,
           MarkExpired, Decide, ExpireOldRequests, Tick, pamVars
<1> QED
  BY <1>1, InvHolds, PTL DEF Spec, DeletesOnlyIdleTokens

-----------------------------------------------------------------------------
(* The PAM handler implements the lifecycle of a request *)

\* The abstract state.
StatusOf == [id \in Requests |-> rows[id].status]

\* At most one request moves, except in a clean-up.
LEMMA OneRequestMoves ==
    ASSUME TypeOK, [Next]_pamVars
    PROVE  \/ ExpireOldRequests
           \/ UNCHANGED rows
           \/ \E id \in Requests : \A o \in Requests \ {id} : rows'[o] = rows[o]
<1> USE DEF TypeOK
<1>1. ASSUME NEW id \in Requests, NEW u \in Users, HandleCreateRequest(id, u)
      PROVE  \A o \in Requests \ {id} : rows'[o] = rows[o]
  BY <1>1 DEF HandleCreateRequest
<1>2. ASSUME NEW h \in Handlers, MarkExpired(h) \/ Decide(h)
      PROVE  call[h].id \in Requests /\ \A o \in Requests \ {call[h].id} : rows'[o] = rows[o]
  BY <1>2 DEF MarkExpired, Decide
<1> QED
  BY <1>1, <1>2
     DEF Next, HandlerStep, HandleEnroll, HandleApproveOrDeny, WebhookDeny, RetrieveToken,
         RecheckToken, MatchToken, StoreToken, GetRequest, CheckDeadline, Tick, pamVars

\* Every step is a step of the lifecycle or invisible in it.
LEMMA NextRefines ==
    ASSUME TypeOK, [Next]_pamVars
    PROVE  Lifecycle!Next \/ StatusOf' = StatusOf
<1>1. CASE ExpireOldRequests
  <2>1. \A id \in Requests : rows'[id] = rows[id] \/ Expired(id)
    BY <1>1, ExpiryExpires DEF ExpireOldRequests, Expired, TypeOK
  <2>2. PICK S \in SUBSET Requests : S = {id \in Requests : Expired(id)}
    OBVIOUS
  <2>3. Lifecycle!Expire(S)
    BY <2>1, <2>2 DEF Lifecycle!Expire, Expired
  <2> QED
    BY <2>3 DEF Lifecycle!Next
<1>2. CASE UNCHANGED rows
  BY <1>2 DEF StatusOf
<1>3. ASSUME NEW id \in Requests, \A o \in Requests \ {id} : rows'[o] = rows[o]
      PROVE  Lifecycle!Next \/ StatusOf' = StatusOf
  <2>0. StatusOf' = [StatusOf EXCEPT ![id] = rows'[id].status]
    BY <1>3 DEF StatusOf
  <2>1. CASE Untouched(id)
    BY <2>0, <2>1 DEF Untouched, StatusOf
  <2>2. CASE Created(id)
    <3>1. Lifecycle!Submit(id)
      BY <2>0, <2>2 DEF Lifecycle!Submit, Created, StatusOf
    <3> QED
      BY <3>1 DEF Lifecycle!Next
  <2>3. CASE Expired(id)
    <3>1. Lifecycle!Expire({id})
      BY <1>3, <2>3 DEF Lifecycle!Expire, Expired
    <3> QED
      BY <3>1 DEF Lifecycle!Next
  <2>4. CASE \E h \in Handlers : DecidedBy(id, h)
    <3>1. rows[id].status = "pending" /\ rows'[id].status \in {"approved", "denied"}
      BY <2>4 DEF DecidedBy, Target
    <3>2. Lifecycle!Decide(id)
      BY <2>0, <3>1 DEF Lifecycle!Decide, StatusOf
    <3> QED
      BY <3>2 DEF Lifecycle!Next
  <2> QED
    BY <2>1, <2>2, <2>3, <2>4, RequestStep
<1> QED
  BY <1>1, <1>2, <1>3, OneRequestMoves

\* The PAM handler, the deny button and the clean-up implement the lifecycle of a request on
\* every store.
THEOREM ImplementsLifecycleHolds == Spec => ImplementsLifecycle
<1>1. Init => Lifecycle!Init
  BY DEF Init, Lifecycle!Init, NoRow
<1>2. TypeOK /\ [Next]_pamVars => [Lifecycle!Next]_(Lifecycle!lifecycleVars)
  BY NextRefines DEF StatusOf, Lifecycle!lifecycleVars
<1> QED
  BY <1>1, <1>2, TypeCorrect, PTL DEF Spec, ImplementsLifecycle, Lifecycle!Spec
=============================================================================
