------------------------- MODULE ApprovalDaemonProofs -------------------------
(***************************************************************************)
(* Safety of the daemon for any number of requests, handlers, users and    *)
(* commands, any clock resolution and time-to-live, with or without store  *)
(* errors, a persistent table, stops and crashes.                          *)
(***************************************************************************)
EXTENDS ApprovalDaemon, TLAPS

-----------------------------------------------------------------------------
(* Shapes of the values the actions build *)

\* NoRow, NewElevationRequest, Moved and Updated build rows.
LEMMA RowShapes ==
    /\ NoRow("none") \in Row
    /\ NoRow("lost") \in Row
    /\ \A cmd \in Commands : now \in Nat => NewElevationRequest(cmd) \in Row
    /\ \A row \in Row, new \in RowStatus, by \in Users \cup {None}, at \in Nat \cup {NoTime} :
           Moved(row, new, by, at) \in Row
    /\ \A row \in Row, new \in RowStatus : Updated(row, new) \in Row
<1>1. NoRow("none") \in Row /\ NoRow("lost") \in Row
  BY DEF NoRow, Row, RowStatus, NoTime
<1>2. ASSUME NEW cmd \in Commands, now \in Nat PROVE NewElevationRequest(cmd) \in Row
  BY <1>2, TimeAssumption DEF NewElevationRequest, Row, RowStatus, NoTime
<1>3. ASSUME NEW row \in Row, NEW new \in RowStatus, NEW by \in Users \cup {None},
             NEW at \in Nat \cup {NoTime}
      PROVE  Moved(row, new, by, at) \in Row
  BY <1>3 DEF Moved, Row
<1>4. ASSUME NEW row \in Row, NEW new \in RowStatus PROVE Updated(row, new) \in Row
  BY <1>4 DEF Updated, Row
<1>5. QED BY <1>1, <1>2, <1>3, <1>4

\* An idle goroutine has a well-formed call record.
LEMMA IdleShape == IdleCall \in Call
BY RowShapes DEF IdleCall, Call, PC, NoTime

\* Assigning a well-formed record to one goroutine keeps all of them well formed.
LEMMA CallShapes ==
    ASSUME CallsOK, NEW h \in Handlers, NEW c \in Call,
           c.pc # "idle" => c.id \in Requests /\ c.op \in {"approve", "deny"},
           Become(h, c)
    PROVE  CallsOK'
BY DEF CallsOK, Become

\* In particular when the handler replies.
LEMMA ReplyShape ==
    ASSUME CallsOK, NEW h \in Handlers, Reply(h)
    PROVE  CallsOK'
BY CallShapes, IdleShape DEF Reply, IdleCall

\* And when it moves on to another program point.
LEMMA GotoShape ==
    ASSUME CallsOK, NEW h \in Handlers, call[h].pc # "idle", NEW pc \in PC, Goto(h, pc)
    PROVE  CallsOK'
<1>1. call[h] \in Call
  BY DEF CallsOK
<1>2. [call[h] EXCEPT !.pc = pc] \in Call
  BY <1>1 DEF Call
<1>3. QED BY <1>1, <1>2, CallShapes DEF Goto, CallsOK, Call

-----------------------------------------------------------------------------
(* Type correctness *)

\* The initial state has the types of TypeOK.
LEMMA InitType == Init => TypeOK
BY RowShapes, IdleShape, TimeAssumption DEF Init, TypeOK, CallsOK, IdleCall

\* Each step of a handler keeps every variable in its type.
LEMMA HandlerStepType ==
    ASSUME TypeOK, NEW h \in Handlers, HandlerStep(h)
    PROVE  TypeOK'
<1> DEFINE c == call[h]
<1>c. CallsOK /\ c \in Call
  BY DEF TypeOK, CallsOK
<1>id. c.pc # "idle" => c.id \in Requests /\ c.op \in {"approve", "deny"}
  BY <1>c DEF CallsOK
<1>pc. PC = {"idle", "get", "check", "stamp", "update", "expire", "exec", "running", "record"}
  BY DEF PC
<1>1. CASE V1Get(h)
  <2>1. CASE Reply(h)
    BY <1>1, <2>1, <1>c, ReplyShape DEF V1Get, TypeOK
  <2>2. CASE Become(h, [c EXCEPT !.pc = "check", !.req = rows[c.id]])
    <3>1. rows[c.id] \in Row
      BY <1>1, <1>id DEF V1Get, TypeOK
    <3>2. [c EXCEPT !.pc = "check", !.req = rows[c.id]] \in Call
      BY <3>1, <1>c, <1>pc DEF Call
    <3>3. CallsOK'
      BY <1>1, <2>2, <3>2, <1>c, <1>id, CallShapes DEF V1Get, Call
    <3>4. QED BY <1>1, <3>3 DEF V1Get, TypeOK
  <2>3. QED BY <1>1, <2>1, <2>2 DEF V1Get
<1>2. CASE V1Check(h)
  <2>1. CallsOK'
    BY <1>2, <1>c, <1>pc, ReplyShape, GotoShape DEF V1Check
  <2>2. QED BY <1>2, <2>1 DEF V1Check, TypeOK
<1>3. CASE V1Expire(h)
  <2>1. CallsOK'
    BY <1>3, <1>c, ReplyShape DEF V1Expire
  <2>2. rows' \in [Requests -> Row]
    <3>1. c.id \in Requests
      BY <1>3, <1>id DEF V1Expire
    <3>2. Moved(rows[c.id], "expired", None, now) \in Row
      BY <3>1, RowShapes DEF TypeOK, RowStatus
    <3>3. QED BY <1>3, <3>1, <3>2 DEF V1Expire, TypeOK
  <2>3. QED BY <1>3, <2>1, <2>2 DEF V1Expire, TypeOK
<1>4. CASE V1Stamp(h)
  <2>1. [c EXCEPT !.pc = "update", !.stamp = now] \in Call
    BY <1>c, <1>pc DEF Call, TypeOK
  <2>2. CallsOK'
    BY <1>4, <2>1, <1>c, <1>id, CallShapes DEF V1Stamp, Call
  <2>3. QED BY <1>4, <2>2 DEF V1Stamp, TypeOK
<1>5. CASE V1Update(h)
  <2>1. CallsOK'
    BY <1>5, <1>c, <1>pc, ReplyShape, GotoShape DEF V1Update
  <2>2. rows' \in [Requests -> Row]
    <3>1. c.id \in Requests /\ c.user \in Users \cup {None} /\ c.stamp \in Nat \cup {NoTime}
      BY <1>5, <1>c, <1>id DEF V1Update, Call
    <3>2. Moved(rows[c.id], Target(c.op), c.user, c.stamp) \in Row
      BY <3>1, RowShapes DEF TypeOK, Target, RowStatus
    <3>3. QED BY <1>5, <3>1, <3>2 DEF V1Update, TypeOK
  <2>3. QED BY <1>5, <2>1, <2>2 DEF V1Update, TypeOK
<1>6. CASE V1Execute(h)
  <2>1. CASE Become(h, [c EXCEPT !.pc = "record", !.ok = FALSE]) /\ UNCHANGED runs
    <3>1. [c EXCEPT !.pc = "record", !.ok = FALSE] \in Call
      BY <1>c, <1>pc DEF Call
    <3>2. CallsOK'
      BY <1>6, <2>1, <3>1, <1>c, <1>id, CallShapes DEF V1Execute, Call
    <3>3. QED BY <1>6, <2>1, <3>2 DEF V1Execute, TypeOK
  <2>2. CASE runs' = [runs EXCEPT ![c.id] = @ + 1] /\ Goto(h, "running")
    <3>1. CallsOK'
      BY <1>6, <2>2, <1>c, <1>pc, GotoShape DEF V1Execute
    <3>2. runs' \in [Requests -> Nat]
      BY <1>6, <2>2, <1>id DEF V1Execute, TypeOK
    <3>3. QED BY <1>6, <2>2, <3>1, <3>2 DEF V1Execute, TypeOK
  <2>3. QED BY <1>6, <2>1, <2>2 DEF V1Execute
<1>7. CASE V1ExecuteReturns(h)
  <2>1. PICK ok \in BOOLEAN : Become(h, [c EXCEPT !.pc = "record", !.ok = ok])
    BY <1>7 DEF V1ExecuteReturns
  <2>2. [c EXCEPT !.pc = "record", !.ok = ok] \in Call
    BY <1>c, <1>pc DEF Call
  <2>3. CallsOK'
    BY <1>7, <2>1, <2>2, <1>c, <1>id, CallShapes DEF V1ExecuteReturns, Call
  <2>4. QED BY <1>7, <2>3 DEF V1ExecuteReturns, TypeOK
<1>8. CASE V1Record(h)
  <2>1. CallsOK'
    BY <1>8, <1>c, ReplyShape DEF V1Record
  <2>2. rows' \in [Requests -> Row]
    BY <1>8, <1>id, RowShapes DEF V1Record, TypeOK, RowStatus
  <2>3. QED BY <1>8, <2>1, <2>2 DEF V1Record, TypeOK
<1>9. QED BY <1>1, <1>2, <1>3, <1>4, <1>5, <1>6, <1>7, <1>8 DEF HandlerStep

\* Losing the process keeps every variable in its type.
LEMMA GoDownType == TypeOK /\ GoDown => TypeOK'
BY RowShapes, IdleShape DEF TypeOK, GoDown, CallsOK, IdleCall

\* So does every step of the daemon.
LEMMA NextType == TypeOK /\ [Next]_vars => TypeOK'
<1> SUFFICES ASSUME TypeOK, [Next]_vars PROVE TypeOK'
  OBVIOUS
<1>1. CASE \E id \in Requests, cmd \in Commands : HandleCreateRequest(id, cmd)
  BY <1>1, RowShapes DEF HandleCreateRequest, TypeOK, CallsOK
<1>2. CASE \E h \in Handlers, op \in {"approve", "deny"}, id \in Requests,
              user \in Users \cup {None}, token \in BOOLEAN : Receive(h, op, id, user, token)
  <2>1. PICK h \in Handlers, op \in {"approve", "deny"}, id \in Requests,
             user \in Users \cup {None}, token \in BOOLEAN : Receive(h, op, id, user, token)
    BY <1>2
  <2>2. [IdleCall EXCEPT !.pc = "get", !.op = op, !.id = id,
                         !.user = user, !.token = token] \in Call
    BY IdleShape DEF Call, PC
  <2>3. CallsOK'
    BY <2>1, <2>2, CallShapes DEF Receive, TypeOK, IdleCall
  <2>4. QED BY <2>1, <2>3 DEF Receive, TypeOK
<1>3. CASE \E h \in Handlers : HandlerStep(h)
  BY <1>3, HandlerStepType
<1>4. CASE Tick
  BY <1>4 DEF Tick, TypeOK, CallsOK
<1>5. CASE PerformCleanup
  BY <1>5, RowShapes DEF PerformCleanup, TypeOK, CallsOK, RowStatus
<1>6. CASE Stop \/ CloseStore \/ Restart
  BY <1>6 DEF Stop, CloseStore, Restart, TypeOK, CallsOK
<1>7. CASE MainExits \/ SignalExits \/ Crash
  BY <1>7, GoDownType DEF MainExits, SignalExits, Crash
<1>8. CASE UNCHANGED vars
  BY <1>8 DEF vars, TypeOK, CallsOK
<1>9. QED BY <1>1, <1>2, <1>3, <1>4, <1>5, <1>6, <1>7, <1>8 DEF Next

\* Every reachable state of the daemon is well typed, for all constants.
THEOREM TypeCorrect == Spec => []TypeOK
BY InitType, NextType, PTL DEF Spec

-----------------------------------------------------------------------------
(* The inductive safety invariant *)

\* What is left of SafetyInv once types are known.
Safe == ExecutorOwnsRequest /\ RunsAtMostOnce /\ NeverRunsUnapproved
        /\ ResultsAreReal /\ SnapshotsAgree

\* Nothing has been executed initially.
LEMMA InitSafe == Init => Safe
BY DEF Init, Safe, ExecutorOwnsRequest, RunsAtMostOnce, NeverRunsUnapproved,
       ResultsAreReal, SnapshotsAgree, Executing, IdleCall, NoRow

\* Leaving a call record that executes nothing keeps the invariant.
LEMMA QuietCallSafe ==
    ASSUME TypeOK, Safe, NEW h \in Handlers, NEW c \in Call, Become(h, c),
           c.pc \in PC \ {"exec", "running", "record"},
           c.pc \notin {"idle", "get"} =>
               /\ rows[c.id].status \notin {"none", "lost"}
               /\ c.req.command = rows[c.id].command
               /\ c.req.expiresAt = rows[c.id].expiresAt,
           UNCHANGED <<rows, runs>>
    PROVE  Safe'
<1>1. call' \in [Handlers -> Call] /\ call'[h] = c /\ \A g \in Handlers \ {h} : call'[g] = call[g]
  BY DEF Become, TypeOK, CallsOK
<1>2. \A g \in Handlers : Executing(g)' => g # h /\ Executing(g)
  BY <1>1 DEF Executing
<1>3. ExecutorOwnsRequest' /\ RunsAtMostOnce' /\ NeverRunsUnapproved'
  BY <1>1, <1>2 DEF Safe, ExecutorOwnsRequest, RunsAtMostOnce, NeverRunsUnapproved
<1>4. ResultsAreReal'
  BY <1>1 DEF Safe, ResultsAreReal
<1>5. SnapshotsAgree'
  BY <1>1 DEF Safe, SnapshotsAgree
<1>6. QED BY <1>3, <1>4, <1>5 DEF Safe

\* A handler step that neither decides, runs nor records keeps the invariant.
LEMMA QuietStepSafe ==
    ASSUME TypeOK, Safe, NEW h \in Handlers,
           V1Get(h) \/ V1Check(h) \/ V1Stamp(h)
    PROVE  Safe'
<1> DEFINE c == call[h]
<1>c. c \in Call
  BY DEF TypeOK, CallsOK
<1>pc. PC = {"idle", "get", "check", "stamp", "update", "expire", "exec", "running", "record"}
  BY DEF PC
<1>q. UNCHANGED <<rows, runs>>
  BY DEF V1Get, V1Check, V1Stamp
<1>1. CASE Reply(h)
  BY <1>1, <1>q, <1>pc, IdleShape, QuietCallSafe DEF Reply, IdleCall
<1>2. CASE V1Get(h) /\ ~Reply(h)
  <2>1. /\ c.pc = "get" /\ rows[c.id].status = "pending"
        /\ Become(h, [c EXCEPT !.pc = "check", !.req = rows[c.id]])
    BY <1>2 DEF V1Get
  <2>2. rows[c.id] \in Row
    BY <2>1 DEF TypeOK, CallsOK
  <2>3. [c EXCEPT !.pc = "check", !.req = rows[c.id]] \in Call
    BY <2>2, <1>c, <1>pc DEF Call
  <2>4. QED BY <2>1, <2>3, <1>c, <1>q, <1>pc, QuietCallSafe DEF Call
<1>3. CASE V1Check(h) /\ ~Reply(h)
  <2>1. PICK pc \in {"expire", "stamp"} : Goto(h, pc)
    BY <1>3 DEF V1Check
  <2>2. [c EXCEPT !.pc = pc] \in Call
    BY <2>1, <1>c, <1>pc DEF Call
  <2>3. QED BY <1>3, <2>1, <2>2, <1>c, <1>q, <1>pc, QuietCallSafe
            DEF V1Check, Goto, Call, Safe, SnapshotsAgree
<1>4. CASE V1Stamp(h)
  <2>1. [c EXCEPT !.pc = "update", !.stamp = now] \in Call
    BY <1>c, <1>pc DEF Call, TypeOK
  <2>2. QED BY <1>4, <2>1, <1>c, <1>q, <1>pc, QuietCallSafe
            DEF V1Stamp, Call, Safe, SnapshotsAgree
<1>5. QED BY <1>1, <1>2, <1>3, <1>4

\* What a statement may do to the table while handlers are busy: rows move from
\* pending to a decision or to expired and keep their command and deadline.
Settles(id, new) ==
    /\ rows[id].status = "pending"
    /\ rows'[id].status = new
    /\ rows'[id].command = rows[id].command
    /\ rows'[id].expiresAt = rows[id].expiresAt

\* UpdateStateIf settles the row it matches and touches no other.
LEMMA UpdateStateIfSettles ==
    ASSUME TypeOK, NEW id \in Requests, NEW new \in {"approved", "denied", "expired"},
           NEW by, NEW at, Matches(rows[id], "pending", new, at),
           rows' = [rows EXCEPT ![id] = Moved(@, new, by, at)]
    PROVE  Settles(id, new) /\ \A o \in Requests \ {id} : rows'[o] = rows[o]
BY DEF TypeOK, Row, Matches, Moved, Settles

\* Settling some pending rows as denied or expired, with the handlers as they were
\* or one of them replying, keeps the invariant.
LEMMA SettleSafe ==
    ASSUME TypeOK, Safe, UNCHANGED runs,
           \A id \in Requests : \/ rows'[id] = rows[id]
                                \/ Settles(id, "denied") \/ Settles(id, "expired"),
           \A g \in Handlers : call'[g] = call[g] \/ call'[g] = IdleCall
    PROVE  Safe'
<1>1. \A g \in Handlers : Executing(g)' => Executing(g) /\ call'[g] = call[g]
  BY DEF Executing, IdleCall
<1>2. \A g \in Handlers : call'[g].pc # "idle" => call'[g] = call[g] /\ call[g].id \in Requests
  BY DEF IdleCall, TypeOK, CallsOK
<1>3. ExecutorOwnsRequest'
  BY <1>1, <1>2 DEF Safe, ExecutorOwnsRequest, Executing, Settles
<1>4. RunsAtMostOnce' /\ NeverRunsUnapproved'
  BY DEF Safe, RunsAtMostOnce, NeverRunsUnapproved, Settles
<1>5. ResultsAreReal'
  BY <1>2 DEF Safe, ResultsAreReal, Settles
<1>6. SnapshotsAgree'
  BY <1>2 DEF Safe, SnapshotsAgree, Settles
<1>7. QED BY <1>3, <1>4, <1>5, <1>6 DEF Safe

\* Marking a request expired on behalf of a late caller keeps the invariant.
LEMMA ExpireSafe ==
    ASSUME TypeOK, Safe, NEW h \in Handlers, V1Expire(h)
    PROVE  Safe'
<1> DEFINE id == call[h].id
<1>1. id \in Requests
  BY DEF V1Expire, TypeOK, CallsOK
<1>2. \A g \in Handlers : call'[g] = call[g] \/ call'[g] = IdleCall
  BY DEF V1Expire, Reply, Become, TypeOK, CallsOK
<1>3. CASE UNCHANGED rows
  BY <1>2, <1>3, SettleSafe DEF V1Expire
<1>4. CASE /\ Matches(rows[id], "pending", "expired", now)
           /\ rows' = [rows EXCEPT ![id] = Moved(@, "expired", None, now)]
  BY <1>1, <1>2, <1>4, UpdateStateIfSettles, SettleSafe DEF V1Expire
<1>5. QED BY <1>3, <1>4 DEF V1Expire

\* Winning or losing the decision keeps the invariant; an approval makes the handler
\* the owner of a request that nobody else executes and that never ran.
LEMMA UpdateSafe ==
    ASSUME TypeOK, Safe, NEW h \in Handlers, V1Update(h)
    PROVE  Safe'
<1> DEFINE c == call[h]
           id == c.id
           new == Target(c.op)
<1>1. id \in Requests /\ c \in Call /\ new \in {"approved", "denied"} /\ c.pc = "update"
  BY DEF V1Update, TypeOK, CallsOK, Target
<1>2. UNCHANGED runs
  BY DEF V1Update
<1>3. CASE Reply(h)
  <2>1. \A g \in Handlers : call'[g] = call[g] \/ call'[g] = IdleCall
    BY <1>3 DEF Reply, Become, TypeOK, CallsOK
  <2>2. CASE UNCHANGED rows
    BY <1>2, <2>1, <2>2, SettleSafe
  <2>3. CASE /\ Matches(rows[id], "pending", new, c.stamp) /\ c.op # "approve"
             /\ rows' = [rows EXCEPT ![id] = Moved(@, new, c.user, c.stamp)]
    <3>1. new = "denied"
      BY <2>3 DEF Target
    <3>2. /\ Matches(rows[id], "pending", "denied", c.stamp)
          /\ rows' = [rows EXCEPT ![id] = Moved(@, "denied", c.user, c.stamp)]
      BY <2>3, <3>1
    <3>3. Settles(id, "denied") /\ \A o \in Requests \ {id} : rows'[o] = rows[o]
      BY <1>1, <3>2, UpdateStateIfSettles
    <3>4. QED BY <1>2, <2>1, <3>3, SettleSafe
  <2>4. CASE c.op = "approve" /\ Goto(h, "exec")
    BY <1>1, <1>3, <2>4 DEF Goto, Reply, Become, IdleCall, Call, TypeOK, CallsOK
  <2>5. QED BY <2>2, <2>3, <2>4 DEF V1Update
<1>4. CASE ~Reply(h)
  <2>1. /\ c.op = "approve" /\ new = "approved" /\ Goto(h, "exec")
        /\ Matches(rows[id], "pending", "approved", c.stamp)
        /\ rows' = [rows EXCEPT ![id] = Moved(@, "approved", c.user, c.stamp)]
    BY <1>4 DEF V1Update, Target
  <2>2. Settles(id, "approved") /\ \A o \in Requests \ {id} : rows'[o] = rows[o]
    BY <1>1, <2>1, UpdateStateIfSettles
  <2>3. /\ call'[h] = [c EXCEPT !.pc = "exec"]
        /\ \A g \in Handlers \ {h} : call'[g] = call[g]
    BY <2>1 DEF Goto, Become, TypeOK, CallsOK
  <2>4. call'[h].pc = "exec" /\ call'[h].id = id /\ call'[h].req = c.req
    BY <1>1, <2>3 DEF Call
  <2>5. runs[id] = 0
    BY <1>1, <2>2 DEF Safe, NeverRunsUnapproved, Settles, TypeOK
  <2>6. \A g \in Handlers \ {h} : call[g].pc # "idle" => call[g].id \in Requests
    BY DEF TypeOK, CallsOK
  <2>7. \A g \in Handlers \ {h} : Executing(g) => call[g].id # id
    BY <2>2 DEF Safe, ExecutorOwnsRequest, Settles
  <2>8. ExecutorOwnsRequest'
    <3>1. \A g \in Handlers \ {h} : Executing(g)' <=> Executing(g)
      BY <2>3 DEF Executing
    <3>2. \A g \in Handlers \ {h} : Executing(g) => rows'[call[g].id].status = "approved"
      BY <2>2, <2>6, <2>7 DEF Safe, ExecutorOwnsRequest, Executing
    <3>3. rows'[id].status = "approved"
      BY <2>2 DEF Settles
    <3>4. ASSUME NEW g \in Handlers, Executing(g)'
          PROVE  rows'[call'[g].id].status = "approved"
      BY <2>3, <2>4, <3>1, <3>2, <3>3, <3>4
    <3>5. ASSUME NEW g \in Handlers, NEW k \in Handlers \ {g}, Executing(g)', Executing(k)'
          PROVE  call'[k].id # call'[g].id
      <4>1. CASE g = h
        BY <2>3, <2>4, <2>7, <3>1, <3>5, <4>1
      <4>2. CASE k = h
        BY <2>3, <2>4, <2>7, <3>1, <3>5, <4>2
      <4>3. CASE g # h /\ k # h
        BY <2>3, <3>1, <3>5, <4>3 DEF Safe, ExecutorOwnsRequest
      <4>4. QED BY <4>1, <4>2, <4>3
    <3>6. QED BY <3>4, <3>5 DEF ExecutorOwnsRequest
  <2>9. RunsAtMostOnce' /\ NeverRunsUnapproved'
    BY <1>2, <2>2 DEF Safe, RunsAtMostOnce, NeverRunsUnapproved, Settles
  <2>10. ResultsAreReal'
    <3>1. \A o \in Requests : rows'[o].status = "completed" => runs'[o] = 1
      BY <1>2, <2>2 DEF Safe, ResultsAreReal, Settles
    <3>2. QED BY <1>2, <2>3, <2>4, <2>5, <3>1 DEF Safe, ResultsAreReal
  <2>11. SnapshotsAgree'
    <3>1. \A o \in Requests : rows[o].status \notin {"none", "lost"} =>
              /\ rows'[o].status \notin {"none", "lost"}
              /\ rows'[o].command = rows[o].command
              /\ rows'[o].expiresAt = rows[o].expiresAt
      BY <2>2 DEF Settles
    <3>2. SnapshotsAgree
      BY DEF Safe
    <3>3. \A g \in Handlers : call'[g].pc \notin {"idle", "get"} =>
              /\ call[g].pc \notin {"idle", "get"} /\ call[g].id \in Requests
              /\ call'[g].id = call[g].id /\ call'[g].req = call[g].req
      BY <1>1, <2>3, <2>4, <2>6
    <3>4. QED BY <3>1, <3>2, <3>3 DEF SnapshotsAgree
  <2>12. QED BY <2>8, <2>9, <2>10, <2>11 DEF Safe
<1>5. QED BY <1>3, <1>4

\* Starting the command of the request it owns, or giving up before that, keeps the
\* invariant: it is the first start.
LEMMA ExecuteSafe ==
    ASSUME TypeOK, Safe, NEW h \in Handlers, V1Execute(h) \/ V1ExecuteReturns(h)
    PROVE  Safe'
<1> DEFINE c == call[h]
           id == c.id
<1>1. id \in Requests /\ c \in Call /\ Executing(h) /\ UNCHANGED rows
  BY DEF V1Execute, V1ExecuteReturns, TypeOK, CallsOK, Executing
<1>2. rows[id].status = "approved" /\ \A g \in Handlers \ {h} : Executing(g) => call[g].id # id
  BY <1>1 DEF Safe, ExecutorOwnsRequest
<1>3. PICK d \in Call :
          /\ Become(h, d) /\ d.id = id /\ d.req = c.req
          /\ \/ c.pc = "exec" /\ UNCHANGED runs /\ d.pc = "record" /\ d.ok = FALSE
             \/ c.pc = "exec" /\ runs' = [runs EXCEPT ![id] = @ + 1] /\ d.pc = "running"
             \/ c.pc = "running" /\ UNCHANGED runs /\ d.pc = "record"
  <2>1. CASE c.pc = "exec" /\ UNCHANGED runs /\ Become(h, [c EXCEPT !.pc = "record", !.ok = FALSE])
    <3>1. [c EXCEPT !.pc = "record", !.ok = FALSE] \in Call
      BY <1>1 DEF Call, PC
    <3>2. QED BY <1>1, <2>1, <3>1 DEF Call
  <2>2. CASE /\ c.pc = "exec" /\ runs' = [runs EXCEPT ![id] = @ + 1]
             /\ Become(h, [c EXCEPT !.pc = "running"])
    <3>1. [c EXCEPT !.pc = "running"] \in Call
      BY <1>1 DEF Call, PC
    <3>2. QED BY <1>1, <2>2, <3>1 DEF Call
  <2>3. CASE /\ c.pc = "running" /\ UNCHANGED runs
             /\ \E ok \in BOOLEAN : Become(h, [c EXCEPT !.pc = "record", !.ok = ok])
    <3>1. PICK ok \in BOOLEAN : Become(h, [c EXCEPT !.pc = "record", !.ok = ok])
      BY <2>3
    <3>2. [c EXCEPT !.pc = "record", !.ok = ok] \in Call
      BY <1>1 DEF Call, PC
    <3>3. QED BY <1>1, <2>3, <3>1, <3>2 DEF Call
  <2>4. QED BY <2>1, <2>2, <2>3 DEF V1Execute, V1ExecuteReturns, Goto
<1>4. /\ call'[h] = d
      /\ \A g \in Handlers \ {h} : call'[g] = call[g] /\ (call[g].pc # "idle" => call[g].id \in Requests)
  BY <1>3 DEF Become, TypeOK, CallsOK
<1>5. call'[h].id = id /\ call'[h].req = c.req /\ call'[h].pc \in {"running", "record"}
  BY <1>3, <1>4
<1>6. runs'[id] <= 1 /\ \A o \in Requests \ {id} : runs'[o] = runs[o]
  <2>1. runs[id] <= 1 /\ (c.pc = "exec" => runs[id] = 0) /\ runs \in [Requests -> Nat]
    BY <1>1 DEF Safe, ResultsAreReal, RunsAtMostOnce, TypeOK
  <2>2. QED BY <1>1, <1>3, <2>1
<1>7. call'[h].pc = "running" \/ (call'[h].pc = "record" /\ call'[h].ok) => runs'[id] = 1
  <2>1. /\ c.pc = "exec" => runs[id] = 0
        /\ c.pc = "running" => runs[id] = 1
        /\ runs \in [Requests -> Nat]
    BY DEF Safe, ResultsAreReal, TypeOK
  <2>2. QED BY <1>1, <1>3, <1>4, <2>1
<1>8. ExecutorOwnsRequest'
  BY <1>1, <1>2, <1>4, <1>5 DEF Safe, ExecutorOwnsRequest, Executing
<1>9. RunsAtMostOnce' /\ NeverRunsUnapproved'
  BY <1>1, <1>2, <1>6 DEF Safe, RunsAtMostOnce, NeverRunsUnapproved
<1>10. ResultsAreReal'
  BY <1>1, <1>2, <1>4, <1>5, <1>6, <1>7 DEF Safe, ResultsAreReal, Executing
<1>11. SnapshotsAgree'
  BY <1>1, <1>4, <1>5 DEF Safe, SnapshotsAgree, Executing
<1>12. QED BY <1>8, <1>9, <1>10, <1>11 DEF Safe

\* The unguarded Update meets a row its handler still owns.
LEMMA RecordSafe ==
    ASSUME TypeOK, Safe, NEW h \in Handlers, V1Record(h)
    PROVE  Safe'
<1> DEFINE c == call[h]
           id == c.id
           new == IF c.ok THEN "completed" ELSE "failed"
<1>1. id \in Requests /\ Executing(h) /\ c.pc = "record" /\ UNCHANGED runs
  BY DEF V1Record, TypeOK, CallsOK, Executing
<1>2. rows[id].status = "approved" /\ \A g \in Handlers \ {h} : Executing(g) => call[g].id # id
  BY <1>1 DEF Safe, ExecutorOwnsRequest
<1>3. call'[h] = IdleCall /\ \A g \in Handlers \ {h} :
          call'[g] = call[g] /\ (call[g].pc # "idle" => call[g].id \in Requests)
  BY DEF V1Record, Reply, Become, TypeOK, CallsOK
<1>4. CASE UNCHANGED rows
  <2>1. \A g \in Handlers : call'[g] = call[g] \/ call'[g] = IdleCall
    BY <1>3
  <2>2. QED BY <1>1, <1>4, <2>1, SettleSafe
<1>5. CASE rows' = [rows EXCEPT ![id] = Updated(@, new)]
  <2>1. /\ rows'[id].status = new /\ rows'[id].command = rows[id].command
        /\ rows'[id].expiresAt = rows[id].expiresAt
        /\ \A o \in Requests \ {id} : rows'[o] = rows[o]
    BY <1>1, <1>5 DEF Updated, TypeOK, Row
  <2>2. ExecutorOwnsRequest'
    BY <1>2, <1>3, <2>1 DEF Safe, ExecutorOwnsRequest, Executing, IdleCall
  <2>3. RunsAtMostOnce' /\ NeverRunsUnapproved'
    BY <1>1, <2>1 DEF Safe, RunsAtMostOnce, NeverRunsUnapproved
  <2>4. ResultsAreReal'
    BY <1>1, <1>3, <2>1 DEF Safe, ResultsAreReal, IdleCall
  <2>5. SnapshotsAgree'
    BY <1>1, <1>3, <2>1 DEF Safe, SnapshotsAgree, IdleCall
  <2>6. QED BY <2>2, <2>3, <2>4, <2>5 DEF Safe
<1>6. QED BY <1>4, <1>5 DEF V1Record

\* Losing the process leaves no handler behind, and the rows untouched or gone.
LEMMA GoDownSafe ==
    ASSUME TypeOK, Safe, GoDown
    PROVE  Safe'
<1>1. \A h \in Handlers : call'[h] = IdleCall
  BY DEF GoDown
<1>2. \A id \in Requests : rows'[id] = rows[id] \/ rows'[id].status = "lost"
  BY DEF GoDown, TypeOK, NoRow
<1>3. UNCHANGED runs
  BY DEF GoDown
<1>4. QED BY <1>1, <1>2, <1>3 DEF Safe, ExecutorOwnsRequest, RunsAtMostOnce,
             NeverRunsUnapproved, ResultsAreReal, SnapshotsAgree, Executing, IdleCall

\* A new row takes an identifier no handler can have found in the table.
LEMMA CreateSafe ==
    ASSUME TypeOK, Safe, NEW id \in Requests, NEW cmd \in Commands, HandleCreateRequest(id, cmd)
    PROVE  Safe'
<1>1. /\ rows[id].status = "none" /\ rows'[id].status = "pending"
      /\ \A o \in Requests \ {id} : rows'[o] = rows[o]
      /\ UNCHANGED <<call, runs>>
  BY DEF HandleCreateRequest, NewElevationRequest, TypeOK
<1>2. \A h \in Handlers : call[h].pc # "idle" => call[h].id \in Requests
  BY DEF TypeOK, CallsOK
<1>3. \A h \in Handlers : call[h].pc \notin {"idle", "get"} => call[h].id # id
  BY <1>1 DEF Safe, SnapshotsAgree
<1>4. ExecutorOwnsRequest' /\ RunsAtMostOnce' /\ NeverRunsUnapproved'
  BY <1>1, <1>2, <1>3 DEF Safe, ExecutorOwnsRequest, RunsAtMostOnce, NeverRunsUnapproved, Executing
<1>5. ResultsAreReal'
  BY <1>1 DEF Safe, ResultsAreReal
<1>6. SnapshotsAgree'
  BY <1>1, <1>2, <1>3 DEF Safe, SnapshotsAgree
<1>7. QED BY <1>4, <1>5, <1>6 DEF Safe

\* Every step of the daemon preserves the safety invariant.
LEMMA NextSafe == TypeOK /\ Safe /\ [Next]_vars => Safe'
<1> SUFFICES ASSUME TypeOK, Safe, [Next]_vars PROVE Safe'
  OBVIOUS
<1>1. CASE \E id \in Requests, cmd \in Commands : HandleCreateRequest(id, cmd)
  BY <1>1, CreateSafe
<1>2. CASE \E h \in Handlers, op \in {"approve", "deny"}, id \in Requests,
              user \in Users \cup {None}, token \in BOOLEAN : Receive(h, op, id, user, token)
  <2>1. PICK h \in Handlers, op \in {"approve", "deny"}, id \in Requests,
             user \in Users \cup {None}, token \in BOOLEAN : Receive(h, op, id, user, token)
    BY <1>2
  <2>2. [IdleCall EXCEPT !.pc = "get", !.op = op, !.id = id,
                         !.user = user, !.token = token] \in Call
    BY IdleShape DEF Call, PC
  <2>3. QED BY <2>1, <2>2, QuietCallSafe DEF Receive, IdleCall, PC
<1>3. CASE \E h \in Handlers : HandlerStep(h)
  BY <1>3, QuietStepSafe, ExpireSafe, UpdateSafe, ExecuteSafe, RecordSafe DEF HandlerStep
<1>4. CASE PerformCleanup
  <2>1. \A id \in Requests : rows'[id] = rows[id] \/ Settles(id, "expired")
    BY <1>4 DEF PerformCleanup, Overdue, Moved, Settles, TypeOK, Row
  <2>2. QED BY <1>4, <2>1, SettleSafe DEF PerformCleanup
<1>5. CASE Tick \/ Stop \/ CloseStore \/ Restart \/ UNCHANGED vars
  <2>1. UNCHANGED <<rows, call, runs>>
    BY <1>5 DEF Tick, Stop, CloseStore, Restart, vars
  <2>2. QED BY <2>1, SettleSafe
<1>6. CASE MainExits \/ SignalExits \/ Crash
  BY <1>6, GoDownSafe DEF MainExits, SignalExits, Crash
<1>7. QED BY <1>1, <1>2, <1>3, <1>4, <1>5, <1>6 DEF Next

\* The inductive invariant holds of the daemon.
THEOREM SafetyInvHolds == Spec => []SafetyInv
<1>1. Init => TypeOK /\ Safe
  BY InitType, InitSafe
<1>2. TypeOK /\ Safe /\ [Next]_vars => (TypeOK /\ Safe)'
  BY NextType, NextSafe
<1>3. TypeOK /\ Safe => SafetyInv
  BY DEF Safe, SafetyInv
<1>4. QED BY <1>1, <1>2, <1>3, PTL DEF Spec

\* However approvals race, are retried or are cut short by a crash, the command of a
\* request is started at most once.
THEOREM RunsAtMostOnceHolds == Spec => []RunsAtMostOnce
<1>1. SafetyInv => RunsAtMostOnce
  BY DEF SafetyInv
<1>2. QED BY <1>1, SafetyInvHolds, PTL

\* A pending, denied or expired request never had its command started.
THEOREM NeverRunsUnapprovedHolds == Spec => []NeverRunsUnapproved
<1>1. SafetyInv => NeverRunsUnapproved
  BY DEF SafetyInv
<1>2. QED BY <1>1, SafetyInvHolds, PTL

-----------------------------------------------------------------------------
(* What a step may do to the table: the facts behind the action properties *)

\* A handler step leaves a row alone, or settles a pending one, or records the
\* result of an approved one.
RowStep(id) ==
    \/ rows'[id] = rows[id]
    \/ \E new \in {"approved", "denied", "expired"} : Settles(id, new)
    \/ /\ rows[id].status = "approved"
       /\ rows'[id].status \in {"completed", "failed"}
       /\ rows'[id].status = "completed" => runs[id] = 1

\* Each handler step changes at most the row of its request, in one of those ways;
\* only V1Execute changes runs, and then no row.
LEMMA HandlerRowStep ==
    ASSUME SafetyInv, NEW h \in Handlers, HandlerStep(h)
    PROVE  /\ \A id \in Requests \ {call[h].id} : rows'[id] = rows[id]
           /\ call[h].id \in Requests /\ RowStep(call[h].id)
           /\ \/ UNCHANGED runs
              \/ UNCHANGED rows /\ V1Execute(h) /\ runs' # runs
<1> DEFINE c == call[h]
           id == c.id
<1>1. TypeOK /\ Safe /\ c.pc # "idle" /\ c \in Call
  BY DEF SafetyInv, Safe, HandlerStep, V1Get, V1Check, V1Expire, V1Stamp, V1Update,
         V1Execute, V1ExecuteReturns, V1Record, TypeOK, CallsOK
<1>2. id \in Requests
  BY <1>1 DEF TypeOK, CallsOK
<1>3. CASE V1Get(h) \/ V1Check(h) \/ V1Stamp(h) \/ V1Execute(h) \/ V1ExecuteReturns(h)
  <2>1. UNCHANGED rows /\ (UNCHANGED runs \/ V1Execute(h))
    BY <1>3 DEF V1Get, V1Check, V1Stamp, V1Execute, V1ExecuteReturns
  <2>2. QED BY <1>2, <2>1 DEF RowStep
<1>4. CASE V1Expire(h)
  <2>1. CASE /\ Matches(rows[id], "pending", "expired", now)
             /\ rows' = [rows EXCEPT ![id] = Moved(@, "expired", None, now)]
    <3>1. Settles(id, "expired") /\ \A o \in Requests \ {id} : rows'[o] = rows[o]
      BY <1>1, <1>2, <2>1, UpdateStateIfSettles
    <3>2. QED BY <1>2, <1>4, <3>1 DEF V1Expire, RowStep
  <2>2. CASE UNCHANGED rows
    BY <1>2, <1>4, <2>2 DEF V1Expire, RowStep
  <2>3. QED BY <1>4, <2>1, <2>2 DEF V1Expire
<1>5. CASE V1Update(h)
  <2>1. PICK new \in {"approved", "denied"} : new = Target(c.op)
    BY DEF Target
  <2>2. CASE /\ Matches(rows[id], "pending", new, c.stamp)
             /\ rows' = [rows EXCEPT ![id] = Moved(@, new, c.user, c.stamp)]
    <3>n. new \in {"approved", "denied", "expired"}
      OBVIOUS
    <3> HIDE DEF c, id
    <3>1. Settles(id, new) /\ \A o \in Requests \ {id} : rows'[o] = rows[o]
      BY <1>1, <1>2, <2>2, <3>n, UpdateStateIfSettles
    <3> USE DEF c, id
    <3>2. QED BY <1>2, <1>5, <3>1 DEF V1Update, RowStep
  <2>3. CASE UNCHANGED rows
    BY <1>2, <1>5, <2>3 DEF V1Update, RowStep
  <2>4. QED BY <1>5, <2>1, <2>2, <2>3 DEF V1Update
<1>6. CASE V1Record(h)
  <2>1. CASE rows' = [rows EXCEPT ![id] = Updated(@, IF c.ok THEN "completed" ELSE "failed")]
    <3>1. /\ rows'[id].status = IF c.ok THEN "completed" ELSE "failed"
          /\ \A o \in Requests \ {id} : rows'[o] = rows[o]
      BY <1>1, <1>2, <2>1 DEF Updated, TypeOK, Row
    <3>2. rows[id].status = "approved" /\ (c.ok => runs[id] = 1)
      BY <1>1, <1>6 DEF V1Record, Safe, ExecutorOwnsRequest, ResultsAreReal, Executing
    <3>3. QED BY <1>2, <1>6, <3>1, <3>2 DEF V1Record, RowStep
  <2>2. CASE UNCHANGED rows
    BY <1>2, <1>6, <2>2 DEF V1Record, RowStep
  <2>3. QED BY <1>6, <2>1, <2>2 DEF V1Record
<1>7. QED BY <1>3, <1>4, <1>5, <1>6 DEF HandlerStep

\* The cleanup only settles overdue pending rows as expired.
LEMMA CleanupRowStep ==
    ASSUME TypeOK, PerformCleanup, NEW id \in Requests
    PROVE  rows'[id] = rows[id] \/ Settles(id, "expired")
BY DEF PerformCleanup, Overdue, Moved, Settles, TypeOK, Row

\* The process going down leaves rows as they are or loses all of them.
LEMMA GoDownRowStep ==
    ASSUME TypeOK, GoDown
    PROVE  IF Persistent THEN UNCHANGED rows
           ELSE \A id \in Requests : rows'[id].status =
                    IF rows[id].status = "none" THEN "none" ELSE "lost"
BY DEF GoDown, NoRow, TypeOK

\* No step of any handler, of the cleanup, of a shutdown or of a restart changes a
\* denied, expired, completed or failed row.
THEOREM FinalStatusesAreFinalHolds == Spec => FinalStatusesAreFinal
<1> DEFINE Kept == \A id \in Requests : rows[id].status \in Final =>
                       rows'[id] = rows[id] \/ rows'[id].status = "lost"
<1>1. SafetyInv /\ [Next]_vars => [Kept]_vars
  <2> SUFFICES ASSUME SafetyInv, Next, NEW id \in Requests, rows[id].status \in Final
               PROVE  rows'[id] = rows[id] \/ rows'[id].status = "lost"
    OBVIOUS
  <2>t. TypeOK
    BY DEF SafetyInv
  <2>1. CASE \E i \in Requests, cmd \in Commands : HandleCreateRequest(i, cmd)
    BY <2>1 DEF HandleCreateRequest, Final
  <2>2. CASE \E h \in Handlers : HandlerStep(h)
    BY <2>2, HandlerRowStep DEF RowStep, Settles, Final
  <2>3. CASE PerformCleanup
    BY <2>3, <2>t, CleanupRowStep DEF Settles, Final
  <2>4. CASE MainExits \/ SignalExits \/ Crash
    BY <2>4, <2>t, GoDownRowStep DEF MainExits, SignalExits, Crash, Final
  <2>5. CASE UNCHANGED rows
    BY <2>5
  <2>6. QED BY <2>1, <2>2, <2>3, <2>4, <2>5 DEF Next, Receive, Tick, Stop, CloseStore, Restart
<1>2. QED BY <1>1, SafetyInvHolds, PTL DEF Spec, FinalStatusesAreFinal

\* A command is started only if the allowlist in force at that moment matches it.
THEOREM RunsOnlyAllowlistedHolds == Spec => RunsOnlyAllowlisted
<1> DEFINE Listed == \A id \in Requests : runs'[id] # runs[id] => rows[id].command \in allow
<1>1. SafetyInv /\ [Next]_vars => [Listed]_vars
  <2> SUFFICES ASSUME SafetyInv, Next, NEW id \in Requests, runs'[id] # runs[id]
               PROVE  rows[id].command \in allow
    OBVIOUS
  <2>1. PICK h \in Handlers : V1Execute(h)
    BY DEF Next, HandleCreateRequest, Receive, HandlerStep, V1Get, V1Check, V1Expire, V1Stamp,
           V1Update, V1ExecuteReturns, V1Record, Tick, PerformCleanup, Stop, CloseStore,
           MainExits, SignalExits, Crash, Restart, GoDown
  <2>2. call[h].pc = "exec" /\ call[h].id = id /\ call[h].req.command \in allow
    BY <2>1 DEF V1Execute, SafetyInv, TypeOK
  <2>3. QED BY <2>2 DEF SafetyInv, SnapshotsAgree
<1>2. QED BY <1>1, SafetyInvHolds, PTL DEF Spec, RunsOnlyAllowlisted

-----------------------------------------------------------------------------
(* The daemon implements the lifecycle of a request *)

\* The statuses the table shows, as the abstract state.
StatusOf == [id \in Requests |-> rows[id].status]

\* Settling or recording one row is Decide, Expire or Finish of its request.
LEMMA RowStepRefines ==
    ASSUME TypeOK, NEW id \in Requests, RowStep(id), UNCHANGED runs,
           \A o \in Requests \ {id} : rows'[o] = rows[o]
    PROVE  Lifecycle!Next \/ (StatusOf' = StatusOf /\ UNCHANGED runs)
<1>1. CASE rows'[id] = rows[id]
  BY <1>1 DEF StatusOf
<1>2. CASE Settles(id, "approved") \/ Settles(id, "denied")
  <2>1. PICK d \in {"approved", "denied"} : StatusOf' = [StatusOf EXCEPT ![id] = d]
    BY <1>2 DEF Settles, StatusOf
  <2>2. Lifecycle!Decide(id)
    BY <1>2, <2>1 DEF Lifecycle!Decide, Settles, StatusOf
  <2>3. QED BY <2>2 DEF Lifecycle!Next
<1>3. CASE Settles(id, "expired")
  <2>1. Lifecycle!Expire({id})
    BY <1>3 DEF Lifecycle!Expire, Settles
  <2>2. QED BY <2>1 DEF Lifecycle!Next
<1>4. CASE /\ rows[id].status = "approved"
           /\ rows'[id].status \in {"completed", "failed"}
           /\ rows'[id].status = "completed" => runs[id] = 1
  <2>1. StatusOf' = [StatusOf EXCEPT ![id] = rows'[id].status]
    BY DEF StatusOf
  <2>2. Lifecycle!Finish(id)
    BY <1>4, <2>1 DEF Lifecycle!Finish, StatusOf
  <2>3. QED BY <2>2 DEF Lifecycle!Next
<1>5. QED BY <1>1, <1>2, <1>3, <1>4 DEF RowStep

\* Every step of a handler is a lifecycle step or invisible.
LEMMA HandlerRefines ==
    ASSUME SafetyInv, NEW h \in Handlers, HandlerStep(h)
    PROVE  Lifecycle!Next \/ (StatusOf' = StatusOf /\ UNCHANGED runs)
<1> DEFINE id == call[h].id
<1>1. /\ \A o \in Requests \ {id} : rows'[o] = rows[o]
      /\ id \in Requests /\ RowStep(id)
      /\ \/ UNCHANGED runs
         \/ UNCHANGED rows /\ V1Execute(h) /\ runs' # runs
  BY HandlerRowStep
<1>2. CASE UNCHANGED runs
  BY <1>1, <1>2, RowStepRefines DEF SafetyInv
<1>3. CASE UNCHANGED rows /\ V1Execute(h) /\ runs' # runs
  <2>1. call[h].pc = "exec" /\ runs' = [runs EXCEPT ![id] = @ + 1]
    BY <1>3 DEF V1Execute
  <2>2. rows[id].status = "approved" /\ runs[id] = 0
    BY <2>1 DEF SafetyInv, ExecutorOwnsRequest, ResultsAreReal, Executing
  <2>3. runs' = [runs EXCEPT ![id] = 1] /\ StatusOf' = StatusOf
    BY <1>3, <2>1, <2>2 DEF StatusOf, SafetyInv, TypeOK
  <2>4. Lifecycle!Run(id)
    BY <1>1, <2>2, <2>3 DEF Lifecycle!Run, StatusOf
  <2>5. QED BY <1>1, <2>4 DEF Lifecycle!Next
<1>4. QED BY <1>1, <1>2, <1>3

\* Every step of the daemon is a lifecycle step or invisible.
LEMMA NextRefines ==
    ASSUME SafetyInv, [Next]_vars
    PROVE  Lifecycle!Next \/ (StatusOf' = StatusOf /\ UNCHANGED runs)
<1>t. TypeOK
  BY DEF SafetyInv
<1>1. CASE \E id \in Requests, cmd \in Commands : HandleCreateRequest(id, cmd)
  <2>1. PICK id \in Requests, cmd \in Commands : HandleCreateRequest(id, cmd)
    BY <1>1
  <2>2. Lifecycle!Submit(id)
    BY <2>1, <1>t DEF HandleCreateRequest, NewElevationRequest, Lifecycle!Submit, TypeOK
  <2>3. QED BY <2>2 DEF Lifecycle!Next
<1>2. CASE \E h \in Handlers : HandlerStep(h)
  BY <1>2, HandlerRefines
<1>3. CASE PerformCleanup
  <2>1. \A id \in Requests : rows'[id] = rows[id] \/ Settles(id, "expired")
    BY <1>3, <1>t, CleanupRowStep
  <2>2. PICK S \in SUBSET Requests : S = {id \in Requests : Settles(id, "expired")}
    OBVIOUS
  <2>3. Lifecycle!Expire(S)
    BY <1>3, <2>1, <2>2 DEF PerformCleanup, Lifecycle!Expire, Settles
  <2>4. QED BY <2>3 DEF Lifecycle!Next
<1>4. CASE MainExits \/ SignalExits \/ Crash
  <2>1. GoDown /\ UNCHANGED runs
    BY <1>4 DEF MainExits, SignalExits, Crash, GoDown
  <2>2. CASE Persistent
    BY <1>t, <2>1, <2>2, GoDownRowStep DEF StatusOf
  <2>3. CASE ~Persistent
    <3>1. \A id \in Requests : rows'[id].status = IF rows[id].status = "none" THEN "none" ELSE "lost"
      BY <1>t, <2>1, <2>3, GoDownRowStep
    <3>2. Lifecycle!Vanish
      BY <2>1, <2>3, <3>1 DEF Lifecycle!Vanish
    <3>3. QED BY <3>2 DEF Lifecycle!Next
  <2>4. QED BY <2>2, <2>3
<1>5. CASE UNCHANGED <<rows, runs>>
  BY <1>5 DEF StatusOf
<1>6. QED BY <1>1, <1>2, <1>3, <1>4, <1>5 DEF Next, Receive, Tick, Stop, CloseStore, Restart, vars

\* The daemon, with its racing handlers, cleanup, crashes and restarts, implements
\* the lifecycle of a single request.
THEOREM ImplementsLifecycleHolds == Spec => ImplementsLifecycle
<1>1. Init => Lifecycle!Init
  BY DEF Init, Lifecycle!Init, NoRow
<1>2. SafetyInv /\ [Next]_vars => [Lifecycle!Next]_(Lifecycle!lifecycleVars)
  BY NextRefines DEF StatusOf, Lifecycle!lifecycleVars
<1>3. QED BY <1>1, <1>2, SafetyInvHolds, PTL DEF Spec, ImplementsLifecycle, Lifecycle!Spec

-----------------------------------------------------------------------------
(* Who decided, and when *)

\* What a handler has established when it reaches its statement.
HandlerKnows ==
    \A h \in Handlers :
        /\ call[h].pc \in {"stamp", "update"} => call[h].user \in Users
        /\ call[h].pc = "update" => call[h].stamp \in Nat
        /\ call[h].pc = "expire" => now > call[h].req.expiresAt

\* Every step keeps what the handlers have established.
LEMMA KnowsStep == TypeOK /\ HandlerKnows /\ [Next]_vars => HandlerKnows'
<1> SUFFICES ASSUME TypeOK, HandlerKnows, [Next]_vars PROVE HandlerKnows'
  OBVIOUS
<1>t. /\ call \in [Handlers -> Call] /\ now \in Nat
      /\ \A h \in Handlers : call[h] \in Call /\ call[h].req.expiresAt \in Nat
  BY DEF TypeOK, CallsOK, Call, Row
<1>g. ASSUME NEW h \in Handlers, NEW c, Become(h, c), UNCHANGED now,
             c.pc \in {"stamp", "update"} => c.user \in Users,
             c.pc = "update" => c.stamp \in Nat,
             c.pc = "expire" => now > c.req.expiresAt
      PROVE  HandlerKnows'
  BY <1>g, <1>t DEF HandlerKnows, Become
<1>r. ASSUME NEW h \in Handlers, Reply(h), UNCHANGED now PROVE HandlerKnows'
  BY <1>r, <1>g DEF Reply, IdleCall
<1>n. ASSUME NEW h \in Handlers, NEW pc \in {"exec", "running"}, Goto(h, pc), UNCHANGED now
      PROVE  HandlerKnows'
  <2>1. [call[h] EXCEPT !.pc = pc].pc = pc
    BY <1>t DEF Call
  <2> QED
    BY <1>n, <1>g, <2>1 DEF Goto
<1>1. ASSUME NEW h \in Handlers, NEW op, NEW id, NEW user, NEW token,
             Receive(h, op, id, user, token)
      PROVE  HandlerKnows'
  <2> DEFINE c == [IdleCall EXCEPT !.pc = "get", !.op = op, !.id = id, !.user = user,
                                   !.token = token]
  <2>1. c.pc = "get"
    BY DEF IdleCall
  <2> HIDE DEF c
  <2> QED
    BY <1>1, <1>g, <2>1 DEF Receive, c
<1>2. ASSUME NEW h \in Handlers, V1Get(h)
      PROVE  HandlerKnows'
  <2> DEFINE c == [call[h] EXCEPT !.pc = "check", !.req = rows[call[h].id]]
  <2>1. c.pc = "check"
    BY <1>t DEF Call
  <2>2. Reply(h) \/ Become(h, c)
    BY <1>2 DEF V1Get
  <2> HIDE DEF c
  <2> QED
    BY <1>2, <1>g, <1>r, <2>1, <2>2 DEF V1Get
<1>3. ASSUME NEW h \in Handlers, V1Check(h)
      PROVE  HandlerKnows'
  <2>1. CASE Goto(h, "expire") /\ now > call[h].req.expiresAt
    <3> DEFINE c == [call[h] EXCEPT !.pc = "expire"]
    <3>1. c.pc = "expire" /\ c.req = call[h].req
      BY <1>t DEF Call
    <3> HIDE DEF c
    <3> QED
      BY <1>3, <1>g, <2>1, <3>1 DEF V1Check, Goto, c
  <2>2. CASE Goto(h, "stamp") /\ BodyComplete(call[h])
    <3> DEFINE c == [call[h] EXCEPT !.pc = "stamp"]
    <3>1. c.pc = "stamp" /\ c.user = call[h].user /\ call[h].user \in Users
      BY <1>t, <2>2 DEF Call, BodyComplete
    <3> HIDE DEF c
    <3> QED
      BY <1>3, <1>g, <2>2, <3>1 DEF V1Check, Goto, c
  <2>3. Reply(h) \/ (Goto(h, "expire") /\ now > call[h].req.expiresAt)
        \/ (Goto(h, "stamp") /\ BodyComplete(call[h]))
    BY <1>3 DEF V1Check
  <2> QED
    BY <1>3, <1>r, <2>1, <2>2, <2>3 DEF V1Check
<1>4. ASSUME NEW h \in Handlers, V1Stamp(h)
      PROVE  HandlerKnows'
  <2> DEFINE c == [call[h] EXCEPT !.pc = "update", !.stamp = now]
  <2>1. c.pc = "update" /\ c.stamp = now /\ c.user = call[h].user /\ call[h].user \in Users
    BY <1>4, <1>t DEF Call, V1Stamp, HandlerKnows
  <2> HIDE DEF c
  <2> QED
    BY <1>4, <1>g, <1>t, <2>1 DEF V1Stamp, c
<1>5. ASSUME NEW h \in Handlers, V1Expire(h) \/ V1Update(h) \/ V1Record(h)
      PROVE  HandlerKnows'
  <2>1. (Reply(h) \/ Goto(h, "exec")) /\ UNCHANGED now
    BY <1>5 DEF V1Expire, V1Update, V1Record
  <2> QED
    BY <1>n, <1>r, <2>1
<1>6. ASSUME NEW h \in Handlers, V1Execute(h) \/ V1ExecuteReturns(h)
      PROVE  HandlerKnows'
  <2>1. UNCHANGED now
    BY <1>6 DEF V1Execute, V1ExecuteReturns
  <2>2. ASSUME NEW ok, Become(h, [call[h] EXCEPT !.pc = "record", !.ok = ok])
        PROVE  HandlerKnows'
    <3>1. [call[h] EXCEPT !.pc = "record", !.ok = ok].pc = "record"
      BY <1>t DEF Call
    <3> QED
      BY <1>g, <2>1, <2>2, <3>1
  <2> QED
    BY <1>6, <1>n, <2>1, <2>2 DEF V1Execute, V1ExecuteReturns
<1>7. CASE Tick
  BY <1>7, <1>t DEF Tick, HandlerKnows
<1>8. CASE MainExits \/ SignalExits \/ Crash
  BY <1>8 DEF MainExits, SignalExits, Crash, GoDown, HandlerKnows, IdleCall
<1>9. CASE UNCHANGED <<call, now>>
  BY <1>9 DEF HandlerKnows
<1> QED
  BY <1>1, <1>2, <1>3, <1>4, <1>5, <1>6, <1>7, <1>8, <1>9
     DEF Next, HandlerStep, HandleCreateRequest, PerformCleanup, Stop, CloseStore, Restart, vars

\* A row becomes decided by somebody, at a time whose text sorts before the deadline's.
Decided(id) ==
    /\ rows'[id].expiresAt = rows[id].expiresAt
    /\ rows'[id].approvedBy \in Users
    /\ rows'[id].approvedAt \in Nat
    /\ TextAfter(rows[id].expiresAt, rows'[id].approvedAt)

\* A row expires when a handler found its deadline past, or the cleanup did.
Expired(id) ==
    /\ rows'[id].expiresAt = rows[id].expiresAt
    /\ now > rows[id].expiresAt \/ ~TextAfter(rows[id].expiresAt, now)

\* No row is decided or expired in any other way.
LEMMA DecisionStep ==
    ASSUME SafetyInv, HandlerKnows, [Next]_vars, NEW id \in Requests
    PROVE  \/ rows'[id] = rows[id]
           \/ rows'[id].status \notin {"approved", "denied", "expired"}
           \/ rows'[id].status \in {"approved", "denied"} /\ Decided(id)
           \/ rows'[id].status = "expired" /\ Expired(id)
<1> DEFINE Goal == \/ rows'[id] = rows[id]
                   \/ rows'[id].status \notin {"approved", "denied", "expired"}
                   \/ rows'[id].status \in {"approved", "denied"} /\ Decided(id)
                   \/ rows'[id].status = "expired" /\ Expired(id)
<1>t. TypeOK /\ SnapshotsAgree
  BY DEF SafetyInv
<1>1. ASSUME NEW i \in Requests, NEW cmd \in Commands, HandleCreateRequest(i, cmd)
      PROVE  Goal
  BY <1>1, <1>t DEF HandleCreateRequest, NewElevationRequest, TypeOK
<1>2. ASSUME NEW h \in Handlers, V1Expire(h)
      PROVE  Goal
  <2> DEFINE i == call[h].id
  <2>1. i \in Requests /\ now > rows[i].expiresAt
    BY <1>2, <1>t DEF V1Expire, HandlerKnows, SnapshotsAgree, TypeOK, CallsOK
  <2>2. CASE UNCHANGED rows
    BY <2>2
  <2>3. CASE rows' = [rows EXCEPT ![i] = Moved(@, "expired", None, now)]
    BY <1>t, <2>1, <2>3 DEF Moved, Expired, TypeOK, Row
  <2> QED
    BY <1>2, <2>2, <2>3 DEF V1Expire
<1>3. ASSUME NEW h \in Handlers, V1Update(h)
      PROVE  Goal
  <2> DEFINE c == call[h]
             new == Target(c.op)
  <2>1. /\ c.id \in Requests /\ new \in {"approved", "denied"}
        /\ c.user \in Users /\ c.stamp \in Nat
    BY <1>3, <1>t DEF V1Update, HandlerKnows, TypeOK, CallsOK, Target
  <2>2. CASE UNCHANGED rows
    BY <2>2
  <2>3. CASE /\ Matches(rows[c.id], "pending", new, c.stamp)
             /\ rows' = [rows EXCEPT ![c.id] = Moved(@, new, c.user, c.stamp)]
    <3> HIDE DEF c, new
    <3>1. TextAfter(rows[c.id].expiresAt, c.stamp) /\ rows[c.id] \in Row
      BY <1>t, <2>1, <2>3 DEF Matches, TypeOK
    <3> QED
      BY <1>t, <2>1, <2>3, <3>1 DEF Moved, Decided, TypeOK, Row
  <2> QED
    BY <1>3, <2>2, <2>3 DEF V1Update
<1>4. ASSUME NEW h \in Handlers, V1Record(h)
      PROVE  Goal
  <2> DEFINE i == call[h].id
             new == IF call[h].ok THEN "completed" ELSE "failed"
  <2>1. i \in Requests
    BY <1>4, <1>t DEF V1Record, TypeOK, CallsOK
  <2>2. CASE UNCHANGED rows
    BY <2>2
  <2>3. CASE rows' = [rows EXCEPT ![i] = Updated(@, new)]
    <3>1. Updated(rows[i], new).status = new
      BY <1>t, <2>1 DEF Updated, TypeOK, Row
    <3> HIDE DEF i
    <3> QED
      BY <1>t, <2>1, <2>3, <3>1 DEF TypeOK
  <2> QED
    BY <1>4, <2>2, <2>3 DEF V1Record
<1>5. CASE PerformCleanup
  BY <1>5, <1>t DEF PerformCleanup, Overdue, Moved, Expired, TypeOK, Row
<1>6. CASE MainExits \/ SignalExits \/ Crash
  BY <1>6, <1>t DEF MainExits, SignalExits, Crash, GoDown, NoRow, TypeOK
<1>7. CASE UNCHANGED rows
  BY <1>7
<1> QED
  BY <1>1, <1>2, <1>3, <1>4, <1>5, <1>6, <1>7
     DEF Next, HandlerStep, Receive, V1Get, V1Check, V1Stamp, V1Execute, V1ExecuteReturns,
         Tick, Stop, CloseStore, Restart, vars

\* The safety invariant and what the handlers know hold together.
LEMMA KnowledgeHolds == Spec => [](SafetyInv /\ HandlerKnows)
<1>1. Init => HandlerKnows
  BY DEF Init, HandlerKnows, IdleCall
<1>2. SafetyInv => TypeOK
  BY DEF SafetyInv
<1> QED
  BY <1>1, <1>2, KnowsStep, SafetyInvHolds, PTL DEF Spec

\* While a decision stands in the table, so do the person and the time of it, on any clock.
THEOREM DeciderRecordedHolds == Spec => []DeciderRecorded
<1>1. Init => DeciderRecorded
  BY DEF Init, DeciderRecorded, NoRow
<1>2. SafetyInv /\ HandlerKnows /\ DeciderRecorded /\ [Next]_vars => DeciderRecorded'
  BY DecisionStep DEF DeciderRecorded, Decided, NoTime
<1> QED
  BY <1>1, <1>2, KnowledgeHolds, PTL DEF Spec

\* An earlier instant whose text sorts later is less than a second earlier.
LEMMA TextErrs ==
    ASSUME NEW a \in Nat, NEW b \in Nat
    PROVE  /\ TextAfter(a, b) => b < a + Second
           /\ ~TextAfter(a, b) => a < b + Second
<1>1. ASSUME NEW x \in Nat, NEW y \in Nat, Extends(y, x)
      PROVE  y < x + Second
  BY <1>1, UnitsAssumption DEF Extends
<1>2. Second \in Nat \ {0}
  BY UnitsAssumption
<1>3. CASE Extends(b, a)
  BY <1>1, <1>2, <1>3 DEF TextAfter, Extends
<1>4. CASE ~Extends(b, a)
  BY <1>1, <1>2, <1>4 DEF TextAfter
<1> QED
  BY <1>3, <1>4

\* On every clock, a decision or an expiry is off its deadline by less than a second.
THEOREM TextErrsWithinTheSecondHolds == Spec => []TextErrsWithinTheSecond
<1>1. Init => TextErrsWithinTheSecond
  <2> SUFFICES ASSUME Init, NEW id \in Requests
               PROVE  rows[id].status \notin {"approved", "denied", "expired"}
    BY Zenon DEF TextErrsWithinTheSecond
  <2>1. rows[id] = NoRow("none")
    BY DEF Init
  <2> QED
    BY <2>1 DEF NoRow
<1>2. SafetyInv /\ HandlerKnows /\ TextErrsWithinTheSecond /\ [Next]_vars
        => TextErrsWithinTheSecond'
  <2> SUFFICES ASSUME SafetyInv, HandlerKnows, TextErrsWithinTheSecond, [Next]_vars,
                      NEW id \in Requests
               PROVE  /\ rows'[id].status \in {"approved", "denied"} =>
                          rows'[id].approvedAt < rows'[id].expiresAt + Second
                      /\ rows'[id].status = "expired" =>
                          rows'[id].expiresAt < now' + Second
    BY DEF TextErrsWithinTheSecond
  <2>1. rows[id].expiresAt \in Nat /\ now \in Nat /\ Second \in Nat \ {0}
    BY UnitsAssumption DEF SafetyInv, TypeOK, Row
  <2>2. now' \in {now, now + 1}
    BY DEF Next, HandlerStep, HandleCreateRequest, Receive, V1Get, V1Check, V1Expire, V1Stamp,
           V1Update, V1Execute, V1ExecuteReturns, V1Record, Tick, PerformCleanup, Stop,
           CloseStore, MainExits, SignalExits, Crash, GoDown, Restart, vars
  <2>3. CASE rows'[id] = rows[id]
    BY <2>1, <2>2, <2>3 DEF TextErrsWithinTheSecond
  <2>4. CASE rows'[id].status \in {"approved", "denied"} /\ Decided(id)
    BY <2>1, <2>4, TextErrs DEF Decided
  <2>5. CASE rows'[id].status = "expired" /\ Expired(id)
    <3>1. rows[id].expiresAt < now + Second
      BY <2>1, <2>5, TextErrs DEF Expired
    <3> QED
      BY <2>1, <2>2, <2>5, <3>1 DEF Expired
  <2>6. CASE rows'[id].status \notin {"approved", "denied", "expired"}
    BY <2>6
  <2> QED
    BY <2>3, <2>4, <2>5, <2>6, DecisionStep
<1> QED
  BY <1>1, <1>2, KnowledgeHolds, PTL DEF Spec
=============================================================================
