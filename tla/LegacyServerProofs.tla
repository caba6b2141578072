--------------------------- MODULE LegacyServerProofs ---------------------------
(***************************************************************************)
(* Theorems about the legacy server, for any number of requests and of     *)
(* goroutines: the one RWMutex makes the table agree with the commands     *)
(* that ran and the lists snapshots, and the server implements the         *)
(* lifecycle of a request.                                                 *)
(***************************************************************************)
EXTENDS LegacyServer, TLAPS

-----------------------------------------------------------------------------
(* The inductive invariant *)

\* What a handler may rely on about Server.mu at each of its stages.
LockInv ==
    \A g \in Goroutines :
        /\ call[g].pc = "act" => mu.writer = g
        /\ call[g].pc \in {"running", "record"} => M!HoldsWrite(mu, g) /\ call[g].op = "approve"
        /\ call[g].pc = "list" => g \in mu.readers \cup mu.parked
        /\ call[g].pc = "encode" => M!HoldsRead(mu, g)

\* A request that is being created is not in the table and nobody else creates it.
CreateInv ==
    \A g \in Goroutines : call[g].op = "create" =>
        /\ call[g].pc \in {"lock", "act"} => queue[call[g].id] = NoRow
        /\ \A h \in Goroutines : call[h].op = "create" /\ h # g => call[h].id # call[g].id

PendingRow == [status |-> "pending", result |-> FALSE]

\* A request whose command runs still looks pending, and its command was not started before.
ExecInv ==
    \A g \in Goroutines :
        /\ call[g].pc = "running" => queue[call[g].id] = PendingRow /\ runs[call[g].id] = 0
        /\ call[g].pc = "record" =>
              /\ queue[call[g].id] = PendingRow
              /\ runs[call[g].id] \in {0, 1}
              /\ runs[call[g].id] = 1 => call[g].id \in Allowed

\* A handler that waits for the lock or holds it for writing knows its request.
KnowsInv ==
    \A g \in Goroutines : call[g].pc \in {"lock", "act", "running", "record"} =>
        call[g].id \in Requests

Inv == /\ TypeOK /\ LockInv /\ KnowsInv /\ CreateInv /\ ExecInv
       /\ TableTellsRuns /\ ListIsSnapshot

-----------------------------------------------------------------------------
(* Types *)

\* The calls of sync.RWMutex keep its shape.
LEMMA MutexType ==
    ASSUME NEW m \in M!Mutex, NEW g \in Goroutines
    PROVE  /\ M!AfterRLock(m, g) \in M!Mutex
           /\ M!AfterRUnlock(m, g) \in M!Mutex
           /\ M!AfterAnnounce(m, g) \in M!Mutex
           /\ M!AfterUnlock(m) \in M!Mutex
BY DEF M!Mutex, M!AfterRLock, M!AfterRUnlock, M!AfterAnnounce, M!AfterUnlock

\* The locals of a handler keep their shape whatever stage it goes to.
LEMMA GotoType ==
    ASSUME NEW c \in Call, NEW pc \in PC
    PROVE  [c EXCEPT !.pc = pc] \in Call
BY DEF Call

\* A goroutine without a call.
LEMMA IdleType == IdleCall \in Call
BY DEF IdleCall, Call, PC, Row, NoRow

\* Every step keeps the shapes.
LEMMA TypeStep == TypeOK /\ [Next]_legacyVars => TypeOK'
<1> SUFFICES ASSUME TypeOK, [Next]_legacyVars PROVE TypeOK'
  OBVIOUS
<1> USE DEF TypeOK
<1>t. ASSUME NEW g \in Goroutines, NEW c \in Call, Become(g, c)
      PROVE  call' \in [Goroutines -> Call]
  BY <1>t DEF Become
<1>u. ASSUME NEW g \in Goroutines, NEW pc \in PC, Goto(g, pc)
      PROVE  call' \in [Goroutines -> Call]
  BY <1>u, GotoType, <1>t DEF Goto
<1>1. ASSUME NEW g \in Goroutines, NEW id \in Requests, HandleRequest(g, id)
      PROVE  TypeOK'
  <2>1. [IdleCall EXCEPT !.pc = "lock", !.op = "create", !.id = id] \in Call
    BY IdleType DEF Call, PC, Ops
  <2> QED
    BY <1>1, <1>t, <2>1 DEF HandleRequest
<1>2. ASSUME NEW g \in Goroutines, NEW id \in Requests, NEW op \in {"approve", "deny"},
             HandleApproveOrDeny(g, op, id)
      PROVE  TypeOK'
  <2>1. [IdleCall EXCEPT !.pc = "lock", !.op = op, !.id = id] \in Call
    BY IdleType DEF Call, PC, Ops
  <2> QED
    BY <1>2, <1>t, <2>1 DEF HandleApproveOrDeny
<1>3. ASSUME NEW g \in Goroutines, HandleRequests(g)
      PROVE  TypeOK'
  <2>1. [IdleCall EXCEPT !.pc = "list", !.op = "list"] \in Call
    BY IdleType DEF Call, PC, Ops
  <2> QED
    BY <1>3, <1>t, <2>1, MutexType DEF HandleRequests
<1>4. ASSUME NEW g \in Goroutines, Lock(g)
      PROVE  TypeOK'
  BY <1>4, <1>u, MutexType DEF Lock, PC
<1>5. ASSUME NEW g \in Goroutines, Insert(g)
      PROVE  TypeOK'
  BY <1>5, <1>u, MutexType DEF Insert, PC, Row
<1>6. ASSUME NEW g \in Goroutines, ReplyCreated(g) \/ Refuse(g)
      PROVE  TypeOK'
  BY <1>6, <1>t, IdleType, MutexType DEF ReplyCreated, Refuse
<1>7. ASSUME NEW g \in Goroutines, Deny(g)
      PROVE  TypeOK'
  BY <1>7, <1>t, IdleType, MutexType DEF Deny, Row
<1>8. ASSUME NEW g \in Goroutines, Approve(g) \/ Execute(g)
      PROVE  TypeOK'
  BY <1>8, <1>u DEF Approve, Execute, PC
<1>9. ASSUME NEW g \in Goroutines, Record(g)
      PROVE  TypeOK'
  BY <1>9, <1>t, IdleType, MutexType DEF Record, Row
<1>10. ASSUME NEW g \in Goroutines, ReadList(g)
       PROVE  TypeOK'
  <2>1. [call[g] EXCEPT !.pc = "encode", !.seen = queue] \in Call
    BY DEF Call, PC
  <2> QED
    BY <1>10, <1>t, <2>1 DEF ReadList
<1>11. ASSUME NEW g \in Goroutines, EncodeList(g)
       PROVE  TypeOK'
  BY <1>11, <1>t, IdleType, MutexType DEF EncodeList
<1>12. CASE Stop \/ UNCHANGED legacyVars
  BY <1>12 DEF Stop, legacyVars
<1> QED
  BY <1>1, <1>2, <1>3, <1>4, <1>5, <1>6, <1>7, <1>8, <1>9, <1>10, <1>11, <1>12
     DEF Next, HandlerStep

\* The variables have their shape, for any number of requests and goroutines.
THEOREM TypeCorrect == Spec => []TypeOK
<1>1. Init => TypeOK
  BY IdleType DEF Init, TypeOK, Row, NoRow, M!FreeMutex, M!Mutex
<1> QED
  BY <1>1, TypeStep, PTL DEF Spec

-----------------------------------------------------------------------------
(* The lock *)

\* A step of goroutine g leaves the calls of the others alone.
LEMMA OthersKeepCalls ==
    ASSUME NEW g \in Goroutines, NEW h \in Goroutines, h # g, TypeOK,
           \/ \E c : Become(g, c)
           \/ \E pc : Goto(g, pc)
    PROVE  call'[h] = call[h]
BY DEF Become, Goto, TypeOK

\* While one goroutine writes, nobody else holds the lock in any way.
LEMMA WriterIsAlone ==
    ASSUME LockInv, NEW g \in Goroutines, NEW h \in Goroutines, h # g, M!HoldsWrite(mu, g)
    PROVE  call[h].pc \notin {"act", "running", "record", "encode"}
BY DEF LockInv, M!HoldsWrite, M!HoldsRead

\* A handler that waits for readers or executes has its lock until it unlocks.
LEMMA LockStep == TypeOK /\ LockInv /\ [Next]_legacyVars => LockInv'
<1> SUFFICES ASSUME TypeOK, LockInv, [Next]_legacyVars PROVE LockInv'
  OBVIOUS
<1>0. None \notin Goroutines
  BY LegacyAssumption
<1> USE DEF TypeOK, LockInv, Become, Goto, M!HoldsWrite, M!HoldsRead, M!Mutex, Call
<1>1. ASSUME NEW g \in Goroutines, NEW id \in Requests, HandleRequest(g, id)
      PROVE  LockInv'
  BY <1>1 DEF HandleRequest, IdleCall
<1>2. ASSUME NEW g \in Goroutines, NEW id \in Requests, NEW op \in {"approve", "deny"},
             HandleApproveOrDeny(g, op, id)
      PROVE  LockInv'
  BY <1>2 DEF HandleApproveOrDeny, IdleCall
<1>3. ASSUME NEW g \in Goroutines, HandleRequests(g)
      PROVE  LockInv'
  BY <1>0, <1>3 DEF HandleRequests, IdleCall, M!AfterRLock
<1>4. ASSUME NEW g \in Goroutines, Lock(g)
      PROVE  LockInv'
  BY <1>0, <1>4 DEF Lock, M!MayAnnounce, M!AfterAnnounce
<1>5. ASSUME NEW g \in Goroutines, Insert(g)
      PROVE  LockInv'
  BY <1>0, <1>5 DEF Insert, M!AfterUnlock
<1>6. ASSUME NEW g \in Goroutines, ReplyCreated(g)
      PROVE  LockInv'
  BY <1>6 DEF ReplyCreated, IdleCall
<1>7. ASSUME NEW g \in Goroutines, Refuse(g) \/ Deny(g)
      PROVE  LockInv'
  <2>1. M!HoldsWrite(mu, g) /\ mu' = M!AfterUnlock(mu) /\ Become(g, IdleCall)
    BY <1>7 DEF Refuse, Deny
  <2> QED
    BY <1>0, <2>1 DEF IdleCall, M!AfterUnlock
<1>8. ASSUME NEW g \in Goroutines, Approve(g)
      PROVE  LockInv'
  BY <1>8 DEF Approve
<1>9. ASSUME NEW g \in Goroutines, Execute(g)
      PROVE  LockInv'
  BY <1>9 DEF Execute
<1>10. ASSUME NEW g \in Goroutines, Record(g)
       PROVE  LockInv'
  BY <1>0, <1>10 DEF Record, IdleCall, M!AfterUnlock
<1>11. ASSUME NEW g \in Goroutines, ReadList(g)
       PROVE  LockInv'
  BY <1>11 DEF ReadList
<1>12. ASSUME NEW g \in Goroutines, EncodeList(g)
       PROVE  LockInv'
  BY <1>12 DEF EncodeList, IdleCall, M!AfterRUnlock
<1>13. CASE Stop \/ UNCHANGED legacyVars
  BY <1>13 DEF Stop, legacyVars
<1> QED
  BY <1>1, <1>2, <1>3, <1>4, <1>5, <1>6, <1>7, <1>8, <1>9, <1>10, <1>11, <1>12, <1>13
     DEF Next, HandlerStep

-----------------------------------------------------------------------------
(* The requests of the handlers *)

\* A handler keeps its request from the wait for the lock to the reply.
LEMMA KnowsStep == TypeOK /\ KnowsInv /\ [Next]_legacyVars => KnowsInv'
<1> SUFFICES ASSUME TypeOK, KnowsInv, [Next]_legacyVars PROVE KnowsInv'
  OBVIOUS
<1> USE DEF TypeOK, KnowsInv, Become, Goto, Call
<1>1. ASSUME NEW g \in Goroutines, NEW id \in Requests, HandleRequest(g, id)
      PROVE  KnowsInv'
  BY <1>1 DEF HandleRequest, IdleCall
<1>2. ASSUME NEW g \in Goroutines, NEW id \in Requests, NEW op \in {"approve", "deny"},
             HandleApproveOrDeny(g, op, id)
      PROVE  KnowsInv'
  BY <1>2 DEF HandleApproveOrDeny, IdleCall
<1>3. ASSUME NEW g \in Goroutines, HandleRequests(g) \/ ReplyCreated(g) \/ Refuse(g)
                                   \/ Deny(g) \/ Record(g) \/ EncodeList(g)
      PROVE  KnowsInv'
  <2>1. IdleCall.pc = "idle" /\ [IdleCall EXCEPT !.pc = "list", !.op = "list"].pc = "list"
    BY DEF IdleCall
  <2>2. \E c : Become(g, c) /\ c.pc \in {"idle", "list"}
    BY <1>3, <2>1 DEF HandleRequests, ReplyCreated, Refuse, Deny, Record, EncodeList
  <2> QED
    BY <2>2
<1>4. ASSUME NEW g \in Goroutines, Lock(g) \/ Approve(g) \/ Execute(g)
      PROVE  KnowsInv'
  <2>1. call[g].pc \in {"lock", "act", "running"} /\ \E pc : Goto(g, pc)
    BY <1>4 DEF Lock, Approve, Execute
  <2> QED
    BY <2>1
<1>5. ASSUME NEW g \in Goroutines, Insert(g)
      PROVE  KnowsInv'
  BY <1>5 DEF Insert
<1>6. ASSUME NEW g \in Goroutines, ReadList(g)
      PROVE  KnowsInv'
  BY <1>6 DEF ReadList
<1>7. CASE Stop \/ UNCHANGED legacyVars
  BY <1>7 DEF Stop, legacyVars
<1> QED
  BY <1>1, <1>2, <1>3, <1>4, <1>5, <1>6, <1>7 DEF Next, HandlerStep

\* Only the three writers change the table, and they hold the lock alone.
LEMMA TableChangesUnderLock ==
    ASSUME TypeOK, LockInv, [Next]_legacyVars
    PROVE  \/ queue' = queue
           \/ \E g \in Goroutines : /\ M!HoldsWrite(mu, g)
                                    /\ Insert(g) \/ Deny(g) \/ Record(g)
<1>1. ASSUME NEW g \in Goroutines, Record(g)
      PROVE  M!HoldsWrite(mu, g)
  BY <1>1 DEF LockInv, Record
<1> QED
  BY <1>1 DEF Next, HandlerStep, legacyVars, HandleRequest, HandleApproveOrDeny,
     HandleRequests, Lock, Insert, ReplyCreated, Refuse, Deny, Approve, Execute,
     ReadList, EncodeList, Stop

\* No request enters the table while it is listed, none leaves it.
LEMMA SnapshotStep ==
    TypeOK /\ LockInv /\ ListIsSnapshot /\ [Next]_legacyVars => ListIsSnapshot'
<1> SUFFICES ASSUME TypeOK, LockInv, ListIsSnapshot, [Next]_legacyVars,
                    NEW h \in Goroutines, call'[h].pc = "encode"
             PROVE  call'[h].seen = queue'
  BY DEF ListIsSnapshot
<1>1. \/ call'[h] = call[h]
      \/ ReadList(h)
  <2> USE DEF Become, Goto, TypeOK
  <2>2. ASSUME NEW g \in Goroutines, NEW id \in Requests, HandleRequest(g, id)
        PROVE  call'[h] = call[h]
    BY <2>2 DEF HandleRequest, IdleCall
  <2>3. ASSUME NEW g \in Goroutines, NEW id \in Requests, NEW op \in {"approve", "deny"},
               HandleApproveOrDeny(g, op, id)
        PROVE  call'[h] = call[h]
    BY <2>3 DEF HandleApproveOrDeny, IdleCall
  <2>4. ASSUME NEW g \in Goroutines, HandleRequests(g)
        PROVE  call'[h] = call[h]
    BY <2>4 DEF HandleRequests, IdleCall
  <2>5. ASSUME NEW g \in Goroutines, Lock(g) \/ Insert(g) \/ Approve(g) \/ Execute(g)
        PROVE  call'[h] = call[h]
    <3>1. \E pc \in {"act", "reply", "running", "record"} : Goto(g, pc)
      BY <2>5 DEF Lock, Insert, Approve, Execute
    <3> QED
      BY <3>1 DEF Call
  <2>6. ASSUME NEW g \in Goroutines,
               ReplyCreated(g) \/ Refuse(g) \/ Deny(g) \/ Record(g) \/ EncodeList(g)
        PROVE  call'[h] = call[h]
    <3>1. Become(g, IdleCall)
      BY <2>6 DEF ReplyCreated, Refuse, Deny, Record, EncodeList
    <3> QED
      BY <3>1 DEF IdleCall
  <2>7. ASSUME NEW g \in Goroutines, ReadList(g), g # h
        PROVE  call'[h] = call[h]
    BY <2>7 DEF ReadList
  <2>8. CASE Stop \/ UNCHANGED legacyVars
    BY <2>8 DEF Stop, legacyVars
  <2> QED
    BY <2>2, <2>3, <2>4, <2>5, <2>6, <2>7, <2>8 DEF Next, HandlerStep
<1>2. CASE ReadList(h)
  BY <1>2 DEF ReadList, Become, TypeOK, Call
<1>3. CASE call'[h] = call[h]
  <2>1. call[h].pc = "encode" /\ call[h].seen = queue /\ M!HoldsRead(mu, h)
    BY <1>3 DEF ListIsSnapshot, LockInv
  <2>2. queue' = queue
    BY <2>1, TableChangesUnderLock DEF M!HoldsRead, M!HoldsWrite
  <2> QED
    BY <1>3, <2>1, <2>2
<1> QED
  BY <1>1, <1>2, <1>3

-----------------------------------------------------------------------------
(* One writer at a time *)

\* Nobody executes a command while the holder of the lock does something else.
LEMMA NobodyExecutes ==
    ASSUME LockInv, NEW g \in Goroutines, M!HoldsWrite(mu, g), call[g].pc = "act"
    PROVE  \A h \in Goroutines : call[h].pc \notin {"running", "record"}
BY WriterIsAlone

\* What the three writers do to the table, seen from every other call.
LEMMA WriterFrame ==
    ASSUME TypeOK, LockInv, KnowsInv, CreateInv, ExecInv, NEW g \in Goroutines,
           Insert(g) \/ Deny(g) \/ Record(g)
    PROVE  /\ M!HoldsWrite(mu, g)
           /\ runs' = runs
           /\ queue' = [queue EXCEPT ![call[g].id] = queue'[call[g].id]]
           /\ \A h \in Goroutines : h # g => call'[h] = call[h]
           /\ \A h \in Goroutines :
                 h # g /\ call[h].op = "create" /\ call[h].pc \in {"lock", "act"}
                 => call[h].id # call[g].id
<1> USE DEF TypeOK, LockInv, KnowsInv
<1>1. CASE Insert(g)
  <2>1. queue' = [queue EXCEPT ![call[g].id] = queue'[call[g].id]]
    BY <1>1 DEF Insert
  <2> QED
    BY <1>1, <2>1, OthersKeepCalls DEF Insert, CreateInv
<1>2. CASE Deny(g)
  <2>1. queue' = [queue EXCEPT ![call[g].id] = queue'[call[g].id]]
    BY <1>2 DEF Deny
  <2> QED
    BY <1>2, <2>1, OthersKeepCalls DEF Deny, CreateInv, NoRow
<1>3. CASE Record(g)
  <2>1. queue' = [queue EXCEPT ![call[g].id] = queue'[call[g].id]]
    BY <1>3 DEF Record
  <2>2. queue[call[g].id].status = "pending"
    BY <1>3 DEF Record, ExecInv, PendingRow
  <2> QED
    BY <1>3, <2>1, <2>2, OthersKeepCalls DEF Record, CreateInv, NoRow
<1> QED
  BY <1>1, <1>2, <1>3

\* An identifier that is being inserted stays fresh and private.
LEMMA CreateStep ==
    TypeOK /\ LockInv /\ KnowsInv /\ CreateInv /\ ExecInv /\ [Next]_legacyVars => CreateInv'
<1> SUFFICES ASSUME TypeOK, LockInv, KnowsInv, CreateInv, ExecInv, [Next]_legacyVars
             PROVE  CreateInv'
  OBVIOUS
<1> USE DEF TypeOK, CreateInv, Become, Goto, Call
<1>1. ASSUME NEW g \in Goroutines, NEW id \in Requests, HandleRequest(g, id)
      PROVE  CreateInv'
  BY <1>1 DEF HandleRequest, IdleCall
<1>2. ASSUME NEW g \in Goroutines, NEW id \in Requests, NEW op \in {"approve", "deny"},
             HandleApproveOrDeny(g, op, id)
      PROVE  CreateInv'
  BY <1>2 DEF HandleApproveOrDeny, IdleCall
<1>3. ASSUME NEW g \in Goroutines, queue' = queue, \E c : Become(g, c) /\ c.op # "create"
      PROVE  CreateInv'
  BY <1>3
<1>4. ASSUME NEW g \in Goroutines, HandleRequests(g) \/ ReplyCreated(g) \/ Refuse(g)
                                   \/ EncodeList(g)
      PROVE  CreateInv'
  <2>1. IdleCall.op # "create" /\ [IdleCall EXCEPT !.pc = "list", !.op = "list"].op # "create"
    BY LegacyAssumption DEF IdleCall, Ops
  <2>2. queue' = queue /\ \E c : Become(g, c) /\ c.op # "create"
    BY <1>4, <2>1 DEF HandleRequests, ReplyCreated, Refuse, EncodeList
  <2> QED
    BY <1>3, <2>2
<1>5. ASSUME NEW g \in Goroutines, Lock(g) \/ Approve(g) \/ Execute(g)
      PROVE  CreateInv'
  <2>1. queue' = queue
    BY <1>5 DEF Lock, Approve, Execute
  <2>2. CASE Lock(g)
    BY <2>1, <2>2 DEF Lock
  <2>3. CASE Approve(g) \/ Execute(g)
    <3>1. \E pc \in {"running", "record"} : Goto(g, pc)
      BY <2>3 DEF Approve, Execute
    <3> QED
      BY <2>1, <3>1
  <2> QED
    BY <1>5, <2>2, <2>3
<1>6. ASSUME NEW g \in Goroutines, Insert(g) \/ Deny(g) \/ Record(g)
      PROVE  CreateInv'
  <2>1. \A h \in Goroutines : call'[h].op = "create" =>
            /\ call[h].op = "create" /\ call'[h].id = call[h].id
            /\ call'[h].pc = call[h].pc \/ call'[h].pc \notin {"lock", "act"}
            /\ call'[h].pc \in {"lock", "act"} => h # g
    <3>1. CASE Insert(g)
      BY <3>1 DEF Insert
    <3>2. CASE Deny(g) \/ Record(g)
      <4>1. Become(g, IdleCall) /\ IdleCall.op # "create"
        BY <3>2, LegacyAssumption DEF Deny, Record, IdleCall, Ops
      <4> QED
        BY <4>1
    <3> QED
      BY <1>6, <3>1, <3>2
  <2>2. \A h \in Goroutines :
            call'[h].op = "create" /\ call'[h].pc \in {"lock", "act"} =>
            queue'[call'[h].id] = queue[call'[h].id]
    BY <1>6, <2>1, WriterFrame DEF KnowsInv
  <2> QED
    BY <2>1, <2>2
<1>7. ASSUME NEW g \in Goroutines, ReadList(g)
      PROVE  CreateInv'
  BY <1>7 DEF ReadList
<1>8. CASE Stop \/ UNCHANGED legacyVars
  BY <1>8 DEF Stop, legacyVars
<1> QED
  BY <1>1, <1>2, <1>4, <1>5, <1>6, <1>7, <1>8 DEF Next, HandlerStep

-----------------------------------------------------------------------------
(* The execution *)

\* The request of a running command is pending to everybody else, and is started once.
LEMMA ExecStep == Inv /\ [Next]_legacyVars => ExecInv'
<1> SUFFICES ASSUME Inv, [Next]_legacyVars,
                    NEW h \in Goroutines, call'[h].pc \in {"running", "record"}
             PROVE  /\ queue'[call'[h].id] = PendingRow
                    /\ call'[h].pc = "running" => runs'[call'[h].id] = 0
                    /\ call'[h].pc = "record" =>
                           /\ runs'[call'[h].id] \in {0, 1}
                           /\ runs'[call'[h].id] = 1 => call'[h].id \in Allowed
  BY DEF ExecInv
<1> USE DEF Inv, TypeOK, Become, Goto, Call
<1>1. CASE Approve(h)
  <2>1. ~\E g \in Goroutines : Executing(g)
    BY <1>1, NobodyExecutes DEF Approve, Executing
  <2>2. call[h].id \in Requests
    BY <1>1 DEF Approve, KnowsInv
  <2>3. runs[call[h].id] = 0 /\ queue[call[h].id] \in Row
        /\ queue[call[h].id].status = "pending" /\ ~queue[call[h].id].result
    BY <1>1, <2>1, <2>2 DEF Approve, TableTellsRuns, Row
  <2>4. queue[call[h].id] = PendingRow
    BY <2>3 DEF Row, PendingRow
  <2> QED
    BY <1>1, <2>3, <2>4 DEF Approve
<1>2. CASE Execute(h)
  BY <1>2 DEF Execute, ExecInv, KnowsInv
<1>3. CASE call'[h] = call[h]
  <2>1. M!HoldsWrite(mu, h)
    BY <1>3 DEF LockInv
  <2>2. \A g \in Goroutines : M!HoldsWrite(mu, g) => g = h
    BY <2>1 DEF M!HoldsWrite
  <2>3. CASE queue' = queue /\ runs' = runs
    BY <1>3, <2>3 DEF ExecInv
  <2>4. CASE \E g \in Goroutines : M!HoldsWrite(mu, g) /\ (Insert(g) \/ Deny(g) \/ Record(g))
    <3>1. Insert(h) \/ Deny(h) \/ Record(h)
      BY <2>2, <2>4
    <3> QED
      BY <1>3, <3>1 DEF Insert, Deny, Record, IdleCall
  <2>5. CASE \E g \in Goroutines : Execute(g)
    <3>1. PICK g \in Goroutines : Execute(g)
      BY <2>5
    <3>2. g = h
      BY <2>2, <3>1 DEF Execute, LockInv
    <3> QED
      BY <1>3, <3>1, <3>2 DEF Execute
  <2>6. runs' = runs \/ \E g \in Goroutines : Execute(g)
    BY DEF Next, HandlerStep, legacyVars, HandleRequest, HandleApproveOrDeny,
       HandleRequests, Lock, Insert, ReplyCreated, Refuse, Deny, Approve, Record,
       ReadList, EncodeList, Stop
  <2> QED
    BY <2>3, <2>4, <2>5, <2>6, TableChangesUnderLock
<1>4. Approve(h) \/ Execute(h) \/ call'[h] = call[h]
  <2>2. ASSUME NEW g \in Goroutines, NEW id \in Requests, HandleRequest(g, id)
        PROVE  call'[h] = call[h]
    BY <2>2 DEF HandleRequest, IdleCall
  <2>3. ASSUME NEW g \in Goroutines, NEW id \in Requests, NEW op \in {"approve", "deny"},
               HandleApproveOrDeny(g, op, id)
        PROVE  call'[h] = call[h]
    BY <2>3 DEF HandleApproveOrDeny, IdleCall
  <2>4. ASSUME NEW g \in Goroutines, HandleRequests(g)
        PROVE  call'[h] = call[h]
    BY <2>4 DEF HandleRequests, IdleCall
  <2>5. ASSUME NEW g \in Goroutines, Lock(g) \/ Insert(g)
        PROVE  call'[h] = call[h]
    <3>1. \E pc \in {"act", "reply"} : Goto(g, pc)
      BY <2>5 DEF Lock, Insert
    <3> QED
      BY <3>1
  <2>6. ASSUME NEW g \in Goroutines,
               ReplyCreated(g) \/ Refuse(g) \/ Deny(g) \/ Record(g) \/ EncodeList(g)
        PROVE  call'[h] = call[h]
    <3>1. Become(g, IdleCall)
      BY <2>6 DEF ReplyCreated, Refuse, Deny, Record, EncodeList
    <3> QED
      BY <3>1 DEF IdleCall
  <2>7. ASSUME NEW g \in Goroutines, ReadList(g)
        PROVE  call'[h] = call[h]
    BY <2>7 DEF ReadList
  <2>8. ASSUME NEW g \in Goroutines, g # h, Approve(g) \/ Execute(g)
        PROVE  call'[h] = call[h]
    BY <2>8 DEF Approve, Execute
  <2>9. CASE Stop \/ UNCHANGED legacyVars
    BY <2>9 DEF Stop, legacyVars
  <2> QED
    BY <2>2, <2>3, <2>4, <2>5, <2>6, <2>7, <2>8, <2>9 DEF Next, HandlerStep
<1> QED
  BY <1>1, <1>2, <1>3, <1>4

-----------------------------------------------------------------------------
(* The table and the commands *)

\* The mutex alone keeps executions apart.
LEMMA ExecutionsExclude ==
    ASSUME LockInv, NEW g \in Goroutines, NEW h \in Goroutines, Executing(g), Executing(h)
    PROVE  g = h
BY DEF LockInv, Executing, M!HoldsWrite

\* Executing as a predicate on the locals of a handler.
Runs(c) == c.op = "approve" /\ c.pc \in {"running", "record"}
SameExecutions ==
    \A h \in Goroutines : /\ Runs(call'[h]) <=> Runs(call[h])
                          /\ Runs(call[h]) => call'[h].id = call[h].id

\* The mutex keeps executions apart after a step too.
LEMMA ExecutionsExcludeNext ==
    LockInv' => \A g, h \in Goroutines : Runs(call'[g]) /\ Runs(call'[h]) => g = h
BY DEF LockInv, Runs, M!HoldsWrite

\* How a step moves the executions: it leaves them all, begins one or ends one.
LEMMA ExecutingFrame ==
    ASSUME TypeOK, [Next]_legacyVars
    PROVE  \/ SameExecutions
           \/ \E g \in Goroutines : Approve(g) \/ Record(g)
<1> USE DEF TypeOK, Become, Goto, Call, Runs, SameExecutions
<1>1. ASSUME NEW g \in Goroutines, NEW id \in Requests, HandleRequest(g, id)
      PROVE  SameExecutions
  BY <1>1 DEF HandleRequest, IdleCall
<1>2. ASSUME NEW g \in Goroutines, NEW id \in Requests, NEW op \in {"approve", "deny"},
             HandleApproveOrDeny(g, op, id)
      PROVE  SameExecutions
  BY <1>2 DEF HandleApproveOrDeny, IdleCall
<1>3. ASSUME NEW g \in Goroutines, call[g].pc \notin {"running", "record"},
             \E c : Become(g, c) /\ c.pc \notin {"running", "record"}
      PROVE  SameExecutions
  BY <1>3
<1>4. ASSUME NEW g \in Goroutines, HandleRequests(g) \/ ReplyCreated(g) \/ Refuse(g)
                                   \/ Deny(g) \/ EncodeList(g)
      PROVE  SameExecutions
  <2>1. IdleCall.pc = "idle" /\ [IdleCall EXCEPT !.pc = "list", !.op = "list"].pc = "list"
    BY DEF IdleCall
  <2>2. /\ call[g].pc \notin {"running", "record"}
        /\ \E c : Become(g, c) /\ c.pc \in {"idle", "list"}
    BY <1>4, <2>1 DEF HandleRequests, ReplyCreated, Refuse, Deny, EncodeList
  <2> QED
    BY <1>3, <2>2
<1>5. ASSUME NEW g \in Goroutines, Lock(g) \/ Insert(g)
      PROVE  SameExecutions
  <2>1. /\ call[g].pc \in {"lock", "act"}
        /\ \E pc \in {"act", "reply"} : Goto(g, pc)
    BY <1>5 DEF Lock, Insert
  <2> QED
    BY <2>1
<1>6. ASSUME NEW g \in Goroutines, Execute(g)
      PROVE  SameExecutions
  BY <1>6 DEF Execute
<1>7. ASSUME NEW g \in Goroutines, ReadList(g)
      PROVE  SameExecutions
  BY <1>7 DEF ReadList
<1>8. CASE Stop \/ UNCHANGED legacyVars
  BY <1>8 DEF Stop, legacyVars
<1> HIDE DEF SameExecutions
<1> QED
  BY <1>1, <1>2, <1>4, <1>5, <1>6, <1>7, <1>8 DEF Next, HandlerStep

\* What the table says of a request whose command does not run.
Told(id) == /\ runs[id] \in {0, 1}
            /\ runs[id] = 1 => queue[id].status = "completed"
            /\ queue[id].result <=> queue[id].status = "completed"

\* The table keeps telling which commands may have run.
LEMMA TableStep == Inv /\ LockInv' /\ [Next]_legacyVars => TableTellsRuns'
<1> SUFFICES ASSUME Inv, LockInv', [Next]_legacyVars,
                    NEW id \in Requests,
                    ~\E g \in Goroutines : Runs(call'[g]) /\ call'[g].id = id
             PROVE  Told(id)'
  BY ExecutionsExcludeNext DEF TableTellsRuns, Told, Executing, Runs
<1> USE DEF Inv, TypeOK
<1>1. ASSUME NEW g \in Goroutines, Insert(g)
      PROVE  Told(id)'
  <2>1. ~\E h \in Goroutines : Executing(h)
    BY <1>1, NobodyExecutes DEF Insert, Executing
  <2>2. Told(id)
    BY <2>1 DEF TableTellsRuns, Told
  <2>3. call[g].id \in Requests /\ queue[call[g].id] = NoRow
    BY <1>1 DEF Insert, KnowsInv, CreateInv
  <2> QED
    BY <1>1, <2>2, <2>3 DEF Insert, Told, NoRow, Row
<1>2. ASSUME NEW g \in Goroutines, Deny(g)
      PROVE  Told(id)'
  <2>1. ~\E h \in Goroutines : Executing(h)
    BY <1>2, NobodyExecutes DEF Deny, Executing
  <2>2. Told(id)
    BY <2>1 DEF TableTellsRuns, Told
  <2> QED
    BY <1>2, <2>2 DEF Deny, Told, Row
<1>3. ASSUME NEW g \in Goroutines, Record(g)
      PROVE  Told(id)'
  <2>1. Executing(g) /\ call[g].id \in Requests
    BY <1>3 DEF Record, LockInv, Executing, KnowsInv
  <2>2. CASE id # call[g].id
    <3>1. ~\E h \in Goroutines : Executing(h) /\ call[h].id = id
      BY <2>1, <2>2, ExecutionsExclude
    <3>2. Told(id)
      BY <3>1 DEF TableTellsRuns, Told
    <3> QED
      BY <1>3, <2>2, <3>2 DEF Record, Told
  <2>3. CASE id = call[g].id
    <3>1. runs[id] \in {0, 1} /\ (runs[id] = 1 => id \in Allowed)
      BY <1>3, <2>3 DEF Record, ExecInv
    <3> QED
      BY <1>3, <2>3, <3>1 DEF Record, Told
  <2> QED
    BY <2>2, <2>3
<1>4. ASSUME NEW g \in Goroutines, Execute(g)
      PROVE  Told(id)'
  <2>1. Executing(g) /\ Runs(call'[g]) /\ call'[g].id = call[g].id
    BY <1>4 DEF Execute, LockInv, Executing, Runs, Goto, Become, Call
  <2>2. id # call[g].id
    BY <2>1
  <2>3. ~\E h \in Goroutines : Executing(h) /\ call[h].id = id
    BY <2>1, <2>2, ExecutionsExclude
  <2>4. Told(id)
    BY <2>3 DEF TableTellsRuns, Told
  <2> QED
    BY <1>4, <2>2, <2>4 DEF Execute, Told
<1>5. CASE queue' = queue /\ runs' = runs
  <2>1. ~\E h \in Goroutines : Executing(h) /\ call[h].id = id
    <3>1. CASE \E g \in Goroutines : Record(g)
      <4>1. PICK g \in Goroutines : Record(g)
        BY <3>1
      <4>2. queue[call[g].id] = PendingRow /\ call[g].id \in Requests
        BY <4>1 DEF Record, ExecInv, KnowsInv
      <4>3. queue'[call[g].id].status \in {"completed", "failed"}
        BY <4>1, <4>2 DEF Record
      <4> QED
        BY <1>5, <4>2, <4>3 DEF PendingRow
    <3>2. CASE \E g \in Goroutines : Approve(g)
      BY <3>2, NobodyExecutes DEF Approve, Executing
    <3>3. CASE SameExecutions
      BY <3>3 DEF SameExecutions, Executing, Runs
    <3> QED
      BY <3>1, <3>2, <3>3, ExecutingFrame
  <2>2. Told(id)
    BY <2>1 DEF TableTellsRuns, Told
  <2> QED
    BY <1>5, <2>2 DEF Told
<1>6. \/ queue' = queue /\ runs' = runs
      \/ \E g \in Goroutines : Insert(g) \/ Deny(g) \/ Record(g) \/ Execute(g)
  BY DEF Next, HandlerStep, legacyVars, HandleRequest, HandleApproveOrDeny,
     HandleRequests, Lock, ReplyCreated, Refuse, Approve, ReadList, EncodeList, Stop
<1> QED
  BY <1>1, <1>2, <1>3, <1>4, <1>5, <1>6

-----------------------------------------------------------------------------
(* Theorems *)

\* The inductive invariant holds at the start.
LEMMA InitInv == Init => Inv
<1> SUFFICES ASSUME Init PROVE Inv
  OBVIOUS
<1>1. TypeOK
  BY IdleType DEF Init, TypeOK, Row, NoRow, M!FreeMutex, M!Mutex
<1>2. \A g \in Goroutines : call[g].pc = "idle" /\ call[g].op # "create"
  BY LegacyAssumption DEF Init, IdleCall, Ops
<1>3. LockInv /\ KnowsInv /\ CreateInv /\ ExecInv /\ ListIsSnapshot
  BY <1>2 DEF LockInv, KnowsInv, CreateInv, ExecInv, ListIsSnapshot
<1>4. TableTellsRuns
  BY <1>2 DEF TableTellsRuns, Executing, Init, NoRow
<1> QED
  BY <1>1, <1>3, <1>4 DEF Inv

\* The lock discipline, the fresh identifiers and what the table tells hold together.
THEOREM InvHolds == Spec => []Inv
<1>1. Inv /\ [Next]_legacyVars => Inv'
  BY TypeStep, LockStep, KnowsStep, CreateStep, ExecStep, TableStep, SnapshotStep DEF Inv
<1> QED
  BY <1>1, InitInv, PTL DEF Spec

\* One execution at a time, and outside of it every command was started once at most, and
\* only if the table says "completed", for any number of requests and of goroutines.
THEOREM TableTellsRunsHolds == Spec => []TableTellsRuns
<1>1. Inv => TableTellsRuns
  BY DEF Inv
<1> QED
  BY <1>1, InvHolds, PTL

\* A list shows one state of the table, however many handlers write.
THEOREM ListIsSnapshotHolds == Spec => []ListIsSnapshot
<1>1. Inv => ListIsSnapshot
  BY DEF Inv
<1> QED
  BY <1>1, InvHolds, PTL

-----------------------------------------------------------------------------
(* The legacy server implements the lifecycle of a request *)

\* While no command runs, the table is what the server promises.
LEMMA PromisedIdle ==
    (\A g \in Goroutines : ~Runs(call[g]))
    => Promised = [id \in Requests |-> queue[id].status]
BY DEF Promised, Executing, Runs

\* While nothing runs after the step, the mapped state is the status of the record.
LEMMA PromisedIdleNext ==
    (\A g \in Goroutines : ~Runs(call'[g]))
    => Promised' = [id \in Requests |-> queue'[id].status]
BY DEF Promised, Executing, Runs

\* While one command runs, its request alone is further than the table says.
LEMMA PromisedBusy ==
    ASSUME LockInv, NEW g \in Goroutines, Runs(call[g])
    PROVE  Promised = [id \in Requests |->
                         IF id = call[g].id THEN "approved" ELSE queue[id].status]
<1>1. \A h \in Goroutines : Runs(call[h]) => h = g
  BY DEF LockInv, Runs, M!HoldsWrite
<1> QED
  BY <1>1 DEF Promised, Executing, Runs

\* While a command runs after the step, its request counts as approved.
LEMMA PromisedBusyNext ==
    ASSUME LockInv', NEW g \in Goroutines, Runs(call'[g])
    PROVE  Promised' = [id \in Requests |->
                          IF id = call'[g].id THEN "approved" ELSE queue'[id].status]
<1>1. \A h \in Goroutines : Runs(call'[h]) => h = g
  BY ExecutionsExcludeNext
<1> QED
  BY <1>1 DEF Promised, Executing, Runs

\* Executions that stay and a table that stays promise the same.
LEMMA PromisedSame ==
    ASSUME SameExecutions, queue' = queue
    PROVE  Promised' = Promised
BY DEF Promised, SameExecutions, Executing, Runs

\* Every step is a step of the lifecycle or invisible in it.
LEMMA NextRefines ==
    ASSUME Inv, Inv', [Next]_legacyVars
    PROVE  Lifecycle!Next \/ (Promised' = Promised /\ UNCHANGED runs)
<1> USE DEF Inv, TypeOK
<1>1. ASSUME NEW g \in Goroutines, Insert(g)
      PROVE  Lifecycle!Next
  <2>1. /\ M!HoldsWrite(mu, g) /\ call[g].pc = "act" /\ call[g].op = "create"
        /\ call[g].id \in Requests /\ queue[call[g].id] = NoRow
    BY <1>1 DEF Insert, KnowsInv, CreateInv
  <2>2. \A h \in Goroutines : ~Runs(call[h])
    BY <2>1, NobodyExecutes DEF Runs
  <2>3. \A h \in Goroutines : ~Runs(call'[h])
    BY <1>1, <2>2 DEF Insert, Goto, Become, Runs, Call
  <2>4. Lifecycle!Submit(call[g].id)
    BY <1>1, <2>1, <2>2, <2>3, PromisedIdle, PromisedIdleNext
       DEF Insert, Lifecycle!Submit, NoRow, Row
  <2> QED
    BY <2>1, <2>4 DEF Lifecycle!Next
<1>2. ASSUME NEW g \in Goroutines, Deny(g)
      PROVE  Lifecycle!Next
  <2>1. M!HoldsWrite(mu, g) /\ call[g].pc = "act" /\ call[g].id \in Requests
    BY <1>2 DEF Deny, KnowsInv
  <2>2. \A h \in Goroutines : ~Runs(call[h])
    BY <2>1, NobodyExecutes DEF Runs
  <2>3. \A h \in Goroutines : ~Runs(call'[h])
    BY <1>2, <2>2 DEF Deny, Become, IdleCall, Runs
  <2>4. Lifecycle!Decide(call[g].id)
    BY <1>2, <2>1, <2>2, <2>3, PromisedIdle, PromisedIdleNext
       DEF Deny, Lifecycle!Decide, Row
  <2> QED
    BY <2>1, <2>4 DEF Lifecycle!Next
<1>3. ASSUME NEW g \in Goroutines, Approve(g)
      PROVE  Lifecycle!Next
  <2>1. M!HoldsWrite(mu, g) /\ call[g].pc = "act" /\ call[g].id \in Requests
    BY <1>3 DEF Approve, KnowsInv
  <2>2. \A h \in Goroutines : ~Runs(call[h])
    BY <2>1, NobodyExecutes DEF Runs
  <2>3. Runs(call'[g]) /\ call'[g].id = call[g].id
    BY <1>3 DEF Approve, Goto, Become, Runs, Call
  <2>4. Promised' = [Promised EXCEPT ![call[g].id] = "approved"]
    BY <1>3, <2>2, <2>3, PromisedIdle, PromisedBusyNext DEF Approve
  <2>5. Promised[call[g].id] = "pending"
    BY <1>3, <2>1, <2>2, PromisedIdle DEF Approve
  <2>6. Lifecycle!Decide(call[g].id)
    BY <1>3, <2>4, <2>5 DEF Approve, Lifecycle!Decide
  <2> QED
    BY <2>1, <2>6 DEF Lifecycle!Next
<1>4. ASSUME NEW g \in Goroutines, Execute(g)
      PROVE  Lifecycle!Next \/ (Promised' = Promised /\ UNCHANGED runs)
  <2>1. Runs(call[g]) /\ call[g].id \in Requests /\ runs[call[g].id] = 0
    BY <1>4 DEF Execute, LockInv, KnowsInv, ExecInv, Runs
  <2>2. Runs(call'[g]) /\ call'[g].id = call[g].id
    BY <1>4, <2>1 DEF Execute, Goto, Become, Runs, Call
  <2>3. Promised' = Promised /\ Promised[call[g].id] = "approved"
    BY <1>4, <2>1, <2>2, PromisedBusy, PromisedBusyNext DEF Execute
  <2>4. CASE runs' = [runs EXCEPT ![call[g].id] = @ + 1]
    <3>1. Lifecycle!Run(call[g].id)
      BY <1>4, <2>1, <2>3, <2>4 DEF Execute, Lifecycle!Run
    <3> QED
      BY <2>1, <3>1 DEF Lifecycle!Next
  <2>5. CASE UNCHANGED runs
    BY <2>3, <2>5
  <2> QED
    BY <1>4, <2>4, <2>5 DEF Execute
<1>5. ASSUME NEW g \in Goroutines, Record(g)
      PROVE  Lifecycle!Next
  <2>1. Runs(call[g]) /\ call[g].id \in Requests
    BY <1>5 DEF Record, LockInv, KnowsInv, Runs
  <2>2. \A h \in Goroutines : ~Runs(call'[h])
    <3>1. \A h \in Goroutines : h # g => ~Runs(call[h])
      BY <2>1, ExecutionsExclude DEF Runs, Executing
    <3> QED
      BY <1>5, <3>1 DEF Record, Become, IdleCall, Runs
  <2>3. Promised[call[g].id] = "approved"
    BY <2>1, PromisedBusy
  <2>4. /\ call[g].id \in Allowed => Promised' = [Promised EXCEPT ![call[g].id] = "completed"]
        /\ call[g].id \notin Allowed => Promised' = [Promised EXCEPT ![call[g].id] = "failed"]
    BY <1>5, <2>1, <2>2, PromisedBusy, PromisedIdleNext DEF Record
  <2>5. Lifecycle!Finish(call[g].id)
    BY <1>5, <2>1, <2>3, <2>4 DEF Record, Lifecycle!Finish
  <2> QED
    BY <2>1, <2>5 DEF Lifecycle!Next
<1>6. CASE ~\E g \in Goroutines :
              Insert(g) \/ Deny(g) \/ Approve(g) \/ Execute(g) \/ Record(g)
  <2>1. queue' = queue /\ runs' = runs
    BY <1>6 DEF Next, HandlerStep, legacyVars, HandleRequest, HandleApproveOrDeny,
       HandleRequests, Lock, ReplyCreated, Refuse, ReadList, EncodeList, Stop
  <2>2. SameExecutions
    BY <1>6, ExecutingFrame
  <2> QED
    BY <2>1, <2>2, PromisedSame
<1> QED
  BY <1>1, <1>2, <1>3, <1>4, <1>5, <1>6

\* The legacy server, whose record says "pending" until a command is over, implements the
\* lifecycle of a request for any number of requests and goroutines.
THEOREM ImplementsLifecycleHolds == Spec => ImplementsLifecycle
<1>1. Init => Lifecycle!Init
  BY DEF Init, Lifecycle!Init, NoRow, Promised, Executing, IdleCall
<1>2. Inv /\ Inv' /\ [Next]_legacyVars => [Lifecycle!Next]_(Lifecycle!lifecycleVars)
  BY NextRefines DEF Lifecycle!lifecycleVars
<1> QED
  BY <1>1, <1>2, InvHolds, PTL DEF Spec, ImplementsLifecycle, Lifecycle!Spec

\* The theorems about the lifecycle, read in the legacy server.
Promise == INSTANCE RequestLifecycleProofs
           WITH state <- Promised, MayVanish <- FALSE, TellsRuns <- FALSE

\* It is the same lifecycle.
LEMMA SameLifecycle == ImplementsLifecycle => Promise!Spec
<1>1. Lifecycle!Init => Promise!Init
  BY DEF Lifecycle!Init, Promise!Init
<1>2. [Lifecycle!Next]_(Lifecycle!lifecycleVars) => [Promise!Next]_(Promise!lifecycleVars)
  BY DEF Lifecycle!Next, Lifecycle!lifecycleVars, Lifecycle!Submit, Lifecycle!Decide,
         Lifecycle!Run, Lifecycle!Finish, Lifecycle!Expire, Lifecycle!Vanish,
         Promise!Next, Promise!lifecycleVars, Promise!Submit, Promise!Decide,
         Promise!Run, Promise!Finish, Promise!Expire, Promise!Vanish
<1> QED
  BY <1>1, <1>2, PTL DEF ImplementsLifecycle, Lifecycle!Spec, Promise!Spec

\* The legacy server runs a command at most once and only after its approval, and a denial
\* excludes a run for ever: by the refinement, from the lifecycle alone.
THEOREM RunsAsApprovedHolds == Spec => []Lifecycle!RunsAsApproved
<1>1. Promise!Spec => []Promise!RunsAsApproved
  BY Promise!RunsAsApprovedHolds
<1>2. Promise!RunsAsApproved => Lifecycle!RunsAsApproved
  BY DEF Promise!RunsAsApproved, Lifecycle!RunsAsApproved
<1> QED
  BY <1>1, <1>2, SameLifecycle, ImplementsLifecycleHolds, PTL

\* The legacy server never revises a decision and never executes without one.
THEOREM LivesForwardHolds == Spec => Lifecycle!LivesForward
<1>1. Promise!Spec => Promise!LivesForward
  BY Promise!LivesForwardHolds
<1>2. Promise!LivesForward => Lifecycle!LivesForward
  BY DEF Promise!LivesForward, Lifecycle!LivesForward, Promise!After, Lifecycle!After,
         Promise!lifecycleVars, Lifecycle!lifecycleVars
<1> QED
  BY <1>1, <1>2, SameLifecycle, ImplementsLifecycleHolds, PTL

-----------------------------------------------------------------------------
(* The lock closes no circle *)

Writing == {"act", "running", "record"}
Reading == {"list", "encode"}

\* Each handler is at one place of the mutex at most: the writer, among the readers, or not
\* there.  Readers are parked only behind a writer.
PlaceInv ==
    /\ \A g \in Goroutines :
          /\ call[g].pc \in Writing <=> mu.writer = g
          /\ call[g].pc \notin Reading => g \notin mu.readers /\ g \notin mu.parked
          /\ g \in mu.readers => g \notin mu.parked
          /\ call[g].pc \in {"lock", "act"} => call[g].op \in {"create", "approve", "deny"}
    /\ mu.writer = None => mu.parked = {}

\* The steps of one goroutine keep the place of the others; it is enough to look at its own.
LEMMA PlaceOfMover ==
    ASSUME TypeOK, PlaceInv, NEW g \in Goroutines,
           \A h \in Goroutines : h # g => call'[h] = call[h],
           \/ mu' = mu
           \/ mu' = M!AfterRLock(mu, g)
           \/ mu' = M!AfterRUnlock(mu, g)
           \/ mu' = M!AfterAnnounce(mu, g) /\ M!MayAnnounce(mu)
           \/ mu' = M!AfterUnlock(mu) /\ M!HoldsWrite(mu, g),
           call'[g].pc \in Writing <=> mu'.writer = g,
           call'[g].pc \notin Reading => g \notin mu'.readers /\ g \notin mu'.parked,
           g \in mu'.readers => g \notin mu'.parked,
           call'[g].pc \in {"lock", "act"} => call'[g].op \in {"create", "approve", "deny"}
    PROVE  PlaceInv'
<1>0. None \notin Goroutines /\ mu \in M!Mutex
  BY LegacyAssumption DEF TypeOK
<1>1. ASSUME NEW h \in Goroutines, h # g
      PROVE  /\ mu'.writer = h <=> mu.writer = h
             /\ h \notin mu.readers /\ h \notin mu.parked =>
                    h \notin mu'.readers /\ h \notin mu'.parked
             /\ (h \in mu.readers => h \notin mu.parked) =>
                    (h \in mu'.readers => h \notin mu'.parked)
  BY <1>0, <1>1 DEF M!Mutex, M!AfterRLock, M!AfterRUnlock, M!AfterAnnounce, M!MayAnnounce,
                    M!AfterUnlock, M!HoldsWrite
<1>2. mu'.writer = None => mu'.parked = {}
  BY <1>0 DEF PlaceInv, M!Mutex, M!AfterRLock, M!AfterRUnlock, M!AfterAnnounce,
              M!AfterUnlock
<1>3. ASSUME NEW h \in Goroutines
      PROVE  /\ call'[h].pc \in Writing <=> mu'.writer = h
             /\ call'[h].pc \notin Reading => h \notin mu'.readers /\ h \notin mu'.parked
             /\ h \in mu'.readers => h \notin mu'.parked
             /\ call'[h].pc \in {"lock", "act"} => call'[h].op \in {"create", "approve", "deny"}
  <2>1. CASE h = g
    BY <2>1
  <2>2. CASE h # g
    BY <1>1, <2>2 DEF PlaceInv
  <2> QED
    BY <2>1, <2>2
<1> QED
  BY <1>2, <1>3 DEF PlaceInv

\* Every handler takes its place and leaves it again.
LEMMA PlaceStep == TypeOK /\ LockInv /\ PlaceInv /\ [Next]_legacyVars => PlaceInv'
<1> SUFFICES ASSUME TypeOK, LockInv, PlaceInv, [Next]_legacyVars PROVE PlaceInv'
  OBVIOUS
<1>0. None \notin Goroutines /\ mu \in M!Mutex /\ call \in [Goroutines -> Call]
  BY LegacyAssumption DEF TypeOK
<1> USE DEF Writing, Reading
<1>1. ASSUME NEW g \in Goroutines, NEW id \in Requests,
             \/ HandleRequest(g, id)
             \/ \E op \in {"approve", "deny"} : HandleApproveOrDeny(g, op, id)
      PROVE  PlaceInv'
  <2>1. call[g].pc = "idle" /\ mu' = mu
    BY <1>1 DEF HandleRequest, HandleApproveOrDeny
  <2>2. /\ \A h \in Goroutines : h # g => call'[h] = call[h]
        /\ call'[g].pc = "lock" /\ call'[g].op \in {"create", "approve", "deny"}
    BY <1>0, <1>1 DEF HandleRequest, HandleApproveOrDeny, Become, IdleCall
  <2> QED
    BY <2>1, <2>2, PlaceOfMover DEF PlaceInv
<1>2. ASSUME NEW g \in Goroutines, HandleRequests(g)
      PROVE  PlaceInv'
  <2>1. /\ call[g].pc = "idle" /\ mu' = M!AfterRLock(mu, g) /\ mu.writer # g
        /\ g \notin mu.readers /\ g \notin mu.parked
    BY <1>2 DEF HandleRequests, PlaceInv
  <2>2. call'[g].pc = "list" /\ \A h \in Goroutines : h # g => call'[h] = call[h]
    BY <1>0, <1>2 DEF HandleRequests, Become, IdleCall
  <2>3. mu'.writer # g /\ (g \in mu'.readers => g \notin mu'.parked)
    BY <1>0, <2>1 DEF M!AfterRLock, M!Mutex
  <2> QED
    BY <2>1, <2>2, <2>3, PlaceOfMover
<1>3. ASSUME NEW g \in Goroutines, Lock(g)
      PROVE  PlaceInv'
  <2>1. /\ call[g].pc = "lock" /\ M!MayAnnounce(mu) /\ mu' = M!AfterAnnounce(mu, g)
        /\ g \notin mu.readers /\ g \notin mu.parked
        /\ call[g].op \in {"create", "approve", "deny"}
    BY <1>3 DEF Lock, PlaceInv
  <2>2. /\ call'[g].pc = "act" /\ call'[g].op = call[g].op
        /\ \A h \in Goroutines : h # g => call'[h] = call[h]
    BY <1>0, <1>3 DEF Lock, Goto, Become, Call
  <2>3. mu'.writer = g /\ g \notin mu'.readers /\ g \notin mu'.parked
    BY <1>0, <2>1 DEF M!AfterAnnounce, M!Mutex
  <2> QED
    BY <2>1, <2>2, <2>3, PlaceOfMover
<1>4. ASSUME NEW g \in Goroutines, Approve(g) \/ Execute(g)
      PROVE  PlaceInv'
  <2>1. call[g].pc \in {"act", "running"} /\ mu' = mu
    BY <1>4 DEF Approve, Execute
  <2>2. /\ call'[g].pc \in {"running", "record"}
        /\ \A h \in Goroutines : h # g => call'[h] = call[h]
    BY <1>0, <1>4 DEF Approve, Execute, Goto, Become, Call
  <2> QED
    BY <2>1, <2>2, PlaceOfMover DEF PlaceInv
<1>5. ASSUME NEW g \in Goroutines, Insert(g) \/ Refuse(g) \/ Deny(g) \/ Record(g)
      PROVE  PlaceInv'
  <2>1. /\ call[g].pc \in Writing /\ mu' = M!AfterUnlock(mu) /\ M!HoldsWrite(mu, g)
        /\ g \notin mu.readers /\ g \notin mu.parked
    BY <1>5 DEF Insert, Refuse, Deny, Record, PlaceInv, LockInv
  <2>2. /\ call'[g].pc \in {"idle", "reply"}
        /\ \A h \in Goroutines : h # g => call'[h] = call[h]
    BY <1>0, <1>5 DEF Insert, Refuse, Deny, Record, Goto, Become, Call, IdleCall
  <2>3. mu'.writer # g /\ g \notin mu'.readers /\ g \notin mu'.parked
    BY <1>0, <2>1 DEF M!AfterUnlock, M!Mutex
  <2> QED
    BY <2>1, <2>2, <2>3, PlaceOfMover
<1>6. ASSUME NEW g \in Goroutines, ReplyCreated(g) \/ ReadList(g)
      PROVE  PlaceInv'
  <2>1. call[g].pc \in {"reply", "list"} /\ mu' = mu
    BY <1>6 DEF ReplyCreated, ReadList
  <2>2. ReplyCreated(g) => /\ call[g].pc = "reply" /\ call'[g].pc = "idle"
                           /\ \A h \in Goroutines : h # g => call'[h] = call[h]
    BY <1>0 DEF ReplyCreated, Become, IdleCall
  <2>3. ReadList(g) => /\ call[g].pc = "list" /\ call'[g].pc = "encode"
                       /\ \A h \in Goroutines : h # g => call'[h] = call[h]
    BY <1>0 DEF ReadList, Become, Call
  <2> QED
    BY <1>6, <2>1, <2>2, <2>3, PlaceOfMover DEF PlaceInv
<1>7. ASSUME NEW g \in Goroutines, EncodeList(g)
      PROVE  PlaceInv'
  <2>1. /\ call[g].pc = "encode" /\ mu' = M!AfterRUnlock(mu, g) /\ mu.writer # g
        /\ g \in mu.readers
    BY <1>7 DEF EncodeList, PlaceInv, LockInv, M!HoldsRead
  <2>2. call'[g].pc = "idle" /\ \A h \in Goroutines : h # g => call'[h] = call[h]
    BY <1>0, <1>7 DEF EncodeList, Become, IdleCall
  <2>3. mu'.writer # g /\ g \notin mu'.readers /\ mu'.parked = mu.parked
    BY <1>0, <2>1 DEF M!AfterRUnlock, M!Mutex
  <2>4. g \notin mu.parked
    BY <2>1 DEF PlaceInv
  <2> QED
    BY <2>1, <2>2, <2>3, <2>4, PlaceOfMover
<1>8. CASE Stop \/ UNCHANGED legacyVars
  BY <1>8 DEF Stop, legacyVars, PlaceInv
<1> QED
  BY <1>1, <1>2, <1>3, <1>4, <1>5, <1>6, <1>7, <1>8 DEF Next, HandlerStep

\* Whoever stands at the mutex finds somebody who can go on: a handler that wants the lock, or
\* a parked reader, has a writer before it; that writer executes, or holds the lock, or waits
\* for readers, who all can go on.
LEMMA NoCircle == TypeOK /\ LockInv /\ PlaceInv => NobodyWaitsInACircle
<1> SUFFICES ASSUME TypeOK, LockInv, PlaceInv,
                    NEW g \in Goroutines, call[g].pc # "idle", ~CanGoOn(g)
             PROVE  \E h \in Goroutines :
                       /\ WaitsFor(g, h)
                       /\ CanGoOn(h) \/ \E k \in Goroutines : WaitsFor(h, k) /\ CanGoOn(k)
  BY DEF NobodyWaitsInACircle
<1>0. /\ call \in [Goroutines -> Call] /\ mu \in M!Mutex
      /\ None \notin Goroutines
  BY LegacyAssumption DEF TypeOK
<1>1. call[g].pc \in PC
  BY <1>0 DEF Call
<1>2. ASSUME NEW k \in Goroutines, k \in mu.readers
      PROVE  CanGoOn(k)
  <2>1. call[k].pc \in Reading
    BY <1>2 DEF PlaceInv
  <2> QED
    BY <1>2, <2>1 DEF Reading, CanGoOn, M!HoldsRead
<1>3. ASSUME NEW h \in Goroutines, mu.writer = h
      PROVE  CanGoOn(h) \/ \E k \in Goroutines : WaitsFor(h, k) /\ CanGoOn(k)
  <2>1. call[h].pc \in Writing
    BY <1>3 DEF PlaceInv
  <2>2. CASE call[h].pc # "act"
    BY <2>1, <2>2 DEF Writing, CanGoOn
  <2>3. CASE call[h].pc = "act" /\ mu.readers = {}
    BY <1>3, <2>3 DEF CanGoOn, M!HoldsWrite, PlaceInv
  <2>4. CASE mu.readers # {}
    <3>1. PICK k \in Goroutines : k \in mu.readers
      BY <1>0, <2>4 DEF M!Mutex
    <3> QED
      BY <1>2, <1>3, <3>1 DEF WaitsFor
  <2> QED
    BY <2>2, <2>3, <2>4
<1>4. CASE call[g].pc = "lock" \/ g \in mu.parked
  <2>1. mu.writer # None
    BY <1>4 DEF CanGoOn, M!MayAnnounce, PlaceInv
  <2>2. mu.writer \in Goroutines
    BY <1>0, <2>1 DEF M!Mutex
  <2> QED
    BY <1>3, <1>4, <2>2 DEF WaitsFor
<1>5. CASE call[g].pc = "act"
  <2>1. mu.writer = g
    BY <1>5 DEF LockInv
  <2>2. mu.readers # {}
    BY <1>5, <2>1 DEF CanGoOn, M!HoldsWrite, PlaceInv
  <2>3. PICK h \in Goroutines : h \in mu.readers
    BY <1>0, <2>2 DEF M!Mutex
  <2> QED
    BY <1>2, <2>1, <2>3 DEF WaitsFor
<1>6. call[g].pc \in {"running", "record", "encode", "reply"} => CanGoOn(g)
  BY DEF CanGoOn
<1>7. call[g].pc = "list" => g \in mu.parked
  BY DEF LockInv, CanGoOn, M!HoldsRead
<1> QED
  BY <1>1, <1>4, <1>5, <1>6, <1>7 DEF PC

\* No call of the server waits in a circle of calls, for any number of goroutines: whatever
\* the mix of approvals, denials and lists, somebody a waiting call depends on can go on.
THEOREM NobodyWaitsInACircleHolds == Spec => []NobodyWaitsInACircle
<1>1. Init => PlaceInv
  BY LegacyAssumption DEF Init, PlaceInv, IdleCall, Writing, Reading, M!FreeMutex
<1>2. Inv /\ PlaceInv /\ [Next]_legacyVars => PlaceInv'
  BY PlaceStep DEF Inv
<1>3. Inv /\ PlaceInv => NobodyWaitsInACircle
  BY NoCircle DEF Inv
<1> QED
  BY <1>1, <1>2, <1>3, InvHolds, PTL DEF Spec
=============================================================================
