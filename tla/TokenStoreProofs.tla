---------------------------- MODULE TokenStoreProofs ----------------------------
(***************************************************************************)
(* Theorems about the token service for any number of goroutines, users,   *)
(* tokens and crashes: the store is the configured one, what it            *)
(* acknowledged is there, and no retrieval returns something stale.        *)
(***************************************************************************)
EXTENDS TokenStore, TLAPS

-----------------------------------------------------------------------------
(* Types *)

\* A call that is under way knows its user and its operation, and the process is up.
CallInv ==
    \A c \in Clients :
        /\ call[c].pc # "idle" => /\ process = "up" /\ call[c].user \in Users
                                  /\ call[c].op \in Ops
        /\ call[c].op = "store" => call[c].token \in Tokens
        /\ call[c].pc = "fill" => call[c].op = "store"

\* None is none of the values it stands beside.
LEMMA NoneIsNothing ==
    None \notin Clients /\ None \notin Users /\ None \notin Tokens /\ None \notin Stores
    /\ None \notin Ops
BY TokenStoreAssumption

\* What the stores are given to hold, and what reads return, fits.
LEMMA ContentType ==
    /\ NoToken("absent") \in Content /\ NoToken("torn") \in Content
    /\ \A t \in Tokens : Fresh(t) \in Content
    /\ Content \subseteq Result /\ NoToken("error") \in Result
BY DEF NoToken, Fresh, Content, Result

\* A goroutine without a call.
LEMMA IdleType == IdleCall \in Call /\ IdleCall.pc = "idle" /\ IdleCall.op = None
BY ContentType DEF IdleCall, Call, PC

\* Every operation of the mutex returns a mutex.
LEMMA MutexType ==
    ASSUME NEW m \in M!Mutex, NEW c \in Clients
    PROVE  /\ M!AfterRLock(m, c) \in M!Mutex
           /\ M!AfterRUnlock(m, c) \in M!Mutex
           /\ M!AfterAnnounce(m, c) \in M!Mutex
           /\ M!AfterUnlock(m) \in M!Mutex
BY DEF M!Mutex, M!AfterRLock, M!AfterRUnlock, M!AfterAnnounce, M!AfterUnlock

\* A free mutex is a mutex.
LEMMA FreeType == M!FreeMutex \in M!Mutex
BY DEF M!FreeMutex, M!Mutex

\* One cell of a table of tables is assigned.
LEMMA CellType ==
    ASSUME NEW T, NEW f \in [Stores -> [Users -> T]], NEW s \in Stores, NEW u \in Users,
           NEW x \in T, NEW g, g = [f EXCEPT ![s][u] = x]
    PROVE  /\ g \in [Stores -> [Users -> T]]
           /\ \A t \in Stores, v \in Users :
                 g[t][v] = IF t = s /\ v = u THEN x ELSE f[t][v]
OBVIOUS

\* Client c moves on with locals that fit, while the process stays up.
LEMMA CallStep ==
    ASSUME TypeOK, CallInv, NEW c \in Clients, NEW k \in Call, Become(c, k),
           k.pc # "idle" => process = "up" /\ k.user \in Users /\ k.op \in Ops,
           k.op = "store" => k.token \in Tokens,
           k.pc = "fill" => k.op = "store",
           UNCHANGED process
    PROVE  call' \in [Clients -> Call] /\ CallInv'
BY DEF TypeOK, CallInv, Become

\* A call returns.
LEMMA IdleStep ==
    ASSUME TypeOK, CallInv, NEW c \in Clients, Become(c, IdleCall), UNCHANGED process
    PROVE  call' \in [Clients -> Call] /\ CallInv'
BY CallStep, IdleType, NoneIsNothing DEF Ops

\* A call moves on and keeps its locals.
LEMMA GotoStep ==
    ASSUME TypeOK, CallInv, NEW c \in Clients, NEW pc \in PC, Goto(c, pc), UNCHANGED process,
           call[c].pc # "idle", pc = "fill" => call[c].op = "store"
    PROVE  call' \in [Clients -> Call] /\ CallInv'
<1> DEFINE k == [call[c] EXCEPT !.pc = pc]
<1>1. call[c] \in Call
  BY DEF TypeOK
<1>2. k \in Call /\ k.pc = pc /\ k.op = call[c].op /\ k.user = call[c].user
      /\ k.token = call[c].token
  BY <1>1 DEF Call
<1>3. Become(c, k)
  BY DEF Goto
<1> HIDE DEF k
<1> QED
  BY <1>2, <1>3, CallStep DEF CallInv

\* A call moves on with what it read.
LEMMA GotStep ==
    ASSUME TypeOK, CallInv, NEW c \in Clients, NEW r \in Result, Got(c, r), UNCHANGED process,
           call[c].pc # "idle"
    PROVE  call' \in [Clients -> Call] /\ CallInv'
<1> DEFINE pc == IF M!HoldsRead(mu, c) THEN "judge" ELSE "rejudge"
           k == [call[c] EXCEPT !.got = r, !.pc = pc]
<1>1. call[c] \in Call /\ pc \in PC /\ pc \notin {"idle", "fill"}
  BY DEF TypeOK, PC
<1>2. Become(c, k)
  BY DEF Got
<1> HIDE DEF pc
<1>3. k \in Call /\ k.pc = pc /\ k.op = call[c].op /\ k.user = call[c].user
      /\ k.token = call[c].token
  BY <1>1 DEF Call
<1> HIDE DEF k
<1> QED
  BY <1>1, <1>2, <1>3, CallStep DEF CallInv

-----------------------------------------------------------------------------
(* Two kinds of steps *)

\* A system call or child process of a read.
ReadStep(c) == ReadFile(c) \/ SearchSecret(c) \/ LookupSecret(c) \/ GetSecret(c)

\* One of a write that changes what must be there, or a decision not to change it.
WriteStep(c) == FillFile(c) \/ SetSecret(c) \/ DeleteStored(c) \/ Rejudge(c)

\* A read only changes the locals of its caller.
LEMMA ReadEffect ==
    ASSUME TypeOK, CallInv, NEW c \in Clients, ReadStep(c)
    PROVE  LET content == saved[store][call[c].user] IN
           /\ call[c].pc \in {"read", "lookup", "resolve"} /\ MayRead(c)
           /\ content \in Content /\ store \in Stores /\ call[c].user \in Users
           /\ \/ Got(c, content) \/ Got(c, NoToken("error"))
              \/ content.kind = "absent" /\ Got(c, NoToken("absent"))
              \/ \E pc \in {"lookup", "resolve"} : Goto(c, pc)
           /\ UNCHANGED <<setting, process, crashes, mode, store, saved, mu, settled>>
<1>1. call[c].pc \in {"read", "lookup", "resolve"} /\ MayRead(c)
  BY DEF ReadStep, ReadFile, SearchSecret, LookupSecret, GetSecret
<1>2. call[c].user \in Users /\ store \in Stores
  BY <1>1 DEF CallInv, TypeOK
<1>3. saved[store][call[c].user] \in Content
  BY <1>2 DEF TypeOK
<1> QED
  BY <1>1, <1>2, <1>3 DEF ReadStep, ReadFile, SearchSecret, LookupSecret, GetSecret

\* Cell (store, u) of saved and of settled agree, or nobody knows what is saved, or neither
\* has changed.
Agrees(u) ==
    \/ settled'[store][u].kind = "unknown"
    \/ saved'[store][u] = settled'[store][u]
    \/ saved'[store][u] = saved[store][u] /\ settled'[store][u] = settled[store][u]

\* A write changes the cell of its user and goes on to unlock.
LEMMA WriteEffect ==
    ASSUME TypeOK, CallInv, NEW c \in Clients, WriteStep(c)
    PROVE  /\ call[c].pc \in {"fill", "act", "rejudge"}
           /\ call[c].pc = "act" => M!HoldsWrite(mu, c)
           /\ Goto(c, "unlock") /\ store \in Stores /\ call[c].user \in Users
           /\ saved' \in [Stores -> [Users -> Content]]
           /\ settled' \in [Stores -> [Users -> Content \cup {NoToken("unknown")}]]
           /\ \A s \in Stores, u \in Users : s # store \/ u # call[c].user =>
                 saved'[s][u] = saved[s][u] /\ settled'[s][u] = settled[s][u]
           /\ call[c].pc = "fill" => \/ settled'[store][call[c].user].kind = "unknown"
                                     \/ saved'[store][call[c].user] = settled'[store][call[c].user]
           /\ Agrees(call[c].user)
           /\ \/ saved'[store][call[c].user] = saved[store][call[c].user]
              \/ saved'[store][call[c].user] = NoToken("absent")
              \/ saved'[store][call[c].user] = Fresh(call[c].token)
           /\ UNCHANGED <<setting, process, crashes, mode, store, mu>>
<1> DEFINE u == call[c].user
           known == Content \cup {NoToken("unknown")}
<1>1. /\ call[c].pc \in {"fill", "act", "rejudge"}
      /\ call[c].pc = "act" => M!HoldsWrite(mu, c)
      /\ Goto(c, "unlock")
      /\ UNCHANGED <<setting, process, crashes, mode, store, mu>>
  BY DEF WriteStep, FillFile, SetSecret, DeleteStored, Rejudge
<1>2. store \in Stores /\ u \in Users
  BY <1>1 DEF CallInv, TypeOK
<1>3. PICK x, y : /\ x \in {saved[store][u], NoToken("absent")}
                        \/ (call[c].op = "store" /\ x = Fresh(call[c].token))
                  /\ \/ saved' = saved /\ x = saved[store][u]
                     \/ saved' = [saved EXCEPT ![store][u] = x]
                  /\ \/ settled' = settled /\ y = settled[store][u] /\ x = saved[store][u]
                        /\ call[c].pc # "fill"
                     \/ /\ settled' = [settled EXCEPT ![store][u] = y]
                        /\ y = x \/ y = NoToken("unknown")
  <2>1. CASE FillFile(c)
    BY <2>1 DEF FillFile, Save, Settle, CallInv
  <2>2. CASE SetSecret(c)
    BY <2>2 DEF SetSecret, Save, Settle
  <2>3. CASE Remove(c) /\ call[c].pc # "fill"
    BY <2>3 DEF Remove, Save, Settle
  <2>4. CASE UNCHANGED <<saved, settled>> /\ call[c].pc # "fill"
    BY <2>4
  <2> QED
    BY <2>1, <2>2, <2>3, <2>4 DEF WriteStep, DeleteStored, Rejudge
<1>4. x \in Content /\ y \in known
  BY <1>2, <1>3, ContentType DEF TypeOK, CallInv
<1>5. /\ saved' \in [Stores -> [Users -> Content]]
      /\ \A t \in Stores, v \in Users :
            saved'[t][v] = IF t = store /\ v = u THEN x ELSE saved[t][v]
  <2>1. saved \in [Stores -> [Users -> Content]]
    BY DEF TypeOK
  <2>2. CASE saved' = saved /\ x = saved[store][u]
    BY <2>1, <2>2
  <2>3. CASE saved' = [saved EXCEPT ![store][u] = x]
    <3> HIDE DEF u
    <3> QED
      BY <1>2, <1>4, <2>1, <2>3, CellType
  <2> QED
    BY <1>3, <2>2, <2>3
<1>6. /\ settled' \in [Stores -> [Users -> known]]
      /\ \A t \in Stores, v \in Users :
            settled'[t][v] = IF t = store /\ v = u THEN y ELSE settled[t][v]
  <2>1. settled \in [Stores -> [Users -> known]]
    BY DEF TypeOK
  <2>2. CASE settled' = settled /\ y = settled[store][u]
    BY <2>1, <2>2
  <2>3. CASE settled' = [settled EXCEPT ![store][u] = y]
    <3> HIDE DEF u, known
    <3> QED
      BY <1>2, <1>4, <2>1, <2>3, CellType
  <2> QED
    BY <1>3, <2>2, <2>3
<1>7. NoToken("unknown").kind = "unknown"
  BY DEF NoToken
<1> HIDE DEF u
<1>8. saved'[store][u] = x /\ settled'[store][u] = y
  BY <1>2, <1>5, <1>6
<1> QED
  BY <1>1, <1>2, <1>3, <1>5, <1>6, <1>7, <1>8 DEF Agrees, u

\* Every step keeps the shapes and what calls know.
LEMMA TypeStep == TypeOK /\ CallInv /\ [Next]_storeVars => TypeOK' /\ CallInv'
<1> SUFFICES ASSUME TypeOK, CallInv, [Next]_storeVars PROVE TypeOK' /\ CallInv'
  OBVIOUS
<1>0. None \notin Stores /\ None \notin Ops
  BY NoneIsNothing
<1>1. ASSUME NEW tools \in BOOLEAN, NEW endpoint \in BOOLEAN, DetectClawVault(tools, endpoint)
      PROVE  TypeOK' /\ CallInv'
  <2>1. mode' \in Status
    BY <1>1 DEF DetectClawVault, NoStatus, Status
  <2>2. process = "down" /\ process' = "detected"
    BY <1>1 DEF DetectClawVault
  <2> QED
    BY <1>1, <2>1, <2>2 DEF DetectClawVault, TypeOK, CallInv
<1>2. ASSUME NEW tools \in BOOLEAN, NEW home \in BOOLEAN, InitStore(tools, home)
      PROVE  TypeOK' /\ CallInv'
  <2>1. process = "detected" /\ store = None
    BY <1>2 DEF InitStore, TypeOK
  <2>2. \/ process' = "down" /\ store' = None
        \/ process' = "up" /\ store' \in Stores
    BY <1>2, <2>1 DEF InitStore, FallBack, Refuse, Stores
  <2>3. mode' \in Status
    <3>1. \/ mode' = mode \/ mode' = NoStatus
          \/ \E why \in {"disabled", "fallback"} : mode' = [available |-> FALSE, mode |-> why]
      BY <1>2 DEF InitStore, FallBack, Refuse
    <3>2. NoStatus \in Status
          /\ \A why \in {"disabled", "fallback"} : [available |-> FALSE, mode |-> why] \in Status
      BY DEF NoStatus, Status
    <3> QED
      BY <3>1, <3>2 DEF TypeOK
  <2> QED
    BY <1>0, <1>2, <2>1, <2>2, <2>3 DEF InitStore, TypeOK, CallInv
<1>3. CASE Crash
  <2>1. settled' \in [Stores -> [Users -> Content \cup {NoToken("unknown")}]]
    <3>1. settled \in [Stores -> [Users -> Content \cup {NoToken("unknown")}]]
      BY DEF TypeOK
    <3>2. settled' = [settled EXCEPT ![store] = [u \in Users |->
                         IF \E c \in Clients : call[c].pc = "fill" /\ call[c].user = u
                         THEN NoToken("unknown") ELSE settled[store][u]]]
      BY <1>3 DEF Crash
    <3>3. store \in Stores
      BY <1>3 DEF Crash, TypeOK
    <3> QED
      BY <3>1, <3>2, <3>3
  <2>2. call' = [c \in Clients |-> IdleCall] /\ mode' = NoStatus /\ NoStatus \in Status
    BY <1>3 DEF Crash, NoStatus, Status
  <2>3. call' \in [Clients -> Call] /\ CallInv'
    BY <1>0, <2>2, IdleType DEF CallInv, Ops
  <2> QED
    BY <1>0, <1>3, <2>1, <2>2, <2>3, FreeType DEF Crash, TypeOK
<1>4. ASSUME NEW u \in Users, Age(u)
      PROVE  TypeOK' /\ CallInv'
  <2> DEFINE b == (saved[store][u].kind = "token")
             x == [saved[store][u] EXCEPT !.idle = b]
  <2>1. store \in Stores /\ saved \in [Stores -> [Users -> Content]]
    BY <1>4 DEF Age, TypeOK
  <2>2. x \in Content
    <3>1. b \in BOOLEAN
      OBVIOUS
    <3> HIDE DEF b
    <3> QED
      <4>1. saved[store][u] \in Content
        BY <2>1
      <4> QED
        BY <3>1, <4>1 DEF Content
  <2>3. saved' = [saved EXCEPT ![store][u] = x]
    BY <1>4, <2>1 DEF Age
  <2> HIDE DEF x
  <2>4. saved' \in [Stores -> [Users -> Content]]
    BY <2>1, <2>2, <2>3, CellType
  <2> QED
    BY <1>4, <2>4 DEF Age, TypeOK, CallInv
<1>5. ASSUME NEW c \in Clients, NEW u \in Users, NEW t \in Tokens, StoreToken(c, u, t)
      PROVE  TypeOK' /\ CallInv'
  <2> DEFINE k == [IdleCall EXCEPT !.pc = "lock", !.op = "store", !.user = u, !.token = t]
  <2>1. k \in Call /\ k.pc = "lock" /\ k.op = "store" /\ k.user = u /\ k.token = t
    BY IdleType DEF IdleCall, Call, PC, Ops
  <2> HIDE DEF k
  <2>2. call' \in [Clients -> Call] /\ CallInv'
    BY <1>5, <2>1, CallStep DEF StoreToken, Ops, k
  <2> QED
    BY <1>5, <2>2 DEF StoreToken, TypeOK
<1>6. ASSUME NEW c \in Clients, NEW u \in Users, DeleteToken(c, u)
      PROVE  TypeOK' /\ CallInv'
  <2> DEFINE k == [IdleCall EXCEPT !.pc = "lock", !.op = "delete", !.user = u]
  <2>1. k \in Call /\ k.pc = "lock" /\ k.op = "delete" /\ k.user = u
    BY IdleType DEF IdleCall, Call, PC, Ops
  <2> HIDE DEF k
  <2>2. call' \in [Clients -> Call] /\ CallInv'
    BY <1>6, <2>1, CallStep DEF DeleteToken, Ops, k
  <2> QED
    BY <1>6, <2>2 DEF DeleteToken, TypeOK
<1>7. ASSUME NEW c \in Clients, NEW u \in Users, RetrieveToken(c, u)
      PROVE  TypeOK' /\ CallInv'
  <2> DEFINE k == [IdleCall EXCEPT !.pc = "read", !.op = "retrieve", !.user = u]
  <2>1. k \in Call /\ k.pc = "read" /\ k.op = "retrieve" /\ k.user = u
    BY IdleType DEF IdleCall, Call, PC, Ops
  <2> HIDE DEF k
  <2>2. call' \in [Clients -> Call] /\ CallInv'
    BY <1>7, <2>1, CallStep DEF RetrieveToken, Ops, k
  <2>3. mu' \in M!Mutex
    BY <1>7, MutexType DEF RetrieveToken, TypeOK
  <2> QED
    BY <1>7, <2>2, <2>3 DEF RetrieveToken, TypeOK
<1>8. ASSUME NEW c \in Clients, Lock(c)
      PROVE  TypeOK' /\ CallInv'
  <2>1. call' \in [Clients -> Call] /\ CallInv'
    BY <1>8, GotoStep DEF Lock, PC
  <2>2. mu' \in M!Mutex
    BY <1>8, MutexType DEF Lock, TypeOK
  <2> QED
    BY <1>8, <2>1, <2>2 DEF Lock, TypeOK
<1>9. ASSUME NEW c \in Clients, Judge(c) \/ Unlock(c)
      PROVE  TypeOK' /\ CallInv'
  <2>1. call' \in [Clients -> Call] /\ CallInv'
    BY <1>9, GotoStep, IdleStep DEF Judge, Unlock, PC
  <2>2. mu' \in M!Mutex
    BY <1>9, MutexType DEF Judge, Unlock, TypeOK
  <2> QED
    BY <1>9, <2>1, <2>2 DEF Judge, Unlock, TypeOK
<1>10. ASSUME NEW c \in Clients, ReadStep(c)
       PROVE  TypeOK' /\ CallInv'
  <2>1. call' \in [Clients -> Call] /\ CallInv'
    BY <1>10, ReadEffect, GotStep, GotoStep, ContentType DEF PC
  <2> QED
    BY <1>10, <2>1, ReadEffect DEF TypeOK
<1>11. ASSUME NEW c \in Clients, TruncateFile(c)
       PROVE  TypeOK' /\ CallInv'
  <2>1. call' \in [Clients -> Call] /\ CallInv'
    BY <1>11, GotoStep DEF TruncateFile, PC
  <2>2. store \in Stores /\ call[c].user \in Users
    BY <1>11 DEF TruncateFile, CallInv, Stores
  <2>3. saved' \in [Stores -> [Users -> Content]]
    BY <1>11, <2>2, ContentType, CellType DEF TruncateFile, Save, TypeOK
  <2> QED
    BY <1>11, <2>1, <2>3 DEF TruncateFile, TypeOK
<1>12. ASSUME NEW c \in Clients, WriteStep(c)
       PROVE  TypeOK' /\ CallInv'
  <2>1. call' \in [Clients -> Call] /\ CallInv'
    BY <1>12, WriteEffect, GotoStep DEF PC
  <2> QED
    BY <1>12, <2>1, WriteEffect DEF TypeOK
<1>13. CASE UNCHANGED storeVars
  BY <1>13 DEF storeVars, TypeOK, CallInv
<1> QED
  BY <1>1, <1>2, <1>3, <1>4, <1>5, <1>6, <1>7, <1>8, <1>9, <1>10, <1>11, <1>12, <1>13
     DEF Next, ClientStep, ReadStep, WriteStep

\* THEOREM.  Every variable keeps its shape and there is a store whenever there are calls.
THEOREM TypeCorrect == Spec => []TypeOK
<1>1. Init => TypeOK /\ CallInv
  <2> SUFFICES ASSUME Init PROVE TypeOK /\ CallInv
    OBVIOUS
  <2>1. /\ mode \in Status /\ store = None /\ process # "up" /\ crashes \in Nat
        /\ mu \in M!Mutex
    BY FreeType DEF Init, NoStatus, Status
  <2>2. saved \in [Stores -> [Users -> Content]]
        /\ settled \in [Stores -> [Users -> Content \cup {NoToken("unknown")}]]
    BY ContentType DEF Init
  <2>3. call \in [Clients -> Call] /\ CallInv
    BY IdleType, NoneIsNothing DEF Init, CallInv, Ops
  <2> QED
    BY <2>1, <2>2, <2>3 DEF TypeOK
<1> QED
  BY <1>1, TypeStep, PTL DEF Spec

\* THEOREM.  The setting is obeyed and GetStatus tells the truth, whatever the machine shows
\* NewPAM at its two looks.
THEOREM StoreAsConfiguredHolds == Spec => []StoreAsConfigured
<1>1. Init => StoreAsConfigured
  BY DEF Init, StoreAsConfigured
<1>2. StoreAsConfigured /\ [Next]_storeVars => StoreAsConfigured'
  <2> SUFFICES ASSUME StoreAsConfigured, [Next]_storeVars PROVE StoreAsConfigured'
    OBVIOUS
  <2>1. ASSUME NEW tools \in BOOLEAN, NEW home \in BOOLEAN, InitStore(tools, home)
        PROVE  StoreAsConfigured'
    <3>1. CASE FallBack(home, "disabled") /\ setting = "false"
      BY <2>1, <3>1 DEF InitStore, StoreAsConfigured, FallBack, Refuse
    <3>2. CASE process' = "down"
      BY <3>2 DEF StoreAsConfigured
    <3>3. CASE /\ setting # "false" /\ mode.available
               /\ process' = "up" /\ store' = "clawvault" /\ UNCHANGED mode
      BY <2>1, <3>3 DEF InitStore, StoreAsConfigured
    <3>4. CASE FallBack(home, "fallback") /\ setting # "true"
      BY <2>1, <3>4 DEF InitStore, StoreAsConfigured, FallBack, Refuse
    <3> QED
      BY <2>1, <3>1, <3>2, <3>3, <3>4 DEF InitStore, Refuse
  <2>2. CASE process' # "up"
    BY <2>2 DEF StoreAsConfigured
  <2>3. CASE UNCHANGED <<setting, process, mode, store>>
    BY <2>3 DEF StoreAsConfigured
  <2> QED
    BY <2>1, <2>2, <2>3
       DEF Next, DetectClawVault, Crash, Age, StoreToken, DeleteToken, RetrieveToken, Lock,
           ClientStep, Judge, Unlock, ReadFile, SearchSecret, LookupSecret, GetSecret,
           TruncateFile, FillFile, SetSecret, DeleteStored, Rejudge, storeVars
<1> QED
  BY <1>1, <1>2, PTL DEF Spec

-----------------------------------------------------------------------------
(* The lock *)

\* Who has a result to judge or a write to finish really holds PAM.mu.
LockInv ==
    \A c \in Clients :
        /\ call[c].pc = "judge" => M!HoldsRead(mu, c)
        /\ call[c].pc \in {"fill", "rejudge", "unlock"} => M!HoldsWrite(mu, c)

\* A goroutine that moves leaves the locals of the others alone.
LEMMA OthersKeepCalls ==
    ASSUME TypeOK, NEW c \in Clients, NEW d \in Clients, d # c,
           (\E k : Become(c, k)) \/ (\E pc : Goto(c, pc)) \/ (\E r : Got(c, r))
    PROVE  call'[d] = call[d]
BY DEF TypeOK, Become, Goto, Got

\* What Goto and Got leave in the locals.
LEMMA MoverLocals ==
    ASSUME TypeOK, NEW c \in Clients
    PROVE  /\ \A pc : Goto(c, pc) => /\ call'[c].pc = pc /\ call'[c].user = call[c].user
                                     /\ call'[c].got = call[c].got
           /\ \A r : Got(c, r) =>
                 /\ call'[c].pc = (IF M!HoldsRead(mu, c) THEN "judge" ELSE "rejudge")
                 /\ call'[c].got = r /\ call'[c].user = call[c].user
           /\ Become(c, IdleCall) => call'[c].pc = "idle"
<1>1. call[c] \in Call
  BY DEF TypeOK
<1>2. ASSUME NEW pc, Goto(c, pc)
      PROVE  call'[c].pc = pc /\ call'[c].user = call[c].user /\ call'[c].got = call[c].got
  BY <1>1, <1>2 DEF Goto, Become, Call, TypeOK
<1>3. ASSUME NEW r, Got(c, r)
      PROVE  /\ call'[c].pc = (IF M!HoldsRead(mu, c) THEN "judge" ELSE "rejudge")
             /\ call'[c].got = r /\ call'[c].user = call[c].user
  <2> DEFINE pc == IF M!HoldsRead(mu, c) THEN "judge" ELSE "rejudge"
  <2>1. call'[c] = [call[c] EXCEPT !.got = r, !.pc = pc]
    BY <1>3 DEF Got, Become, TypeOK
  <2> HIDE DEF pc
  <2>2. call'[c].pc = pc /\ call'[c].got = r /\ call'[c].user = call[c].user
    BY <1>1, <2>1 DEF Call
  <2> QED
    BY <2>2 DEF pc
<1>4. Become(c, IdleCall) => call'[c].pc = "idle"
  BY IdleType DEF Become, TypeOK
<1> QED
  BY <1>2, <1>3, <1>4

\* The calls of the others on the mutex take the lock from nobody.
LEMMA LockKept ==
    ASSUME NEW m \in M!Mutex, NEW c \in Clients, NEW d \in Clients, d # c
    PROVE  /\ M!HoldsRead(m, d) =>
                 /\ M!HoldsRead(M!AfterRLock(m, c), d) /\ M!HoldsRead(M!AfterRUnlock(m, c), d)
                 /\ M!HoldsRead(M!AfterAnnounce(m, c), d) /\ M!HoldsRead(M!AfterUnlock(m), d)
           /\ M!HoldsWrite(m, d) =>
                 /\ M!HoldsWrite(M!AfterRLock(m, c), d) /\ M!HoldsWrite(M!AfterRUnlock(m, c), d)
                 /\ ~M!MayAnnounce(m) /\ ~M!HoldsWrite(m, c) /\ ~M!HoldsRead(m, c)
<1>1. None \notin Clients
  BY NoneIsNothing
<1> QED
  BY <1>1 DEF M!Mutex, M!HoldsRead, M!HoldsWrite, M!AfterRLock, M!AfterRUnlock,
              M!AfterAnnounce, M!AfterUnlock, M!MayAnnounce

\* The lock, and not a coincidence, keeps a writer alone.
LEMMA LockStep == TypeOK /\ CallInv /\ LockInv /\ [Next]_storeVars => LockInv'
<1> SUFFICES ASSUME TypeOK, CallInv, LockInv, [Next]_storeVars PROVE LockInv'
  OBVIOUS
<1>m. mu \in M!Mutex
  BY DEF TypeOK
<1> DEFINE Good(d) == /\ call'[d].pc = "judge" => M!HoldsRead(mu', d)
                      /\ call'[d].pc \in {"fill", "rejudge", "unlock"} => M!HoldsWrite(mu', d)
<1>k. ASSUME NEW c \in Clients, Good(c),
             (\E k : Become(c, k)) \/ (\E pc : Goto(c, pc)) \/ (\E r : Got(c, r)),
             \/ mu' = mu \/ mu' = M!AfterRLock(mu, c) \/ mu' = M!AfterRUnlock(mu, c)
             \/ mu' = M!AfterAnnounce(mu, c) /\ M!MayAnnounce(mu)
             \/ mu' = M!AfterUnlock(mu) /\ M!HoldsWrite(mu, c)
      PROVE  LockInv'
  <2>1. ASSUME NEW d \in Clients, d # c PROVE Good(d)
    <3>1. call'[d] = call[d]
      BY <1>k, <2>1, OthersKeepCalls
    <3>2. call[d].pc = "judge" => M!HoldsRead(mu', d)
      BY <1>k, <1>m, <2>1, LockKept DEF LockInv
    <3>3. call[d].pc \in {"fill", "rejudge", "unlock"} => M!HoldsWrite(mu', d)
      BY <1>k, <1>m, <2>1, LockKept DEF LockInv
    <3> QED
      BY <3>1, <3>2, <3>3
  <2> QED
    BY <1>k, <2>1 DEF LockInv
<1>1. ASSUME NEW c \in Clients, NEW u, NEW t,
             StoreToken(c, u, t) \/ DeleteToken(c, u) \/ RetrieveToken(c, u)
      PROVE  LockInv'
  <2>1. \E k : Become(c, k) /\ k.pc \in {"lock", "read"}
    <3> DEFINE k1 == [IdleCall EXCEPT !.pc = "lock", !.op = "store", !.user = u, !.token = t]
               k2 == [IdleCall EXCEPT !.pc = "lock", !.op = "delete", !.user = u]
               k3 == [IdleCall EXCEPT !.pc = "read", !.op = "retrieve", !.user = u]
    <3>1. k1.pc = "lock" /\ k2.pc = "lock" /\ k3.pc = "read"
      BY DEF IdleCall
    <3>2. Become(c, k1) \/ Become(c, k2) \/ Become(c, k3)
      BY <1>1 DEF StoreToken, DeleteToken, RetrieveToken
    <3> HIDE DEF k1, k2, k3
    <3> QED
      BY <3>1, <3>2
  <2>2. call'[c].pc \in {"lock", "read"}
    BY <2>1 DEF Become, TypeOK
  <2>3. mu' = mu \/ mu' = M!AfterRLock(mu, c)
    BY <1>1 DEF StoreToken, DeleteToken, RetrieveToken
  <2> QED
    BY <1>k, <2>1, <2>2, <2>3
<1>2. ASSUME NEW c \in Clients, Lock(c)
      PROVE  LockInv'
  <2>1. \E pc \in {"read", "act"} : Goto(c, pc)
    BY <1>2 DEF Lock
  <2>2. call'[c].pc \in {"read", "act"}
    BY <2>1, MoverLocals
  <2> QED
    BY <1>2, <1>k, <2>1, <2>2 DEF Lock
<1>3. ASSUME NEW c \in Clients, Judge(c)
      PROVE  LockInv'
  <2>1. Goto(c, "lock") \/ Become(c, IdleCall)
    BY <1>3 DEF Judge
  <2>2. call'[c].pc \in {"lock", "idle"}
    BY <2>1, MoverLocals
  <2> QED
    BY <1>3, <1>k, <2>1, <2>2 DEF Judge
<1>4. ASSUME NEW c \in Clients, Unlock(c)
      PROVE  LockInv'
  <2>1. Become(c, IdleCall) /\ mu' = M!AfterUnlock(mu) /\ M!HoldsWrite(mu, c)
    BY <1>4 DEF Unlock, LockInv
  <2>2. call'[c].pc = "idle"
    BY <2>1, MoverLocals
  <2> QED
    BY <1>k, <2>1, <2>2
<1>5. ASSUME NEW c \in Clients, ReadStep(c)
      PROVE  LockInv'
  <2>1. MayRead(c) /\ mu' = mu
    BY <1>5, ReadEffect
  <2>2. (\E r : Got(c, r)) \/ \E pc \in {"lookup", "resolve"} : Goto(c, pc)
    BY <1>5, ReadEffect
  <2>3. Good(c)
    BY <2>1, <2>2, MoverLocals DEF MayRead
  <2> QED
    BY <1>k, <2>1, <2>2, <2>3
<1>6. ASSUME NEW c \in Clients, TruncateFile(c)
      PROVE  LockInv'
  <2>1. M!HoldsWrite(mu, c) /\ mu' = mu /\ \E pc \in {"unlock", "fill"} : Goto(c, pc)
    BY <1>6 DEF TruncateFile
  <2>2. Good(c)
    BY <2>1, MoverLocals
  <2> QED
    BY <1>k, <2>1, <2>2
<1>7. ASSUME NEW c \in Clients, WriteStep(c)
      PROVE  LockInv'
  <2>1. M!HoldsWrite(mu, c) /\ mu' = mu /\ Goto(c, "unlock")
    BY <1>7, WriteEffect DEF LockInv
  <2>2. Good(c)
    BY <2>1, MoverLocals
  <2> QED
    BY <1>k, <2>1, <2>2
<1>8. CASE Crash
  BY <1>8, IdleType DEF Crash, LockInv
<1>9. CASE UNCHANGED <<mu, call>>
  BY <1>9 DEF LockInv
<1> QED
  BY <1>1, <1>2, <1>3, <1>4, <1>5, <1>6, <1>7, <1>8, <1>9
     DEF Next, ClientStep, ReadStep, WriteStep, DetectClawVault, InitStore, Age, storeVars

-----------------------------------------------------------------------------
(* What was acknowledged is saved *)

\* A file that is not there or torn has no token in it.
AbsentInv ==
    \A s \in Stores, u \in Users : saved[s][u].kind # "token" => saved[s][u].value = None

\* What a step may do to the stores: leave them, let a token age, start to write a file, or
\* finish one write.
LEMMA StoresStep ==
    ASSUME TypeOK, CallInv, [Next]_storeVars
    PROVE  \/ UNCHANGED <<saved, settled>>
           \/ \E u \in Users : Age(u)
           \/ \E c \in Clients : TruncateFile(c) \/ WriteStep(c)
           \/ Crash
BY DEF Next, ClientStep, WriteStep, DetectClawVault, InitStore, StoreToken, DeleteToken,
       RetrieveToken, Lock, Judge, Unlock, ReadFile, SearchSecret, LookupSecret, GetSecret,
       storeVars

\* Age and TruncateFile change one cell.
LEMMA AgeEffect ==
    ASSUME TypeOK, NEW u \in Users, Age(u)
    PROVE  /\ \A s \in Stores, v \in Users : /\ saved'[s][v].kind = saved[s][v].kind
                                             /\ saved'[s][v].value = saved[s][v].value
           /\ UNCHANGED <<store, call, settled>>
<1> DEFINE b == (saved[store][u].kind = "token")
           x == [saved[store][u] EXCEPT !.idle = b]
<1>1. store \in Stores /\ saved \in [Stores -> [Users -> Content]]
  BY DEF Age, TypeOK
<1>2. saved' = [saved EXCEPT ![store][u] = x]
  BY <1>1 DEF Age
<1>3. saved[store][u] \in Content
  BY <1>1
<1>4. x.kind = saved[store][u].kind /\ x.value = saved[store][u].value
  BY <1>3 DEF Content
<1> HIDE DEF x, b
<1>5. \A s \in Stores, v \in Users :
         saved'[s][v] = IF s = store /\ v = u THEN x ELSE saved[s][v]
  BY <1>1, <1>2
<1> QED
  BY <1>4, <1>5 DEF Age

\* TruncateFile tears the file of its user, or fails and changes nothing.
LEMMA TruncateEffect ==
    ASSUME TypeOK, CallInv, NEW c \in Clients, TruncateFile(c)
    PROVE  /\ call[c].user \in Users /\ store \in Stores
           /\ call[c].pc = "act" /\ M!HoldsWrite(mu, c)
           /\ \/ saved' = saved /\ Goto(c, "unlock")
              \/ /\ Goto(c, "fill")
                 /\ \A s \in Stores, v \in Users :
                       saved'[s][v] = IF s = store /\ v = call[c].user THEN NoToken("torn")
                                                                      ELSE saved[s][v]
           /\ UNCHANGED <<store, mu, settled>>
<1>1. call[c].user \in Users /\ store \in Stores
  BY DEF TruncateFile, CallInv, Stores
<1>2. saved \in [Stores -> [Users -> Content]]
  BY DEF TypeOK
<1> QED
  BY <1>1, <1>2 DEF TruncateFile, Save

\* No step leaves a token behind in a file that is not there or torn.
LEMMA AbsentStep == TypeOK /\ CallInv /\ AbsentInv /\ [Next]_storeVars => AbsentInv'
<1> SUFFICES ASSUME TypeOK, CallInv, AbsentInv, [Next]_storeVars,
                    NEW s \in Stores, NEW u \in Users, saved'[s][u].kind # "token"
             PROVE  saved'[s][u].value = None
  BY DEF AbsentInv
<1>1. \A kind : NoToken(kind).value = None
  BY DEF NoToken
<1>2. \A t : Fresh(t).kind = "token"
  BY DEF Fresh
<1>3. saved'[s][u] = saved[s][u] => saved'[s][u].value = None
  BY DEF AbsentInv
<1>4. ASSUME NEW v \in Users, Age(v) PROVE saved'[s][u].value = None
  BY <1>4, AgeEffect DEF AbsentInv
<1>5. ASSUME NEW c \in Clients, TruncateFile(c) PROVE saved'[s][u].value = None
  BY <1>1, <1>3, <1>5, TruncateEffect
<1>6. ASSUME NEW c \in Clients, WriteStep(c) PROVE saved'[s][u].value = None
  BY <1>1, <1>2, <1>3, <1>6, WriteEffect
<1>7. CASE UNCHANGED saved
  BY <1>3, <1>7
<1> QED
  BY <1>4, <1>5, <1>6, <1>7, StoresStep DEF Crash

\* Somebody is in the middle of writing the file of user u.
Filling(s, u) == \E c \in Clients : call[c].pc = "fill" /\ call[c].user = u /\ store = s

\* What cell (s, u) must hold is unknown, or it holds that.
Kept(s, u) == \/ settled[s][u].kind = "unknown"
              \/ /\ saved[s][u].kind = settled[s][u].kind
                 /\ saved[s][u].value = settled[s][u].value

\* Every step keeps what was acknowledged in the store.
LEMMA AckStep ==
    TypeOK /\ CallInv /\ AcknowledgedIsSaved /\ [Next]_storeVars => AcknowledgedIsSaved'
<1> SUFFICES ASSUME TypeOK, CallInv, AcknowledgedIsSaved, [Next]_storeVars,
                    NEW s \in Stores, NEW u \in Users
             PROVE  Kept(s, u)' \/ Filling(s, u)'
  BY DEF AcknowledgedIsSaved, Kept, Filling
<1>1. Kept(s, u) \/ Filling(s, u)
  BY DEF AcknowledgedIsSaved, Kept, Filling
<1>2. CASE Crash
  <2>1. store \in Stores /\ UNCHANGED saved
    BY <1>2 DEF Crash, TypeOK
  <2>2. /\ settled \in [Stores -> [Users -> Content \cup {NoToken("unknown")}]]
        /\ settled' = [settled EXCEPT ![store] = [v \in Users |->
                         IF \E c \in Clients : call[c].pc = "fill" /\ call[c].user = v
                         THEN NoToken("unknown") ELSE settled[store][v]]]
    BY <1>2 DEF Crash, TypeOK
  <2>3. settled'[s][u] = IF Filling(s, u) THEN NoToken("unknown") ELSE settled[s][u]
    BY <2>1, <2>2 DEF Filling
  <2>4. NoToken("unknown").kind = "unknown"
    BY DEF NoToken
  <2> QED
    BY <1>1, <2>1, <2>3, <2>4 DEF Kept
<1>3. ASSUME NEW v \in Users, Age(v)
      PROVE  Kept(s, u)' \/ Filling(s, u)'
  BY <1>1, <1>3, AgeEffect DEF Kept, Filling
<1>4. ASSUME NEW c \in Clients, TruncateFile(c)
      PROVE  Kept(s, u)' \/ Filling(s, u)'
  <2>1. CASE s = store /\ u = call[c].user /\ Goto(c, "fill")
    BY <1>4, <2>1, TruncateEffect, MoverLocals DEF Filling
  <2>2. CASE saved'[s][u] = saved[s][u]
    <3>1. Filling(s, u) => Filling(s, u)'
      BY <1>4, TruncateEffect, OthersKeepCalls DEF Filling
    <3> QED
      BY <1>1, <1>4, <2>2, <3>1, TruncateEffect DEF Kept
  <2> QED
    BY <1>4, <2>1, <2>2, TruncateEffect
<1>5. ASSUME NEW c \in Clients, WriteStep(c)
      PROVE  Kept(s, u)' \/ Filling(s, u)'
  <2>1. ASSUME NEW d \in Clients, call[d].pc = "fill", call[d].user = u, store = s, d # c
        PROVE  Filling(s, u)'
    BY <1>5, <2>1, WriteEffect, OthersKeepCalls DEF Filling
  <2>2. CASE s = store /\ u = call[c].user
    <3>1. \/ settled'[s][u].kind = "unknown" \/ saved'[s][u] = settled'[s][u]
          \/ /\ saved'[s][u] = saved[s][u] /\ settled'[s][u] = settled[s][u]
             /\ call[c].pc # "fill"
      BY <1>5, <2>2, WriteEffect DEF Agrees
    <3> QED
      BY <1>1, <2>1, <3>1 DEF Kept, Filling
  <2>3. CASE ~(s = store /\ u = call[c].user)
    <3>1. saved'[s][u] = saved[s][u] /\ settled'[s][u] = settled[s][u]
      BY <1>5, <2>3, WriteEffect
    <3> QED
      BY <1>1, <2>1, <2>3, <3>1 DEF Kept, Filling
  <2> QED
    BY <2>2, <2>3
<1>6. CASE UNCHANGED <<saved, settled>> /\ ~Filling(s, u)
  BY <1>1, <1>6 DEF Kept
<1>7. CASE /\ UNCHANGED <<saved, settled>> /\ ~Crash
           /\ ~(\E c \in Clients : TruncateFile(c) \/ WriteStep(c))
           /\ Filling(s, u)
  \* Nobody but FillFile leaves "fill".
  <2>1. PICK d \in Clients : call[d].pc = "fill" /\ call[d].user = u /\ store = s
    BY <1>7 DEF Filling
  <2>2. process = "up" /\ UNCHANGED store
    BY <1>7, <2>1 DEF CallInv, Next, Crash, ClientStep, WriteStep, DetectClawVault, InitStore,
       StoreToken, DeleteToken, RetrieveToken, Age, Lock, Judge, Unlock, ReadFile, SearchSecret,
       LookupSecret, GetSecret, storeVars
  <2>3. \/ call' = call
        \/ \E c \in Clients : c # d /\ ((\E k : Become(c, k)) \/ (\E pc : Goto(c, pc))
                                                             \/ (\E r : Got(c, r)))
    BY <1>7, <2>1, <2>2
       DEF Next, ClientStep, WriteStep, DetectClawVault, InitStore, StoreToken,
           DeleteToken, RetrieveToken, Age, Lock, Judge, Unlock, ReadFile, SearchSecret,
           LookupSecret, GetSecret, storeVars
  <2>4. call'[d] = call[d]
    BY <2>3, OthersKeepCalls
  <2> QED
    BY <2>1, <2>2, <2>4 DEF Filling
<1> QED
  BY <1>2, <1>3, <1>4, <1>5, <1>6, <1>7, StoresStep

\* The parts of the inductive invariant hold in every reachable state.
LEMMA StagesHold == Spec => [](TypeOK /\ CallInv /\ LockInv /\ AbsentInv)
<1>1. Init => CallInv /\ LockInv /\ AbsentInv
  <2> SUFFICES ASSUME Init PROVE CallInv /\ LockInv /\ AbsentInv
    OBVIOUS
  <2>1. \A c \in Clients : call[c] = IdleCall
    BY DEF Init
  <2>2. CallInv /\ LockInv
    BY <2>1, IdleType, NoneIsNothing DEF CallInv, LockInv, Ops
  <2>3. AbsentInv
    BY DEF Init, AbsentInv, NoToken
  <2> QED
    BY <2>2, <2>3
<1> QED
  BY <1>1, TypeCorrect, TypeStep, LockStep, AbsentStep, PTL DEF Spec

\* THEOREM.  What was stored or deleted with success is what the store holds, through crashes
\* and while the other store is in use.
THEOREM AcknowledgedIsSavedHolds == Spec => []AcknowledgedIsSaved
<1>1. Init => AcknowledgedIsSaved
  BY DEF Init, AcknowledgedIsSaved
<1> QED
  BY <1>1, AckStep, StagesHold, PTL DEF Spec

-----------------------------------------------------------------------------
(* Reads are current *)

\* A result to judge was there before, or it has just been read.
LEMMA GotOrigin ==
    ASSUME TypeOK, CallInv, [Next]_storeVars, NEW c \in Clients,
           call'[c].pc \in {"judge", "rejudge"}
    PROVE  \/ call'[c] = call[c] /\ UNCHANGED store
           \/ ReadStep(c) /\ \E r : Got(c, r)
<1>1. ASSUME NEW d \in Clients, d # c,
             (\E k : Become(d, k)) \/ (\E pc : Goto(d, pc)) \/ (\E r : Got(d, r))
      PROVE  call'[c] = call[c]
  BY <1>1, OthersKeepCalls
<1>2. ASSUME NEW k, Become(c, k), k.pc \in {"lock", "read", "idle"}
      PROVE  FALSE
  BY <1>2 DEF Become, TypeOK
<1>3. ASSUME NEW pc \in {"lock", "read", "act", "fill", "unlock", "lookup", "resolve"},
             Goto(c, pc)
      PROVE  FALSE
  BY <1>3, MoverLocals
<1>4. ASSUME NEW d \in Clients, NEW u, NEW t,
             StoreToken(d, u, t) \/ DeleteToken(d, u) \/ RetrieveToken(d, u)
      PROVE  call'[c] = call[c] /\ UNCHANGED store
  <2> DEFINE k1 == [IdleCall EXCEPT !.pc = "lock", !.op = "store", !.user = u, !.token = t]
             k2 == [IdleCall EXCEPT !.pc = "lock", !.op = "delete", !.user = u]
             k3 == [IdleCall EXCEPT !.pc = "read", !.op = "retrieve", !.user = u]
  <2>1. k1.pc = "lock" /\ k2.pc = "lock" /\ k3.pc = "read"
    BY DEF IdleCall
  <2>2. (Become(d, k1) \/ Become(d, k2) \/ Become(d, k3)) /\ UNCHANGED store
    BY <1>4 DEF StoreToken, DeleteToken, RetrieveToken
  <2> HIDE DEF k1, k2, k3
  <2> QED
    BY <1>1, <1>2, <2>1, <2>2
<1>5. ASSUME NEW d \in Clients, Lock(d) \/ Judge(d) \/ Unlock(d)
      PROVE  call'[c] = call[c] /\ UNCHANGED store
  <2>1. (\E pc \in {"read", "act", "lock"} : Goto(d, pc)) \/ Become(d, IdleCall)
    BY <1>5 DEF Lock, Judge, Unlock
  <2>2. UNCHANGED store
    BY <1>5 DEF Lock, Judge, Unlock
  <2> QED
    BY <1>1, <1>2, <1>3, <2>1, <2>2, IdleType
<1>6. ASSUME NEW d \in Clients, TruncateFile(d) \/ WriteStep(d)
      PROVE  call'[c] = call[c] /\ UNCHANGED store
  <2>1. (\E pc \in {"fill", "unlock"} : Goto(d, pc)) /\ UNCHANGED store
    BY <1>6, TruncateEffect, WriteEffect
  <2> QED
    BY <1>1, <1>3, <2>1
<1>7. ASSUME NEW d \in Clients, ReadStep(d)
      PROVE  \/ call'[c] = call[c] /\ UNCHANGED store
             \/ ReadStep(c) /\ \E r : Got(c, r)
  <2>1. /\ (\E r : Got(d, r)) \/ \E pc \in {"lookup", "resolve"} : Goto(d, pc)
        /\ UNCHANGED store
    BY <1>7, ReadEffect
  <2> QED
    BY <1>1, <1>3, <1>7, <2>1
<1>8. ASSUME NEW tools \in BOOLEAN, NEW other \in BOOLEAN,
             DetectClawVault(tools, other) \/ InitStore(tools, other)
      PROVE  FALSE
  \* No call is under way in a process that is not up yet.
  BY <1>8 DEF DetectClawVault, InitStore, CallInv
<1>9. ~Crash
  BY IdleType DEF Crash
<1>10. CASE UNCHANGED <<call, store>>
  BY <1>10
<1> QED
  BY <1>4, <1>5, <1>6, <1>7, <1>8, <1>9, <1>10
     DEF Next, ClientStep, ReadStep, WriteStep, Age, storeVars

\* No step makes a result stale before it is judged.
LEMMA ReadsStep ==
    TypeOK /\ CallInv /\ LockInv /\ AbsentInv /\ AcknowledgedIsSaved /\ ReadsAreCurrent
      /\ [Next]_storeVars => ReadsAreCurrent'
<1> SUFFICES ASSUME TypeOK, CallInv, LockInv, AbsentInv, AcknowledgedIsSaved, ReadsAreCurrent,
                    [Next]_storeVars, NEW c \in Clients,
                    call'[c].pc \in {"judge", "rejudge"}, call'[c].got.kind # "error",
                    settled'[store'][call'[c].user].kind # "unknown"
             PROVE  /\ call'[c].got.kind = settled'[store'][call'[c].user].kind
                    /\ call'[c].got.value = settled'[store'][call'[c].user].value
  BY DEF ReadsAreCurrent
<1> DEFINE u == call[c].user
<1>m. mu \in M!Mutex
  BY DEF TypeOK
<1>1. CASE call'[c] = call[c] /\ UNCHANGED store
  <2>1. u \in Users /\ store \in Stores
    BY <1>1 DEF CallInv, TypeOK
  <2>2. settled'[store][u] = settled[store][u]
    <3>1. ASSUME NEW d \in Clients, WriteStep(d) PROVE FALSE
      <4>1. d # c
        BY <1>1, <3>1, WriteEffect, MoverLocals
      <4>2. M!HoldsWrite(mu, d)
        BY <3>1, WriteEffect DEF LockInv
      <4>3. M!HoldsRead(mu, c) \/ M!HoldsWrite(mu, c)
        BY <1>1 DEF LockInv
      <4> QED
        BY <1>m, <4>1, <4>2, <4>3, LockKept
    <3>2. ~Crash
      BY IdleType DEF Crash
    <3> QED
      BY <3>1, <3>2, StoresStep, AgeEffect, TruncateEffect
  <2> QED
    BY <1>1, <2>2 DEF ReadsAreCurrent
<1>2. CASE ReadStep(c) /\ \E r : Got(c, r)
  <2> DEFINE content == saved[store][u]
  <2>1. /\ u \in Users /\ store \in Stores /\ MayRead(c) /\ UNCHANGED <<store, settled>>
        /\ call[c].pc \in {"read", "lookup", "resolve"}
    BY <1>2, ReadEffect
  <2>2. call'[c].user = u /\ \A r : Got(c, r) => call'[c].got = r
    BY <1>2, MoverLocals
  <2>3. ~(\E d \in Clients : call[d].pc = "fill")
    <3> SUFFICES ASSUME NEW d \in Clients, call[d].pc = "fill" PROVE FALSE
      OBVIOUS
    <3>1. M!HoldsWrite(mu, d) /\ d # c
      BY <2>1 DEF LockInv
    <3> QED
      BY <1>m, <2>1, <3>1, LockKept DEF MayRead
  <2>4. content.kind = settled[store][u].kind /\ content.value = settled[store][u].value
    BY <2>1, <2>2, <2>3 DEF AcknowledgedIsSaved
  <2>5. \/ call'[c].got = content \/ call'[c].got = NoToken("error")
        \/ content.kind = "absent" /\ call'[c].got = NoToken("absent")
    <3>1. \A pc \in {"lookup", "resolve"} : ~Goto(c, pc)
      BY MoverLocals
    <3> QED
      BY <1>2, <2>2, <3>1, ReadEffect
  <2>6. content.kind = "absent" => content.value = None
    BY <2>1 DEF AbsentInv
  <2>7. /\ NoToken("error").kind = "error" /\ NoToken("absent").kind = "absent"
        /\ NoToken("absent").value = None
    BY DEF NoToken
  <2> QED
    BY <2>1, <2>2, <2>4, <2>5, <2>6, <2>7
<1> QED
  BY <1>1, <1>2, GotOrigin

\* THEOREM.  No retrieval returns a token that was replaced or deleted before it returned.
THEOREM ReadsAreCurrentHolds == Spec => []ReadsAreCurrent
<1>1. Init => ReadsAreCurrent
  BY IdleType DEF Init, ReadsAreCurrent
<1> QED
  BY <1>1, ReadsStep, StagesHold, AcknowledgedIsSavedHolds, PTL DEF Spec

-----------------------------------------------------------------------------
(* The lock closes no circle *)

\* Where a call with locals k of goroutine c stands at mutex m: nowhere, among the readers,
\* parked, or as the writer, and nowhere twice.
PlaceAt(c, k, m) ==
    /\ k.pc \in {"idle", "lock"} =>
          m.writer # c /\ c \notin m.readers /\ c \notin m.parked
    /\ k.pc = "read" => m.writer = c \/ c \in m.readers \/ c \in m.parked
    /\ k.pc \in {"lookup", "resolve"} => M!HoldsRead(m, c) \/ M!HoldsWrite(m, c)
    /\ k.pc = "act" => m.writer = c /\ k.op \in {"store", "delete"}
    /\ m.writer = c => c \notin m.readers /\ c \notin m.parked
    /\ c \in m.readers => c \notin m.parked

\* Readers are parked only behind a writer.
PlaceInv == /\ \A c \in Clients : PlaceAt(c, call[c], mu)
            /\ mu.writer = None => mu.parked = {}

\* What goroutine c may do to the mutex.
Uses(c, m, n) == \/ n = m \/ n = M!AfterRLock(m, c) \/ n = M!AfterRUnlock(m, c)
                 \/ n = M!AfterAnnounce(m, c) /\ M!MayAnnounce(m)
                 \/ n = M!AfterUnlock(m) /\ M!HoldsWrite(m, c)

\* The calls of one goroutine on the mutex leave the others in their place.
LEMMA PlaceKept ==
    ASSUME NEW m \in M!Mutex, NEW n, NEW c \in Clients, NEW d \in Clients, d # c,
           NEW k, PlaceAt(d, k, m), Uses(c, m, n)
    PROVE  PlaceAt(d, k, n)
<1>0. None \notin Clients
  BY NoneIsNothing
<1>1. /\ n.writer = d <=> m.writer = d
      /\ d \in n.readers \/ d \in n.parked <=> d \in m.readers \/ d \in m.parked
      /\ d \in m.readers => d \in n.readers
  BY <1>0 DEF Uses, M!Mutex, M!AfterRLock, M!AfterRUnlock, M!AfterAnnounce, M!MayAnnounce,
              M!AfterUnlock, M!HoldsWrite
<1>2. d \in n.readers => d \notin n.parked
  BY DEF PlaceAt, Uses, M!Mutex, M!AfterRLock, M!AfterRUnlock, M!AfterAnnounce, M!AfterUnlock
<1>3. M!HoldsRead(m, d) \/ M!HoldsWrite(m, d) => M!HoldsRead(n, d) \/ M!HoldsWrite(n, d)
  BY LockKept DEF Uses
<1> QED
  BY <1>1, <1>2, <1>3 DEF PlaceAt

\* Nobody is parked when nobody writes.
LEMMA ParkedBehindWriter ==
    ASSUME NEW m \in M!Mutex, NEW n, NEW c \in Clients, Uses(c, m, n),
           m.writer = None => m.parked = {}
    PROVE  n.writer = None => n.parked = {}
BY NoneIsNothing DEF Uses, M!Mutex, M!AfterRLock, M!AfterRUnlock, M!AfterAnnounce, M!AfterUnlock

\* Every call takes its place at PAM.mu and leaves it again.
LEMMA PlaceStep ==
    TypeOK /\ CallInv /\ LockInv /\ PlaceInv /\ [Next]_storeVars => PlaceInv'
<1> SUFFICES ASSUME TypeOK, CallInv, LockInv, PlaceInv, [Next]_storeVars PROVE PlaceInv'
  OBVIOUS
<1>m. mu \in M!Mutex /\ None \notin Clients
  BY NoneIsNothing DEF TypeOK
<1>p. \A c \in Clients : PlaceAt(c, call[c], mu)
  BY DEF PlaceInv
<1>k. ASSUME NEW c \in Clients, PlaceAt(c, call'[c], mu'), Uses(c, mu, mu'),
             (\E k : Become(c, k)) \/ (\E pc : Goto(c, pc)) \/ (\E r : Got(c, r))
      PROVE  PlaceInv'
  <2>1. ASSUME NEW d \in Clients, d # c PROVE PlaceAt(d, call'[d], mu')
    BY <1>k, <1>m, <1>p, <2>1, OthersKeepCalls, PlaceKept
  <2>2. mu'.writer = None => mu'.parked = {}
    BY <1>k, <1>m, ParkedBehindWriter DEF PlaceInv
  <2> QED
    BY <1>k, <2>1, <2>2 DEF PlaceInv
<1>1. ASSUME NEW c \in Clients, NEW u, NEW t, StoreToken(c, u, t) \/ DeleteToken(c, u)
      PROVE  PlaceInv'
  <2>1. \E k : Become(c, k) /\ k.pc = "lock"
    <3> DEFINE k1 == [IdleCall EXCEPT !.pc = "lock", !.op = "store", !.user = u, !.token = t]
               k2 == [IdleCall EXCEPT !.pc = "lock", !.op = "delete", !.user = u]
    <3>1. k1.pc = "lock" /\ k2.pc = "lock"
      BY DEF IdleCall
    <3>2. Become(c, k1) \/ Become(c, k2)
      BY <1>1 DEF StoreToken, DeleteToken
    <3> HIDE DEF k1, k2
    <3> QED
      BY <3>1, <3>2
  <2>2. call'[c].pc = "lock"
    BY <2>1 DEF Become, TypeOK
  <2>3. mu' = mu /\ call[c].pc = "idle"
    BY <1>1 DEF StoreToken, DeleteToken
  <2>4. PlaceAt(c, call'[c], mu')
    BY <1>p, <2>2, <2>3 DEF PlaceAt
  <2> QED
    BY <1>k, <2>1, <2>3, <2>4 DEF Uses
<1>2. ASSUME NEW c \in Clients, NEW u, RetrieveToken(c, u)
      PROVE  PlaceInv'
  <2> DEFINE k == [IdleCall EXCEPT !.pc = "read", !.op = "retrieve", !.user = u]
  <2>1. Become(c, k) /\ mu' = M!AfterRLock(mu, c) /\ call[c].pc = "idle"
    BY <1>2 DEF RetrieveToken
  <2>2. k.pc = "read"
    BY DEF IdleCall
  <2> HIDE DEF k
  <2>3. call'[c].pc = "read"
    BY <2>1, <2>2 DEF Become, TypeOK
  <2>4. mu.writer # c /\ c \notin mu.readers /\ c \notin mu.parked
    BY <1>p, <2>1 DEF PlaceAt
  <2>5. PlaceAt(c, call'[c], mu')
    BY <1>m, <2>1, <2>3, <2>4 DEF PlaceAt, M!AfterRLock, M!Mutex
  <2> QED
    BY <1>k, <2>1, <2>5 DEF Uses
<1>3. ASSUME NEW c \in Clients, Lock(c)
      PROVE  PlaceInv'
  <2>1. /\ call[c].pc = "lock" /\ M!MayAnnounce(mu) /\ mu' = M!AfterAnnounce(mu, c)
        /\ Goto(c, IF call[c].op = "retrieve" THEN "read" ELSE "act")
    BY <1>3 DEF Lock
  <2>2. /\ call'[c].pc = (IF call[c].op = "retrieve" THEN "read" ELSE "act")
        /\ call'[c].op = call[c].op
    BY <2>1 DEF Goto, Become, TypeOK, Call
  <2>3. call[c].op \in Ops
    BY <2>1 DEF CallInv
  <2>4. mu'.writer = c /\ c \notin mu'.readers /\ c \notin mu'.parked
    BY <1>m, <1>p, <2>1 DEF PlaceAt, M!AfterAnnounce, M!Mutex
  <2>5. PlaceAt(c, call'[c], mu')
    BY <2>2, <2>3, <2>4 DEF PlaceAt, Ops
  <2> QED
    BY <1>k, <2>1, <2>5 DEF Uses
<1>4. ASSUME NEW c \in Clients, Judge(c)
      PROVE  PlaceInv'
  <2>1. /\ mu' = M!AfterRUnlock(mu, c) /\ c \in mu.readers
        /\ Goto(c, "lock") \/ Become(c, IdleCall)
    BY <1>4 DEF Judge, LockInv, M!HoldsRead
  <2>2. call'[c].pc \in {"lock", "idle"}
    BY <2>1, MoverLocals
  <2>3. mu.writer # c /\ c \notin mu.parked
    BY <1>p, <2>1 DEF PlaceAt
  <2>4. PlaceAt(c, call'[c], mu')
    BY <1>m, <2>1, <2>2, <2>3 DEF PlaceAt, M!AfterRUnlock, M!Mutex
  <2> QED
    BY <1>k, <2>1, <2>4 DEF Uses
<1>5. ASSUME NEW c \in Clients, Unlock(c)
      PROVE  PlaceInv'
  <2>1. Become(c, IdleCall) /\ mu' = M!AfterUnlock(mu) /\ M!HoldsWrite(mu, c)
    BY <1>5 DEF Unlock, LockInv
  <2>2. call'[c].pc = "idle"
    BY <2>1, MoverLocals
  <2>3. c \notin mu.readers /\ c \notin mu.parked
    BY <1>p, <2>1 DEF PlaceAt, M!HoldsWrite
  <2>4. PlaceAt(c, call'[c], mu')
    BY <1>m, <2>1, <2>2, <2>3 DEF PlaceAt, M!AfterUnlock, M!Mutex
  <2> QED
    BY <1>k, <2>1, <2>4 DEF Uses
<1>6. ASSUME NEW c \in Clients, ReadStep(c)
      PROVE  PlaceInv'
  <2>1. MayRead(c) /\ mu' = mu
    BY <1>6, ReadEffect
  <2>2. (\E r : Got(c, r)) \/ \E pc \in {"lookup", "resolve"} : Goto(c, pc)
    BY <1>6, ReadEffect
  <2>3. call'[c].pc \in {"judge", "rejudge", "lookup", "resolve"}
    BY <2>2, MoverLocals
  <2>4. PlaceAt(c, call'[c], mu')
    BY <1>p, <2>1, <2>3 DEF PlaceAt, MayRead
  <2> QED
    BY <1>k, <2>1, <2>2, <2>4 DEF Uses
<1>7. ASSUME NEW c \in Clients, TruncateFile(c) \/ WriteStep(c)
      PROVE  PlaceInv'
  <2>1. mu' = mu /\ \E pc \in {"unlock", "fill"} : Goto(c, pc)
    BY <1>7, TruncateEffect, WriteEffect
  <2>2. call'[c].pc \in {"unlock", "fill"}
    BY <2>1, MoverLocals
  <2>3. PlaceAt(c, call'[c], mu')
    BY <1>p, <2>1, <2>2 DEF PlaceAt
  <2> QED
    BY <1>k, <2>1, <2>3 DEF Uses
<1>8. CASE Crash
  <2>1. mu' = M!FreeMutex /\ \A c \in Clients : call'[c] = IdleCall
    BY <1>8 DEF Crash
  <2> QED
    BY <1>m, <2>1, IdleType DEF PlaceInv, PlaceAt, M!FreeMutex
<1>9. CASE UNCHANGED <<mu, call>>
  BY <1>9 DEF PlaceInv
<1> QED
  BY <1>1, <1>2, <1>3, <1>4, <1>5, <1>6, <1>7, <1>8, <1>9
     DEF Next, ClientStep, ReadStep, WriteStep, DetectClawVault, InitStore, Age, storeVars

\* Whoever stands at the mutex finds somebody who can go on.
LEMMA NoCircle == TypeOK /\ CallInv /\ LockInv /\ PlaceInv => NobodyWaitsInACircle
<1> SUFFICES ASSUME TypeOK, CallInv, LockInv, PlaceInv,
                    NEW c \in Clients, call[c].pc # "idle", ~CanGoOn(c)
             PROVE  \E d \in Clients :
                       /\ WaitsFor(c, d)
                       /\ CanGoOn(d) \/ \E e \in Clients : WaitsFor(d, e) /\ CanGoOn(e)
  BY DEF NobodyWaitsInACircle
<1>0. mu \in M!Mutex /\ None \notin Clients /\ \A d \in Clients : call[d].pc \in PC
  BY NoneIsNothing DEF TypeOK, Call
<1>1. \A d \in Clients : PlaceAt(d, call[d], mu)
  BY DEF PlaceInv
<1>2. ASSUME NEW e \in Clients, e \in mu.readers
      PROVE  CanGoOn(e)
  <2>1. call[e].pc \notin {"idle", "lock", "act"}
    BY <1>1, <1>2 DEF PlaceAt
  <2> QED
    BY <1>0, <1>2, <2>1 DEF PC, CanGoOn, MayRead, M!HoldsRead
<1>3. ASSUME NEW d \in Clients, mu.writer = d
      PROVE  CanGoOn(d) \/ \E e \in Clients : WaitsFor(d, e) /\ CanGoOn(e)
  <2>1. call[d].pc \notin {"idle", "lock"}
    BY <1>1, <1>3 DEF PlaceAt
  <2>2. CASE mu.readers = {}
    <3>1. M!HoldsWrite(mu, d)
      BY <1>3, <2>2 DEF M!HoldsWrite
    <3>2. call[d].pc = "act" => call[d].op \in {"store", "delete"}
      BY <1>1 DEF PlaceAt
    <3> QED
      BY <1>0, <2>1, <3>1, <3>2 DEF PC, CanGoOn, MayRead
  <2>3. CASE mu.readers # {}
    <3>1. PICK e \in Clients : e \in mu.readers
      BY <1>0, <2>3 DEF M!Mutex
    <3> QED
      BY <1>2, <1>3, <3>1 DEF WaitsFor
  <2> QED
    BY <2>2, <2>3
<1>4. CASE call[c].pc = "lock" \/ c \in mu.parked
  <2>1. mu.writer # None
    BY <1>4 DEF CanGoOn, M!MayAnnounce, PlaceInv
  <2>2. mu.writer \in Clients
    BY <1>0, <2>1 DEF M!Mutex
  <2> QED
    BY <1>3, <1>4, <2>2 DEF WaitsFor
<1>5. CASE mu.writer = c
  <2>1. PICK e \in Clients : WaitsFor(c, e) /\ CanGoOn(e)
    BY <1>3, <1>5
  <2> QED
    BY <2>1
<1>6. CASE c \in mu.readers
  BY <1>2, <1>6
<1>7. call[c].pc \in {"lookup", "resolve", "judge", "fill", "rejudge", "unlock"} => CanGoOn(c)
  BY <1>1 DEF PlaceAt, CanGoOn, MayRead
<1>8. call[c].pc \in {"read", "act"} =>
          mu.writer = c \/ c \in mu.readers \/ c \in mu.parked
  BY <1>1 DEF PlaceAt
<1> QED
  BY <1>0, <1>4, <1>5, <1>6, <1>7, <1>8 DEF PC

\* THEOREM.  No call of the token service waits in a circle of calls, although a retrieval
\* that finds an idle token comes back for the write lock, for any number of goroutines.
THEOREM NobodyWaitsInACircleHolds == Spec => []NobodyWaitsInACircle
<1>1. Init => PlaceInv
  BY NoneIsNothing, IdleType DEF Init, PlaceInv, PlaceAt, M!FreeMutex
<1> QED
  BY <1>1, PlaceStep, NoCircle, StagesHold, PTL DEF Spec
=============================================================================
