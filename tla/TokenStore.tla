------------------------------ MODULE TokenStore ------------------------------
(***************************************************************************)
(* The token service of internal/pam: which store a starting process       *)
(* chooses (NewPAM: the ClawVault keyring or encrypted files), and         *)
(* StoreToken, RetrieveToken and DeleteToken under PAM.mu, one system call *)
(* or child process at a time.  A child process that fails or times out    *)
(* may have done its work; a file that is being written is torn in         *)
(* between; the process can die at any moment, and the next one may choose *)
(* the other store.                                                        *)
(***************************************************************************)
EXTENDS Naturals

CONSTANTS
    Clients,      \* goroutines that call the service
    Users,        \* whose tokens they are
    Tokens,       \* token values
    None,         \* nothing
    Settings,     \* what config.UseClawVault may be: "auto", "true", "false"
    MaxCrashes    \* bound: how often the process dies while it serves

VARIABLES
    setting,    \* config.UseClawVault, fixed
    process,    \* "down", "detected" (between the two looks of NewPAM) or "up"
    crashes,    \* how often the process died
    mode,       \* PAM.clawvaultMode
    store,      \* PAM.store
    saved,      \* saved[s][u]: what store s has for user u, outlives the process
    mu,         \* PAM.mu
    call,       \* call[c]: the locals of the call on goroutine c
    settled     \* history: settled[s][u], what must be there, or "unknown"

storeVars == <<setting, process, crashes, mode, store, saved, mu, call, settled>>

M == INSTANCE RWMutex WITH Goroutines <- Clients

-----------------------------------------------------------------------------
(* Tokens, modes and calls *)

Stores == {"local", "clawvault"}
Ops == {"store", "retrieve", "delete"}

ASSUME TokenStoreAssumption ==
    /\ None \notin Clients \cup Users \cup Tokens \cup Stores \cup Ops
    /\ Settings \subseteq {"auto", "true", "false"}
    /\ MaxCrashes \in Nat

\* "torn": a truncated file, which does not decrypt.  "idle": LastUsedAt is past the TTL.
Content == [kind: {"absent", "torn", "token"}, value: Tokens \cup {None}, idle: BOOLEAN]
NoToken(kind) == [kind |-> kind, value |-> None, idle |-> FALSE]
Fresh(t) == [kind |-> "token", value |-> t, idle |-> FALSE]

\* What a read returned: contents, or an error that says nothing about them.
Result == Content \cup {NoToken("error")}

\* ClawVaultStatus: endpoint stands for a socket, a network port or Tailscale.
Status == [available: BOOLEAN,
           mode: {"none", "secret-tool", "endpoint", "fallback", "disabled"}]
NoStatus == [available |-> FALSE, mode |-> "none"]

PC == {"idle", "read", "lookup", "resolve", "judge", "lock", "act", "fill", "rejudge", "unlock"}
Call == [pc: PC, op: Ops \cup {None}, user: Users \cup {None},
         token: Tokens \cup {None}, got: Result]
IdleCall == [pc |-> "idle", op |-> None, user |-> None, token |-> None,
             got |-> NoToken("absent")]

-----------------------------------------------------------------------------
(* NewPAM *)

\* detectClawVault: secret-tool and clawvault are on the PATH, else a socket or a port.
DetectClawVault(tools, endpoint) ==
    /\ process = "down"
    /\ process' = "detected"
    /\ mode' = CASE tools -> [available |-> TRUE, mode |-> "secret-tool"]
                 [] ~tools /\ endpoint -> [available |-> TRUE, mode |-> "endpoint"]
                 [] OTHER -> NoStatus
    /\ UNCHANGED <<setting, crashes, store, saved, mu, call, settled>>

\* NewPAM fails, main exits, and the process is started again some time.
Refuse == /\ process' = "down"
          /\ mode' = NoStatus
          /\ UNCHANGED store

\* newFallbackStore, which needs a home directory.
FallBack(home, why) ==
    IF home THEN /\ process' = "up"
                 /\ store' = "local"
                 /\ mode' = [available |-> FALSE, mode |-> why]
            ELSE Refuse

\* Mutant: "true" is only looked at before the availability check.
InitStoreFallsBack(tools, home) ==
    /\ process = "detected"
    /\ CASE setting = "false" -> FallBack(home, "disabled")
         [] setting = "true" /\ ~mode.available -> Refuse
         [] setting # "false" /\ mode.available /\ tools ->
              process' = "up" /\ store' = "clawvault" /\ UNCHANGED mode
         [] OTHER -> FallBack(home, "fallback")
    /\ UNCHANGED <<setting, crashes, saved, mu, call, settled>>

\* detectAndInitStore after the detection: the configuration decides, and CheckAvailability
\* looks for the two programs again, whatever the detection found.
InitStore(tools, home) ==
    /\ process = "detected"
    /\ CASE setting = "false" -> FallBack(home, "disabled")
         [] setting = "true" /\ ~(mode.available /\ tools) -> Refuse
         [] setting # "false" /\ mode.available /\ tools ->
              process' = "up" /\ store' = "clawvault" /\ UNCHANGED mode
         [] OTHER -> FallBack(home, "fallback")
    /\ UNCHANGED <<setting, crashes, saved, mu, call, settled>>

\* The process dies with all its goroutines.
Crash ==
    /\ process = "up"
    /\ crashes < MaxCrashes
    /\ crashes' = crashes + 1
    /\ process' = "down"
    /\ mode' = NoStatus
    /\ store' = None
    /\ mu' = M!FreeMutex
    /\ call' = [c \in Clients |-> IdleCall]
    /\ settled' = [settled EXCEPT ![store] = [u \in Users |->
                     IF \E c \in Clients : call[c].pc = "fill" /\ call[c].user = u
                     THEN NoToken("unknown") ELSE @[u]]]
    /\ UNCHANGED <<setting, saved>>

-----------------------------------------------------------------------------
(* Calls and the lock *)

\* Time passes: a token that nobody used is past its TTL.
Age(u) ==
    /\ process = "up"
    /\ saved' = [saved EXCEPT ![store][u].idle = (saved[store][u].kind = "token")]
    /\ UNCHANGED <<setting, process, crashes, mode, store, mu, call, settled>>

Become(c, new) == call' = [call EXCEPT ![c] = new]
Goto(c, pc) == Become(c, [call[c] EXCEPT !.pc = pc])
Got(c, result) ==
    Become(c, [call[c] EXCEPT !.got = result,
                              !.pc = IF M!HoldsRead(mu, c) THEN "judge" ELSE "rejudge"])

StoreToken(c, u, t) ==
    /\ process = "up" /\ call[c].pc = "idle"
    /\ Become(c, [IdleCall EXCEPT !.pc = "lock", !.op = "store", !.user = u, !.token = t])
    /\ UNCHANGED <<setting, process, crashes, mode, store, saved, mu, settled>>

DeleteToken(c, u) ==
    /\ process = "up" /\ call[c].pc = "idle"
    /\ Become(c, [IdleCall EXCEPT !.pc = "lock", !.op = "delete", !.user = u])
    /\ UNCHANGED <<setting, process, crashes, mode, store, saved, mu, settled>>

\* RetrieveToken calls RLock and is in, or parked.
RetrieveToken(c, u) ==
    /\ process = "up" /\ call[c].pc = "idle"
    /\ Become(c, [IdleCall EXCEPT !.pc = "read", !.op = "retrieve", !.user = u])
    /\ mu' = M!AfterRLock(mu, c)
    /\ UNCHANGED <<setting, process, crashes, mode, store, saved, settled>>

\* Mutant: RetrieveToken still holds the read lock when it asks for the write lock.
JudgeKeepsRLock(c) ==
    /\ call[c].pc = "judge"
    /\ IF call[c].got.kind = "token" /\ call[c].got.idle
       THEN Goto(c, "lock") /\ UNCHANGED mu
       ELSE Become(c, IdleCall) /\ mu' = M!AfterRUnlock(mu, c)
    /\ UNCHANGED <<setting, process, crashes, mode, store, saved, settled>>

\* RUnlock and the first look at the token's age.
Judge(c) ==
    /\ call[c].pc = "judge"
    /\ mu' = M!AfterRUnlock(mu, c)
    /\ IF call[c].got.kind = "token" /\ call[c].got.idle
       THEN Goto(c, "lock") ELSE Become(c, IdleCall)
    /\ UNCHANGED <<setting, process, crashes, mode, store, saved, settled>>

\* Lock, up to the point where it waits for the readers.
Lock(c) ==
    /\ call[c].pc = "lock"
    /\ M!MayAnnounce(mu)
    /\ mu' = M!AfterAnnounce(mu, c)
    /\ Goto(c, IF call[c].op = "retrieve" THEN "read" ELSE "act")
    /\ UNCHANGED <<setting, process, crashes, mode, store, saved, settled>>

Unlock(c) ==
    /\ call[c].pc = "unlock"
    /\ mu' = M!AfterUnlock(mu)
    /\ Become(c, IdleCall)
    /\ UNCHANGED <<setting, process, crashes, mode, store, saved, settled>>

\* Mutant: a reader does not wait for the writer.
MayReadAlways(c) == call[c].pc \in {"read", "lookup", "resolve"}

\* The lock is really held: a parked reader and a writer behind readers do nothing.
MayRead(c) == M!HoldsRead(mu, c) \/ M!HoldsWrite(mu, c)

-----------------------------------------------------------------------------
(* Reading *)

\* LocalEncryptedTokenStore.Retrieve: the file may be missing or not decrypt, and reading it
\* or getting the key may fail.
ReadFile(c) ==
    /\ call[c].pc = "read" /\ MayRead(c) /\ store = "local"
    /\ \/ Got(c, saved[store][call[c].user])
       \/ Got(c, NoToken("error"))
    /\ UNCHANGED <<setting, process, crashes, mode, store, saved, mu, settled>>

\* ClawVaultTokenStore.Retrieve: secret-tool search.
SearchSecret(c) ==
    /\ call[c].pc = "read" /\ MayRead(c) /\ store = "clawvault"
    /\ \/ Got(c, NoToken("error"))
       \/ saved[store][call[c].user].kind = "absent" /\ Got(c, NoToken("absent"))
       \/ saved[store][call[c].user].kind # "absent" /\ Goto(c, "lookup")
    /\ UNCHANGED <<setting, process, crashes, mode, store, saved, mu, settled>>

\* secret-tool lookup; if it fails, clawvault resolve is next.
LookupSecret(c) ==
    /\ call[c].pc = "lookup" /\ MayRead(c)
    /\ Got(c, saved[store][call[c].user]) \/ Goto(c, "resolve")
    /\ UNCHANGED <<setting, process, crashes, mode, store, saved, mu, settled>>

GetSecret(c) ==
    /\ call[c].pc = "resolve" /\ MayRead(c)
    /\ Got(c, saved[store][call[c].user]) \/ Got(c, NoToken("error"))
    /\ UNCHANGED <<setting, process, crashes, mode, store, saved, mu, settled>>

-----------------------------------------------------------------------------
(* Writing *)

Save(c, content) == saved' = [saved EXCEPT ![store][call[c].user] = content]
Settle(c, content) == settled' = [settled EXCEPT ![store][call[c].user] = content]

\* os.WriteFile opens and truncates the file, unless the key or the open fails first.
TruncateFile(c) ==
    /\ call[c].pc = "act" /\ M!HoldsWrite(mu, c)
    /\ call[c].op = "store" /\ store = "local"
    /\ \/ Goto(c, "unlock") /\ UNCHANGED saved
       \/ Goto(c, "fill") /\ Save(c, NoToken("torn"))
    /\ UNCHANGED <<setting, process, crashes, mode, store, mu, settled>>

\* Mutant: a write that fails half-way is reported as stored.
FillFileIgnoresError(c) ==
    /\ call[c].pc = "fill"
    /\ \/ UNCHANGED saved
       \/ Save(c, Fresh(call[c].token))
    /\ Settle(c, Fresh(call[c].token))
    /\ Goto(c, "unlock")
    /\ UNCHANGED <<setting, process, crashes, mode, store, mu>>

\* os.WriteFile writes the file to its end, or fails and leaves it torn.
FillFile(c) ==
    /\ call[c].pc = "fill"
    /\ \/ UNCHANGED saved /\ Settle(c, NoToken("unknown"))
       \/ Save(c, Fresh(call[c].token)) /\ Settle(c, Fresh(call[c].token))
    /\ Goto(c, "unlock")
    /\ UNCHANGED <<setting, process, crashes, mode, store, mu>>

\* SetSecret: secret-tool store.  Killed at its time limit, it may have stored the token.
SetSecret(c) ==
    /\ call[c].pc = "act" /\ M!HoldsWrite(mu, c)
    /\ call[c].op = "store" /\ store = "clawvault"
    /\ \/ Save(c, Fresh(call[c].token)) /\ Settle(c, Fresh(call[c].token))
       \/ /\ UNCHANGED saved \/ Save(c, Fresh(call[c].token))
          /\ Settle(c, NoToken("unknown"))
    /\ Goto(c, "unlock")
    /\ UNCHANGED <<setting, process, crashes, mode, store, mu>>

\* os.Remove, or secret-tool clear, which may have worked when it fails.
Remove(c) ==
    \/ Save(c, NoToken("absent")) /\ Settle(c, NoToken("absent"))
    \/ UNCHANGED <<saved, settled>>
    \/ /\ store = "clawvault"
       /\ Save(c, NoToken("absent"))
       /\ Settle(c, NoToken("unknown"))

DeleteStored(c) ==
    /\ call[c].pc = "act" /\ M!HoldsWrite(mu, c) /\ call[c].op = "delete"
    /\ Remove(c)
    /\ Goto(c, "unlock")
    /\ UNCHANGED <<setting, process, crashes, mode, store, mu>>

\* The second look of RetrieveToken, under the write lock.
Rejudge(c) ==
    /\ call[c].pc = "rejudge"
    /\ IF call[c].got.kind = "token" /\ call[c].got.idle
       THEN Remove(c) ELSE UNCHANGED <<saved, settled>>
    /\ Goto(c, "unlock")
    /\ UNCHANGED <<setting, process, crashes, mode, store, mu>>

ClientStep(c) ==
    \/ Judge(c) \/ Unlock(c) \/ ReadFile(c) \/ SearchSecret(c) \/ LookupSecret(c)
    \/ GetSecret(c) \/ TruncateFile(c) \/ FillFile(c) \/ SetSecret(c) \/ DeleteStored(c)
    \/ Rejudge(c)

-----------------------------------------------------------------------------

Init ==
    /\ setting \in Settings
    /\ process = "down"
    /\ crashes = 0
    /\ mode = NoStatus
    /\ store = None
    /\ saved = [s \in Stores |-> [u \in Users |-> NoToken("absent")]]
    /\ mu = M!FreeMutex
    /\ call = [c \in Clients |-> IdleCall]
    /\ settled = saved

Next ==
    \/ \E tools, other \in BOOLEAN : DetectClawVault(tools, other) \/ InitStore(tools, other)
    \/ Crash
    \/ \E u \in Users : Age(u)
    \/ \E c \in Clients, u \in Users :
          \/ RetrieveToken(c, u) \/ DeleteToken(c, u)
          \/ \E t \in Tokens : StoreToken(c, u, t)
    \/ \E c \in Clients : Lock(c) \/ ClientStep(c)

Spec == Init /\ [][Next]_storeVars

\* Every system call and child process ends, and a goroutine that waits for the mutex among
\* the writers gets it in the end (sync.Mutex does not starve).
Fairness == \A c \in Clients : WF_storeVars(ClientStep(c)) /\ SF_storeVars(Lock(c))

FairSpec == Spec /\ Fairness

-----------------------------------------------------------------------------
(* Properties *)

\* Every variable has the shape the code gives it, and there is a store when there are calls.
TypeOK ==
    /\ crashes \in Nat
    /\ mode \in Status
    /\ store \in Stores \cup {None}
    /\ process = "up" <=> store # None
    /\ saved \in [Stores -> [Users -> Content]]
    /\ mu \in M!Mutex
    /\ call \in [Clients -> Call]
    /\ settled \in [Stores -> [Users -> Content \cup {NoToken("unknown")}]]

\* UseClawVault: "true" never ends with tokens in files and "false" never with the keyring,
\* however the machine changes between the two looks of NewPAM, and GetStatus reports the
\* store that is really in use.
StoreAsConfigured ==
    process = "up" => /\ setting = "true" => store = "clawvault"
                      /\ setting = "false" => store = "local"
                      /\ mode.available <=> store = "clawvault"

\* What was stored or deleted with success is what the store holds, through crashes and
\* while the other store is in use, until somebody replaces or deletes it.
AcknowledgedIsSaved ==
    \A s \in Stores, u \in Users :
        \/ settled[s][u].kind = "unknown"
        \/ \E c \in Clients : call[c].pc = "fill" /\ call[c].user = u /\ store = s
        \/ /\ saved[s][u].kind = settled[s][u].kind
           /\ saved[s][u].value = settled[s][u].value

\* RetrieveToken never returns a token that was replaced or deleted before it returned,
\* and never a decryption error unless a write failed or the process died in one.
ReadsAreCurrent ==
    \A c \in Clients :
        LET r == call[c].got
            known == settled[store][call[c].user]
        IN call[c].pc \in {"judge", "rejudge"} /\ r.kind # "error" /\ known.kind # "unknown"
           => r.kind = known.kind /\ r.value = known.value

\* The guards of Lock and ClientStep.
CanGoOn(c) ==
    \/ call[c].pc = "lock" /\ M!MayAnnounce(mu)
    \/ call[c].pc \in {"read", "lookup", "resolve"} /\ MayRead(c)
    \/ call[c].pc = "act" /\ M!HoldsWrite(mu, c) /\ call[c].op \in {"store", "delete"}
    \/ call[c].pc \in {"judge", "fill", "rejudge", "unlock"}

WaitsFor(c, d) ==
    \/ (call[c].pc = "lock" \/ c \in mu.parked) /\ mu.writer = d
    \/ mu.writer = c /\ d \in mu.readers

\* PAM.mu never closes a circle of waiting calls, although RetrieveToken takes it twice:
\* every call can go on, or waits for one that can, over at most one writer that waits for
\* its readers.
NobodyWaitsInACircle ==
    \A c \in Clients : call[c].pc # "idle" /\ ~CanGoOn(c) =>
        \E d \in Clients :
            /\ WaitsFor(c, d)
            /\ CanGoOn(d) \/ \E e \in Clients : WaitsFor(d, e) /\ CanGoOn(e)

\* No call waits for ever: writers behind readers, readers behind writers, and a retrieval
\* that changes its read lock for the write lock.
EveryCallReturns == \A c \in Clients : call[c].pc # "idle" ~> call[c].pc = "idle"
=============================================================================
