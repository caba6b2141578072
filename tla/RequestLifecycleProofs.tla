------------------------ MODULE RequestLifecycleProofs ------------------------
(***************************************************************************)
(* What every program that implements RequestLifecycle may rely on, for    *)
(* any number of requests.                                                 *)
(***************************************************************************)
EXTENDS RequestLifecycle, TLAPS

\* The shape of the two variables.
LifecycleTypeOK == state \in [Requests -> States] /\ runs \in [Requests -> {0, 1}]

\* Every request is at one place of its life, and at most one run is counted.
LEMMA TypeStep == LifecycleTypeOK /\ [Next]_lifecycleVars => LifecycleTypeOK'
<1> SUFFICES ASSUME LifecycleTypeOK, [Next]_lifecycleVars PROVE LifecycleTypeOK'
  OBVIOUS
<1> USE DEF LifecycleTypeOK, States, Final
<1>1. ASSUME NEW id \in Requests, Submit(id) \/ Decide(id) \/ Run(id) \/ Finish(id)
      PROVE  LifecycleTypeOK'
  BY <1>1 DEF Submit, Decide, Run, Finish
<1>2. ASSUME NEW S \in SUBSET Requests, Expire(S)
      PROVE  LifecycleTypeOK'
  BY <1>2 DEF Expire
<1>3. CASE Vanish
  BY <1>3 DEF Vanish
<1>4. CASE UNCHANGED lifecycleVars
  BY <1>4 DEF lifecycleVars
<1> QED
  BY <1>1, <1>2, <1>3, <1>4 DEF Next

\* One step moves a request forward, or loses it.
LEMMA StepForward ==
    ASSUME LifecycleTypeOK, [Next]_lifecycleVars, NEW id \in Requests
    PROVE  \/ state'[id] \in After(state[id])
           \/ MayVanish /\ state'[id] = "lost" /\ state[id] # "none"
<1> USE DEF LifecycleTypeOK
<1>1. ASSUME NEW o \in Requests, Submit(o) \/ Decide(o) \/ Run(o) \/ Finish(o)
      PROVE  state'[id] \in After(state[id])
  BY <1>1 DEF Submit, Decide, Run, Finish, After
<1>2. ASSUME NEW S \in SUBSET Requests, Expire(S)
      PROVE  state'[id] \in After(state[id])
  BY <1>2 DEF Expire, After
<1>3. CASE Vanish
  BY <1>3 DEF Vanish, After
<1>4. CASE UNCHANGED lifecycleVars
  BY <1>4 DEF lifecycleVars, After
<1> QED
  BY <1>1, <1>2, <1>3, <1>4 DEF Next

\* A run is counted only while the request is approved, and stays counted.
LEMMA RunStep ==
    ASSUME LifecycleTypeOK, RunsAsApproved, [Next]_lifecycleVars
    PROVE  RunsAsApproved'
<1> USE DEF LifecycleTypeOK, RunsAsApproved
<1>1. ASSUME NEW id \in Requests, Submit(id) \/ Decide(id)
      PROVE  RunsAsApproved'
  BY <1>1 DEF Submit, Decide
<1>2. ASSUME NEW id \in Requests, Run(id) \/ Finish(id)
      PROVE  RunsAsApproved'
  BY <1>2 DEF Run, Finish
<1>3. ASSUME NEW S \in SUBSET Requests, Expire(S)
      PROVE  RunsAsApproved'
  BY <1>3 DEF Expire
<1>4. CASE Vanish
  BY <1>4 DEF Vanish
<1>5. CASE UNCHANGED lifecycleVars
  BY <1>5 DEF lifecycleVars
<1> QED
  BY <1>1, <1>2, <1>3, <1>4, <1>5 DEF Next

\* The shape holds in every reachable state.
LEMMA TypeHolds == Spec => []LifecycleTypeOK
<1>1. Init => LifecycleTypeOK
  BY DEF Init, LifecycleTypeOK, States
<1> QED
  BY <1>1, TypeStep, PTL DEF Spec

\* Whoever implements the lifecycle runs a command at most once, and only if it was approved.
THEOREM RunsAsApprovedHolds == Spec => []RunsAsApproved
<1>1. Init => RunsAsApproved
  <2> SUFFICES ASSUME Init, NEW id \in Requests
               PROVE  /\ runs[id] \in {0, 1} /\ runs[id] # 1
                      /\ state[id] # "completed"
    BY DEF RunsAsApproved
  <2>1. state[id] = "none" /\ runs[id] = 0
    BY DEF Init
  <2> QED
    BY <2>1
<1>2. LifecycleTypeOK /\ RunsAsApproved /\ [Next]_lifecycleVars => RunsAsApproved'
  BY RunStep
<1> QED
  BY <1>1, <1>2, TypeHolds, PTL DEF Spec

\* Whoever implements the lifecycle never revises a decision.
THEOREM LivesForwardHolds == Spec => LivesForward
<1>1. LifecycleTypeOK /\ [Next]_lifecycleVars =>
        [\A id \in Requests : \/ state'[id] \in After(state[id])
                              \/ MayVanish /\ state'[id] = "lost" /\ state[id] # "none"
        ]_lifecycleVars
  BY StepForward
<1> QED
  BY <1>1, TypeHolds, PTL DEF Spec, LivesForward
=============================================================================
