-------------------------- MODULE GenerationsProofs --------------------------
(***************************************************************************)
(* The invariants of Generations hold for every set of flows and every     *)
(* bound.                                                                  *)
(*                                                                         *)
(* Inv is inductive.  The broadcast aborts only the registered generation, *)
(* so ShutdownReachesAll needs NoOrphanGeneration; and both need that each *)
(* kind of flow stays in its own steps (Kinds).                            *)
(***************************************************************************)
EXTENDS Generations, TLAPS

Kinds ==
    /\ \A s \in Strong : at[s] \in StrongSteps
    /\ \A w \in Weak : at[w] \in WeakSteps

Inv ==
    /\ TypeOK
    /\ Kinds
    /\ NoOrphanGeneration
    /\ NoStaleRegistration
    /\ ShutdownReachesAll

LEMMA InitInv == Init => Inv
  <1> SUFFICES ASSUME Init PROVE Inv
    OBVIOUS
  <1> USE RegistryAssumption, FlowAssumption DEF Init, RegistryInit
  <1>1. TypeOK
    <2>1. 0 \in 0..MaxInterrupts /\ 0 \in 0..MaxReplans /\ 0 \in 0..MaxRounds
      OBVIOUS
    <2>2. at \in [Gens -> StrongSteps \cup WeakSteps]
      BY DEF StrongSteps, WeakSteps
    <2>3. replans \in [Strong -> 0..MaxReplans]
      BY <2>1
    <2> QED BY <2>1, <2>2, <2>3 DEF TypeOK, RegistryTypeOK
  <1>2. \A g \in Gens : at[g] = "idle"
    OBVIOUS
  <1> QED
    BY <1>1, <1>2 DEF Inv, Kinds, StrongSteps, WeakSteps, NoOrphanGeneration,
                      NoStaleRegistration, ShutdownReachesAll

-----------------------------------------------------------------------------
\* A step of a strong flow.
LEMMA StrongKeepsInv ==
  ASSUME Inv, NEW s \in Strong, StrongStep(s)
  PROVE  Inv'
  <1> USE RegistryAssumption, FlowAssumption
          DEF Inv, TypeOK, RegistryTypeOK, Kinds, StrongSteps, WeakSteps, Move
  <1>1. CASE Drain(s)
    <2>1. TypeOK'
      <3>1. replans' \in [Strong -> 0..MaxReplans]
        BY <1>1 DEF Drain
      <3>2. at' \in [Gens -> StrongSteps \cup WeakSteps]
        BY <1>1 DEF Drain
      <3>3. waiting' \in BOOLEAN
        BY <1>1 DEF Drain
      <3>4. UNCHANGED <<registryVars, arriving, rounds>>
        BY <1>1 DEF Drain
      <3> QED BY <3>1, <3>2, <3>3, <3>4 DEF registryVars
    <2>2. Kinds'
      BY <1>1 DEF Drain, registryVars
    <2>3. NoOrphanGeneration'
      BY <1>1 DEF Drain, registryVars, NoOrphanGeneration
    <2>4. NoStaleRegistration'
      BY <1>1 DEF Drain, registryVars, NoStaleRegistration
    <2>5. ShutdownReachesAll'
      BY <1>1 DEF Drain, registryVars, ShutdownReachesAll
    <2> QED BY <2>1, <2>2, <2>3, <2>4, <2>5
  <1>2. CASE Begin(s)
    <2>1. TypeOK'
      BY <1>2 DEF Begin, Register, mailVars
    <2>2. Kinds'
      BY <1>2 DEF Begin, Register, mailVars
    <2>3. NoOrphanGeneration'
      BY <1>2 DEF Begin, Register, mailVars, NoOrphanGeneration
    <2>4. NoStaleRegistration'
      BY <1>2 DEF Begin, Register, mailVars, NoStaleRegistration
    <2>5. ShutdownReachesAll'
      BY <1>2 DEF Begin, Register, mailVars, ShutdownReachesAll
    <2> QED BY <2>1, <2>2, <2>3, <2>4, <2>5
  <1>3. CASE Finish(s)
    <2>1. TypeOK'
      BY <1>3 DEF Finish, Clear, mailVars
    <2>2. Kinds'
      BY <1>3 DEF Finish, Clear, mailVars
    <2>3. NoOrphanGeneration'
      BY <1>3 DEF Finish, Clear, mailVars, NoOrphanGeneration
    <2>4. NoStaleRegistration'
      BY <1>3 DEF Finish, Clear, mailVars, NoStaleRegistration
    <2>5. ShutdownReachesAll'
      BY <1>3 DEF Finish, Clear, mailVars, ShutdownReachesAll
    <2> QED BY <2>1, <2>2, <2>3, <2>4, <2>5
  <1>4. CASE Surface(s)
    <2>1. TypeOK'
      BY <1>4 DEF Surface, registryVars, mailVars
    <2>2. Kinds'
      BY <1>4 DEF Surface, registryVars, mailVars
    <2>3. NoOrphanGeneration'
      BY <1>4 DEF Surface, registryVars, mailVars, NoOrphanGeneration
    <2>4. NoStaleRegistration'
      BY <1>4 DEF Surface, registryVars, mailVars, NoStaleRegistration
    <2>5. ShutdownReachesAll'
      BY <1>4 DEF Surface, registryVars, mailVars, ShutdownReachesAll
    <2> QED BY <2>1, <2>2, <2>3, <2>4, <2>5
  <1>5. CASE DrainAgain(s)
    <2>1. TypeOK'
      BY <1>5 DEF DrainAgain, registryVars
    <2>2. Kinds'
      BY <1>5 DEF DrainAgain, registryVars
    <2>3. NoOrphanGeneration'
      BY <1>5 DEF DrainAgain, registryVars, NoOrphanGeneration
    <2>4. NoStaleRegistration'
      BY <1>5 DEF DrainAgain, registryVars, NoStaleRegistration
    <2>5. ShutdownReachesAll'
      BY <1>5 DEF DrainAgain, registryVars, ShutdownReachesAll
    <2> QED BY <2>1, <2>2, <2>3, <2>4, <2>5
  <1>6. CASE GiveUp(s)
    <2>1. TypeOK'
      <3>1. waiting' \in BOOLEAN
        BY <1>6 DEF GiveUp
      <3>2. UNCHANGED <<replans, arriving, rounds>>
        BY <1>6 DEF GiveUp
      <3>3. at' \in [Gens -> StrongSteps \cup WeakSteps]
        BY <1>6 DEF GiveUp
      <3>4. RegistryTypeOK'
        BY <1>6 DEF GiveUp, Clear
      <3> QED BY <3>1, <3>2, <3>3, <3>4
    <2>2. Kinds'
      BY <1>6 DEF GiveUp, Clear
    <2>3. NoOrphanGeneration'
      BY <1>6 DEF GiveUp, Clear, NoOrphanGeneration
    <2>4. NoStaleRegistration'
      BY <1>6 DEF GiveUp, Clear, NoStaleRegistration
    <2>5. ShutdownReachesAll'
      BY <1>6 DEF GiveUp, Clear, ShutdownReachesAll
    <2> QED BY <2>1, <2>2, <2>3, <2>4, <2>5
  <1> QED BY <1>1, <1>2, <1>3, <1>4, <1>5, <1>6 DEF StrongStep

\* A step of a self-continuation.
LEMMA WeakKeepsInv ==
  ASSUME Inv, NEW w \in Weak, WeakStep(w)
  PROVE  Inv'
  <1> USE RegistryAssumption, FlowAssumption
          DEF Inv, TypeOK, RegistryTypeOK, Kinds, StrongSteps, WeakSteps, Move
  <1>1. CASE Beat(w)
    <2>1. TypeOK'
      BY <1>1 DEF Beat, registryVars, mailVars
    <2>2. Kinds'
      BY <1>1 DEF Beat, registryVars, mailVars
    <2>3. NoOrphanGeneration'
      BY <1>1 DEF Beat, registryVars, mailVars, NoOrphanGeneration
    <2>4. NoStaleRegistration'
      BY <1>1 DEF Beat, registryVars, mailVars, NoStaleRegistration
    <2>5. ShutdownReachesAll'
      BY <1>1 DEF Beat, registryVars, mailVars, ShutdownReachesAll
    <2> QED BY <2>1, <2>2, <2>3, <2>4, <2>5
  <1>2. CASE Look(w)
    <2>1. TypeOK'
      BY <1>2 DEF Look, registryVars, mailVars
    <2>2. Kinds'
      BY <1>2 DEF Look, registryVars, mailVars
    <2>3. NoOrphanGeneration'
      BY <1>2 DEF Look, registryVars, mailVars, NoOrphanGeneration
    <2>4. NoStaleRegistration'
      BY <1>2 DEF Look, registryVars, mailVars, NoStaleRegistration
    <2>5. ShutdownReachesAll'
      BY <1>2 DEF Look, registryVars, mailVars, ShutdownReachesAll
    <2> QED BY <2>1, <2>2, <2>3, <2>4, <2>5
  <1>3. CASE Join(w)
    <2>1. TypeOK'
      BY <1>3 DEF Join, RegisterWeak, WeakMayRegister, mailVars
    <2>2. Kinds'
      BY <1>3 DEF Join, RegisterWeak, WeakMayRegister, mailVars
    <2>3. NoOrphanGeneration'
      BY <1>3 DEF Join, RegisterWeak, WeakMayRegister, mailVars, NoOrphanGeneration
    <2>4. NoStaleRegistration'
      BY <1>3 DEF Join, RegisterWeak, WeakMayRegister, mailVars, NoStaleRegistration
    <2>5. ShutdownReachesAll'
      BY <1>3 DEF Join, RegisterWeak, WeakMayRegister, mailVars, ShutdownReachesAll
    <2> QED BY <2>1, <2>2, <2>3, <2>4, <2>5
  <1>4. CASE StepBack(w)
    <2>1. TypeOK'
      BY <1>4 DEF StepBack, registryVars, mailVars
    <2>2. Kinds'
      BY <1>4 DEF StepBack, registryVars, mailVars
    <2>3. NoOrphanGeneration'
      BY <1>4 DEF StepBack, registryVars, mailVars, NoOrphanGeneration
    <2>4. NoStaleRegistration'
      BY <1>4 DEF StepBack, registryVars, mailVars, NoStaleRegistration
    <2>5. ShutdownReachesAll'
      BY <1>4 DEF StepBack, registryVars, mailVars, ShutdownReachesAll
    <2> QED BY <2>1, <2>2, <2>3, <2>4, <2>5
  <1>5. CASE WeakEnds(w)
    <2>1. TypeOK'
      BY <1>5 DEF WeakEnds, Clear, mailVars
    <2>2. Kinds'
      BY <1>5 DEF WeakEnds, Clear, mailVars
    <2>3. NoOrphanGeneration'
      BY <1>5 DEF WeakEnds, Clear, mailVars, NoOrphanGeneration
    <2>4. NoStaleRegistration'
      BY <1>5 DEF WeakEnds, Clear, mailVars, NoStaleRegistration
    <2>5. ShutdownReachesAll'
      BY <1>5 DEF WeakEnds, Clear, mailVars, ShutdownReachesAll
    <2> QED BY <2>1, <2>2, <2>3, <2>4, <2>5
  <1>6. CASE WeakBreaks(w)
    <2>1. TypeOK'
      BY <1>6 DEF WeakBreaks, Clear, mailVars
    <2>2. Kinds'
      BY <1>6 DEF WeakBreaks, Clear, mailVars
    <2>3. NoOrphanGeneration'
      BY <1>6 DEF WeakBreaks, Clear, mailVars, NoOrphanGeneration
    <2>4. NoStaleRegistration'
      BY <1>6 DEF WeakBreaks, Clear, mailVars, NoStaleRegistration
    <2>5. ShutdownReachesAll'
      BY <1>6 DEF WeakBreaks, Clear, mailVars, ShutdownReachesAll
    <2> QED BY <2>1, <2>2, <2>3, <2>4, <2>5
  <1>7. CASE Say(w)
    <2>1. TypeOK'
      BY <1>7 DEF Say, registryVars, mailVars
    <2>2. Kinds'
      BY <1>7 DEF Say, registryVars, mailVars
    <2>3. NoOrphanGeneration'
      BY <1>7 DEF Say, registryVars, mailVars, NoOrphanGeneration
    <2>4. NoStaleRegistration'
      BY <1>7 DEF Say, registryVars, mailVars, NoStaleRegistration
    <2>5. ShutdownReachesAll'
      BY <1>7 DEF Say, registryVars, mailVars, ShutdownReachesAll
    <2> QED BY <2>1, <2>2, <2>3, <2>4, <2>5
  <1> QED BY <1>1, <1>2, <1>3, <1>4, <1>5, <1>6, <1>7 DEF WeakStep

\* A message or the shutdown broadcast.
LEMMA OthersKeepInv ==
  ASSUME Inv, Arrive \/ Store \/ Shutdown
  PROVE  Inv'
  <1> USE RegistryAssumption, FlowAssumption
          DEF Inv, TypeOK, RegistryTypeOK, Kinds, StrongSteps, WeakSteps, Move
  <1>1. CASE Arrive
    <2>1. TypeOK'
      BY <1>1 DEF Arrive, Interrupt, Interruptible
    <2>2. Kinds'
      BY <1>1 DEF Arrive, Interrupt, Interruptible
    <2>3. NoOrphanGeneration'
      BY <1>1 DEF Arrive, Interrupt, Interruptible, NoOrphanGeneration
    <2>4. NoStaleRegistration'
      BY <1>1 DEF Arrive, Interrupt, Interruptible, NoStaleRegistration
    <2>5. ShutdownReachesAll'
      BY <1>1 DEF Arrive, Interrupt, Interruptible, ShutdownReachesAll
    <2> QED BY <2>1, <2>2, <2>3, <2>4, <2>5
  <1>2. CASE Store
    <2>1. TypeOK'
      BY <1>2 DEF Store, registryVars
    <2>2. Kinds'
      BY <1>2 DEF Store, registryVars
    <2>3. NoOrphanGeneration'
      BY <1>2 DEF Store, registryVars, NoOrphanGeneration
    <2>4. NoStaleRegistration'
      BY <1>2 DEF Store, registryVars, NoStaleRegistration
    <2>5. ShutdownReachesAll'
      BY <1>2 DEF Store, registryVars, ShutdownReachesAll
    <2> QED BY <2>1, <2>2, <2>3, <2>4, <2>5
  <1>3. CASE Shutdown
    <2>1. TypeOK'
      BY <1>3 DEF Shutdown, AbortAll, mailVars
    <2>2. Kinds'
      BY <1>3 DEF Shutdown, AbortAll, mailVars
    <2>3. NoOrphanGeneration'
      BY <1>3 DEF Shutdown, AbortAll, mailVars, NoOrphanGeneration
    <2>4. NoStaleRegistration'
      BY <1>3 DEF Shutdown, AbortAll, mailVars, NoStaleRegistration
    <2>5. ShutdownReachesAll'
      BY <1>3 DEF Shutdown, AbortAll, mailVars, NoOrphanGeneration, ShutdownReachesAll
    <2> QED BY <2>1, <2>2, <2>3, <2>4, <2>5
  <1> QED BY <1>1, <1>2, <1>3

-----------------------------------------------------------------------------
\* Inv holds in every state.
THEOREM Invariance == Spec => []Inv
  <1>1. Inv /\ [Next]_vars => Inv'
    <2> SUFFICES ASSUME Inv, [Next]_vars PROVE Inv'
      OBVIOUS
    <2>1. ASSUME NEW s \in Strong, StrongStep(s) PROVE Inv'
      BY <2>1, StrongKeepsInv
    <2>2. ASSUME NEW w \in Weak, WeakStep(w) PROVE Inv'
      BY <2>2, WeakKeepsInv
    <2>3. CASE Arrive \/ Store \/ Shutdown
      BY <2>3, OthersKeepInv
    <2>4. CASE UNCHANGED vars
      BY <2>4 DEF Inv, TypeOK, RegistryTypeOK, Kinds, NoOrphanGeneration, NoStaleRegistration,
                  ShutdownReachesAll, vars, registryVars, mailVars
    <2> QED BY <2>1, <2>2, <2>3, <2>4 DEF Next
  <1> QED BY InitInv, <1>1, PTL DEF Spec

\* The variables of the registry and its clients keep their types; streak never
\* passes TURN_INTERRUPT_MAX_CONSECUTIVE (abort-registry.ts:179-202).
THEOREM TypeCorrect == Spec => []TypeOK
  <1>1. Inv => TypeOK
    BY DEF Inv
  <1> QED BY <1>1, Invariance, PTL

\* A generation that nobody told to stop is the one a message can interrupt,
\* however strong and weak flows overlap (abort-registry.ts:110-167).
THEOREM NoOrphan == Spec => []NoOrphanGeneration
  <1>1. Inv => NoOrphanGeneration
    BY DEF Inv
  <1> QED BY <1>1, Invariance, PTL

\* The controller of a flow that is over never stays in the map
\* (abort-registry.ts:157-167).
THEOREM NoStale == Spec => []NoStaleRegistration
  <1>1. Inv => NoStaleRegistration
    BY DEF Inv
  <1> QED BY <1>1, Invariance, PTL

\* After the shutdown broadcast every generation is aborted, also one that
\* registers late (abort-registry.ts:56-66, 115-121).
THEOREM ShutdownComplete == Spec => []ShutdownReachesAll
  <1>1. Inv => ShutdownReachesAll
    BY DEF Inv
  <1> QED BY <1>1, Invariance, PTL
=============================================================================
