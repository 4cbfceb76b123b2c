---------------------------- MODULE AbortRegistry ----------------------------
(***************************************************************************)
(* The in-process registry of interruptible generations of one chat        *)
(* (pipeline/turn/abort-registry.ts).                                      *)
(*                                                                         *)
(* A generation is an LLM call that may be aborted through its controller. *)
(* The registry remembers at most one controller of the chat (active) and  *)
(* how many times in a row a message interrupted it (streak).  Its         *)
(* functions are synchronous, so each is one step.                         *)
(*                                                                         *)
(* TurnActor uses these functions; Generations runs them against all of    *)
(* their clients.                                                          *)
(***************************************************************************)
EXTENDS Naturals

CONSTANTS Gens,           \* flows that register generations
          NoGen,          \* no generation
          MaxInterrupts   \* TURN_INTERRUPT_MAX_CONSECUTIVE

ASSUME RegistryAssumption ==
    /\ NoGen \notin Gens
    /\ MaxInterrupts \in Nat

VARIABLES active,        \* the flow whose controller is registered
          aborted,       \* the flows whose current controller is aborted
          streak,        \* consecutiveInterrupts
          shuttingDown   \* the shutdown broadcast was made

registryVars == <<active, aborted, streak, shuttingDown>>

RegistryInit ==
    /\ active = NoGen
    /\ aborted = {}
    /\ streak = 0
    /\ shuttingDown = FALSE

\* The registry of a new process.
RegistryReset ==
    /\ active' = NoGen
    /\ aborted' = {}
    /\ streak' = 0
    /\ shuttingDown' = FALSE

\* Mutant: the controller in the map is replaced without being aborted.
RegisterOver(g) ==
    /\ IF shuttingDown
       THEN aborted' = aborted \cup {g} /\ UNCHANGED active
       ELSE aborted' = aborted \ {g} /\ active' = g
    /\ UNCHANGED <<streak, shuttingDown>>

\* A strong registration aborts whatever is registered; after the broadcast
\* it gets a controller that is aborted from the start and is not entered.
Register(g) ==
    /\ IF shuttingDown
       THEN aborted' = aborted \cup {g} /\ UNCHANGED active
       ELSE /\ aborted' = (aborted \cup ({active} \ {NoGen})) \ {g}
            /\ active' = g
    /\ UNCHANGED <<streak, shuttingDown>>

\* registerWeakGeneration returns a controller.
WeakMayRegister(g) ==
    /\ ~shuttingDown
    /\ active = NoGen \/ active \in aborted

RegisterWeak(g) ==
    /\ WeakMayRegister(g)
    /\ active' = g
    /\ aborted' = aborted \ {g}
    /\ UNCHANGED <<streak, shuttingDown>>

\* Mutant: an interrupted flow leaves its controller in the map.
ClearIfClean(g, interrupted) ==
    /\ active' = IF active = g /\ ~interrupted THEN NoGen ELSE active
    /\ streak' = IF active = g /\ ~interrupted THEN 0 ELSE streak
    /\ aborted' = aborted \ {g}
    /\ UNCHANGED shuttingDown

\* clearGeneration: only the registered flow empties the map or resets streak.
\* (The flow forgets its controller, so whether that was aborted is forgotten.)
Clear(g, interrupted) ==
    /\ active' = IF active = g THEN NoGen ELSE active
    /\ streak' = IF active = g /\ ~interrupted THEN 0 ELSE streak
    /\ aborted' = aborted \ {g}
    /\ UNCHANGED shuttingDown

\* Mutant: the cap on interrupts in a row is not consulted.
InterruptibleForever == active # NoGen /\ active \notin aborted

Interruptible ==
    /\ active # NoGen
    /\ active \notin aborted
    /\ streak < MaxInterrupts

\* Mutant: interrupts are not counted.
InterruptUncounted ==
    /\ IF Interruptible THEN aborted' = aborted \cup {active} ELSE UNCHANGED aborted
    /\ UNCHANGED <<active, streak, shuttingDown>>

\* interruptGeneration, called for every new message: it aborts the registered
\* generation or does nothing.
Interrupt ==
    /\ IF Interruptible
       THEN aborted' = aborted \cup {active} /\ streak' = streak + 1
       ELSE UNCHANGED <<aborted, streak>>
    /\ UNCHANGED <<active, shuttingDown>>

\* Mutant: the broadcast only sets the flag.
AbortNone ==
    /\ shuttingDown' = TRUE
    /\ UNCHANGED <<active, aborted, streak>>

AbortAll ==
    /\ shuttingDown' = TRUE
    /\ aborted' = aborted \cup ({active} \ {NoGen})
    /\ UNCHANGED <<active, streak>>

RegistryTypeOK ==
    /\ active \in Gens \cup {NoGen}
    /\ aborted \subseteq Gens
    /\ streak \in 0..MaxInterrupts
    /\ shuttingDown \in BOOLEAN
=============================================================================
