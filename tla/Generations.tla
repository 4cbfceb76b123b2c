----------------------------- MODULE Generations -----------------------------
(***************************************************************************)
(* The interrupt registry of a chat with all of its clients:               *)
(*                                                                         *)
(*   strong flows   the judged entries of turns (runJudgedEntry, actor.ts):*)
(*                  drain, register, generate; after an interrupt wait for *)
(*                  quiet, drain and register again                        *)
(*   weak flows     self-continuations (self-continue.ts): fire and forget,*)
(*                  nobody awaits them; they yield to strong flows         *)
(*   messages       the ingress handler interrupts, then stores            *)
(*   shutdown       one broadcast                                          *)
(*                                                                         *)
(* TurnActor follows each message; here messages are anonymous and without *)
(* end, and all that is kept of the mailbox is whether it is empty.        *)
(***************************************************************************)
EXTENDS AbortRegistry

CONSTANTS Strong,      \* turns that may have an entry in generation
          Weak,        \* self-continuations
          MaxReplans,  \* maxReplans()
          MaxRounds    \* bound: beats of self-continuations

ASSUME FlowAssumption ==
    /\ Gens = Strong \cup Weak
    /\ Strong \cap Weak = {}
    /\ MaxReplans \in Nat \ {0}
    /\ MaxRounds \in Nat

VARIABLES at,        \* where each flow is
          replans,   \* replans of the entry a strong flow judges
          arriving,  \* a handler interrupted and has yet to store
          waiting,   \* the mailbox is not empty
          rounds     \* beats so far

mailVars == <<arriving, waiting>>
vars == <<registryVars, at, replans, mailVars, rounds>>

StrongSteps == {"idle", "plan", "gen", "quiet"}
WeakSteps == {"idle", "beat", "look", "gen", "say"}

Init ==
    /\ RegistryInit
    /\ at = [g \in Gens |-> "idle"]
    /\ replans = [s \in Strong |-> 0]
    /\ arriving = FALSE
    /\ waiting = FALSE
    /\ rounds = 0

Move(g, step) == at' = [at EXCEPT ![g] = step]

-----------------------------------------------------------------------------
(* Strong flows *)

Drain(s) ==
    /\ at[s] = "idle"
    /\ waiting
    /\ Move(s, "plan")
    /\ waiting' = FALSE
    /\ replans' = [replans EXCEPT ![s] = 0]
    /\ UNCHANGED <<registryVars, arriving, rounds>>

\* A replan clears its own controller first; nothing runs in between.
Begin(s) ==
    /\ at[s] = "plan"
    /\ Move(s, "gen")
    /\ Register(s)
    /\ UNCHANGED <<replans, mailVars, rounds>>

Finish(s) ==
    /\ at[s] = "gen"
    /\ Move(s, "idle")
    /\ Clear(s, FALSE)
    /\ UNCHANGED <<replans, mailVars, rounds>>

\* The abort surfaces and a replan is left: the controller stays registered.
Surface(s) ==
    /\ at[s] = "gen"
    /\ s \in aborted
    /\ ~shuttingDown
    /\ replans[s] < MaxReplans
    /\ Move(s, "quiet")
    /\ replans' = [replans EXCEPT ![s] = @ + 1]
    /\ UNCHANGED <<registryVars, mailVars, rounds>>

DrainAgain(s) ==
    /\ at[s] = "quiet"
    /\ Move(s, "plan")
    /\ waiting' = FALSE
    /\ UNCHANGED <<registryVars, replans, arriving, rounds>>

\* Out of replans, or shutting down: the entry goes back to the mailbox or,
\* when it has been round too often, is dropped.
GiveUp(s) ==
    /\ at[s] = "gen"
    /\ s \in aborted
    /\ shuttingDown \/ replans[s] = MaxReplans
    /\ Move(s, "idle")
    /\ Clear(s, FALSE)
    /\ waiting' \in (IF shuttingDown THEN {TRUE} ELSE {TRUE, waiting})
    /\ UNCHANGED <<replans, arriving, rounds>>

-----------------------------------------------------------------------------
(* Weak flows *)

Beat(w) ==
    /\ at[w] = "idle"
    /\ ~shuttingDown
    /\ rounds < MaxRounds
    /\ Move(w, "beat")
    /\ rounds' = rounds + 1
    /\ UNCHANGED <<registryVars, replans, mailVars>>

\* shouldYield: somebody's message is waiting.
Look(w) ==
    /\ at[w] = "beat"
    /\ Move(w, IF shuttingDown \/ waiting THEN "idle" ELSE "look")
    /\ UNCHANGED <<registryVars, replans, mailVars, rounds>>

\* What Look saw may be stale by now: only the registry decides.
Join(w) ==
    /\ at[w] = "look"
    /\ RegisterWeak(w)
    /\ Move(w, "gen")
    /\ UNCHANGED <<replans, mailVars, rounds>>

StepBack(w) ==
    /\ at[w] = "look"
    /\ ~WeakMayRegister(w)
    /\ Move(w, "idle")
    /\ UNCHANGED <<registryVars, replans, mailVars, rounds>>

WeakEnds(w) ==
    /\ at[w] = "gen"
    /\ Clear(w, FALSE)
    /\ Move(w, "say")
    /\ UNCHANGED <<replans, mailVars, rounds>>

\* The call fails, or its own signal or the one of the shutdown aborts it.
WeakBreaks(w) ==
    /\ at[w] = "gen"
    /\ Clear(w, TRUE)
    /\ Move(w, "idle")
    /\ UNCHANGED <<replans, mailVars, rounds>>

\* shouldYield once more, then sent or not.
Say(w) ==
    /\ at[w] = "say"
    /\ Move(w, "idle")
    /\ UNCHANGED <<registryVars, replans, mailVars, rounds>>

-----------------------------------------------------------------------------
(* Messages and shutdown *)

Arrive ==
    /\ ~arriving
    /\ Interrupt
    /\ arriving' = TRUE
    /\ UNCHANGED <<at, replans, waiting, rounds>>

Store ==
    /\ arriving
    /\ arriving' = FALSE
    /\ waiting' = TRUE
    /\ UNCHANGED <<registryVars, at, replans, rounds>>

Shutdown ==
    /\ ~shuttingDown
    /\ AbortAll
    /\ UNCHANGED <<at, replans, mailVars, rounds>>

StrongStep(s) ==
    Drain(s) \/ Begin(s) \/ Finish(s) \/ Surface(s) \/ DrainAgain(s) \/ GiveUp(s)

WeakStep(w) ==
    \/ Beat(w) \/ Look(w) \/ Join(w) \/ StepBack(w)
    \/ WeakEnds(w) \/ WeakBreaks(w) \/ Say(w)

Next ==
    \/ \E s \in Strong : StrongStep(s)
    \/ \E w \in Weak : WeakStep(w)
    \/ Arrive \/ Store \/ Shutdown

Spec == Init /\ [][Next]_vars

\* Turns run and LLM calls return; messages and shutdown are up to others.
LiveSpec ==
    /\ Spec
    /\ \A s \in Strong : WF_vars(StrongStep(s))
    /\ \A w \in Weak : WF_vars(WeakStep(w))
    /\ WF_vars(Store)

-----------------------------------------------------------------------------
(* Properties *)

\* The variables hold what the code can put there.
TypeOK ==
    /\ RegistryTypeOK
    /\ at \in [Gens -> StrongSteps \cup WeakSteps]
    /\ replans \in [Strong -> 0..MaxReplans]
    /\ arriving \in BOOLEAN
    /\ waiting \in BOOLEAN
    /\ rounds \in 0..MaxRounds

\* The map remembers one controller, yet several generations may overlap.
\* Every generation that nobody has told to stop is the registered one, so a
\* message can always reach it: registering aborts what it replaces, a weak
\* flow never replaces one that goes on, and a flow that ends late does not
\* clear its successor (abort-registry.ts:110-167).
NoOrphanGeneration ==
    \A g \in Gens : at[g] = "gen" => g = active \/ g \in aborted

\* The map never keeps the controller of a flow that is over; it would swallow
\* the interrupts of new messages and keep self-continuations out.
NoStaleRegistration ==
    active # NoGen => at[active] \in {"gen", "quiet", "plan"}

\* After the shutdown broadcast no generation goes on, whenever it was
\* registered (abort-registry.ts:56-66, 115-121): closeWorker need not wait
\* for an LLM call.
ShutdownReachesAll ==
    shuttingDown => \A g \in Gens : at[g] = "gen" => g \in aborted

\* The execution lock holds: one turn at a time.
Alone == \A s, t \in Strong : at[s] # "idle" /\ at[t] # "idle" => s = t

\* However many messages come, the bot is not choked for ever: while turns go
\* on draining messages, some judged entry after another is generated to its
\* end (abort-registry.ts:12-13), as long as turns do not overlap.
NeverChoked ==
    /\ []Alone
    /\ []~shuttingDown
    /\ []<>(\E s \in Strong : at[s] = "gen")
    => []<><<\E s \in Strong : Finish(s)>>_vars
=============================================================================
