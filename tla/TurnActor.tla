------------------------------ MODULE TurnActor ------------------------------
(***************************************************************************)
(* The per-chat cognition turn (pipeline/turn/actor.ts) with everything    *)
(* that feeds it: the ingress handler of a new message, the defer_resume   *)
(* jobs, the BullMQ worker, the execution lock, interrupts, a graceful     *)
(* shutdown, and a crash.                                                  *)
(*                                                                         *)
(* Flags: TURN_ACTOR, TURN_ABORT and TURN_EXEC_LOCK are on.  The history   *)
(* variable settled counts how often a message was finished: judged        *)
(* (answered or met with silence), tracked into the context, displaced by  *)
(* a fresh entry, trimmed off a backlog, replaced as anchor of a replan,   *)
(* or dropped after too many interrupts.                                   *)
(***************************************************************************)
EXTENDS TurnScheduler, TurnPlan, AbortRegistry

CONSTANTS ConcurrentIngress,  \* updates come by webhook, not by long polling
          PromptPointer,      \* a delay outlasts the call that set it
          MaxReplans,         \* maxReplans(): replans of one judged entry
          Orphan,             \* the lock token of a process that died
          MaxStalls,          \* BullMQ's maxStalledCount: 1
          ResumeAttempts,     \* attempts of a defer_resume job: 5
          Troubles,           \* what may go wrong, see TroubleKinds
          MaxTroubles         \* bound: how often, in all

\* A crash, a graceful shutdown with its restart, a Redis command that throws in
\* scheduleTurn or in a defer_resume job, a lock lease that runs out under a
\* live turn.
TroubleKinds == {"crash", "restart", "fault", "lapse"}

ASSUME ActorAssumption ==
    /\ {ConcurrentIngress, PromptPointer} \subseteq BOOLEAN
    /\ {MaxReplans, MaxTroubles, MaxStalls} \subseteq Nat
    /\ ResumeAttempts \in Nat \ {0}
    /\ Troubles \subseteq TroubleKinds
    /\ Orphan \notin Jobs \cup {NoJob}
    /\ Gens = Jobs /\ NoGen = NoJob
    /\ MaxDefers <= 1  \* so a message has one defer_resume job at a time
    /\ Callers = {"in", "resume"} \X Msgs \cup {"turn"} \X Jobs

VARIABLES ingress,   \* the handler of each message
          resume,    \* the defer_resume job of each message
          stalls,    \* how often the worker of a chat_turn job died
          tries,     \* the stalls and failures of each defer_resume job
          run,       \* the worker's run of each chat_turn job
          lock,      \* the per-chat execution lock: whose token it holds
          lapsed,    \* runs that lost their lock to its TTL
          open,      \* ingress and worker still take new work
          settled,   \* history: how often each message was finished
          cut,       \* history: messages whose wake-up died with a process or failed
          spent      \* the troubles so far

turnVars == <<run, lock, lapsed, open>>
flowVars == <<ingress, resume, stalls, tries, cut>>
vars == <<bufferVars, schedulerVars, registryVars, turnVars, flowVars, settled, spent>>

In(m) == <<"in", m>>
Re(m) == <<"resume", m>>
Tu(j) == <<"turn", j>>

\* A burst entry and what the turn does with it.
Roles == {"track", "judge"}
Item == [entry : Entry, role : Roles]

RunSteps == {"off", "lose", "drain", "work", "gen", "quiet",
             "unset", "recheck", "count", "resched", "release", "exit", "done"}
Run == [at : RunSteps, work : Seq(Item), replans : Nat]
OffRun == [at |-> "off", work |-> <<>>, replans |-> 0]

Goto(j, step) == run' = [run EXCEPT ![j].at = step]

\* The head of the work list is done; a judged entry gets its replans anew.
Skip(j) == run' = [run EXCEPT ![j].work = Tail(@)]
TalkOver(j) ==
    run' = [run EXCEPT ![j] = [at |-> "work", work |-> Tail(run[j].work), replans |-> 0]]

Current(j) == Head(run[j].work).entry
Settle(m) == settled' = [settled EXCEPT ![m] = @ + 1]

ResumeSteps == {"none", "delayed", "picked", "call", "orphan"}
NoResume(m) == [at |-> "none", entry |-> FreshEntry(m)]
NoTries == [stalls |-> 0, fails |-> 0]

\* The next trouble may be of this kind.
Spend(kind) ==
    /\ kind \in Troubles
    /\ Len(spent) < MaxTroubles
    /\ spent' = Append(spent, kind)

Init ==
    /\ BufferInit
    /\ SchedulerInit
    /\ RegistryInit
    /\ ingress = [m \in Msgs |-> "unsent"]
    /\ resume = [m \in Msgs |-> NoResume(m)]
    /\ stalls = [j \in Jobs |-> 0]
    /\ tries = [m \in Msgs |-> NoTries]
    /\ run = [j \in Jobs |-> OffRun]
    /\ lock = NoJob
    /\ lapsed = {}
    /\ open = TRUE
    /\ settled = [m \in Msgs |-> 0]
    /\ cut = {}
    /\ spent = <<>>

-----------------------------------------------------------------------------
(* Ingress: the turn-actor branch of handleUpdate *)

InFlight(m) == ingress[m] = "append" \/ ~Idle(In(m))

\* A new message interrupts the generation in flight before it is stored.
Arrive(m) ==
    /\ open
    /\ ingress[m] = "unsent"
    /\ ConcurrentIngress \/ \A n \in Msgs : ~InFlight(n)
    /\ ingress' = [ingress EXCEPT ![m] = "append"]
    /\ IF Info[m].isEdit THEN UNCHANGED registryVars ELSE Interrupt
    /\ UNCHANGED <<bufferVars, schedulerVars, turnVars, resume, stalls, tries, cut, settled, spent>>

Store(m) ==
    /\ ingress[m] = "append"
    /\ ingress' = [ingress EXCEPT ![m] = "stored"]
    /\ AppendPending(FreshEntry(m))
    /\ ScheduleTurn(In(m), FALSE, Info[m].isEdit /\ ~Info[m].direct, Info[m].direct)
    /\ UNCHANGED <<scheduledJobId, dirty, tokens, job, registryVars, turnVars,
                   resume, stalls, tries, cut, settled, spent>>

-----------------------------------------------------------------------------
(* defer_resume jobs: handleDeferResume *)

ResumePick(m) ==
    /\ open
    /\ resume[m].at = "delayed"
    /\ tries[m].stalls <= MaxStalls
    /\ resume' = [resume EXCEPT ![m].at = "picked"]
    /\ UNCHANGED <<bufferVars, schedulerVars, registryVars, turnVars, ingress, stalls,
                   tries, cut, settled, spent>>

ResumeFires(m) ==
    /\ resume[m].at = "picked"
    /\ resume' = [resume EXCEPT ![m].at = "call"]
    /\ ReinjectDefer(<<m, resume[m].entry.defers>>, resume[m].entry)
    /\ ScheduleTurn(Re(m), FALSE, FALSE, TRUE)
    /\ UNCHANGED <<scheduledJobId, dirty, job, registryVars, turnVars, ingress, stalls,
                   tries, cut, settled, spent>>

ResumeDone(m) ==
    /\ resume[m].at = "call"
    /\ Idle(Re(m))
    /\ resume' = [resume EXCEPT ![m] = NoResume(m)]
    /\ tries' = [tries EXCEPT ![m] = NoTries]
    /\ UNCHANGED <<bufferVars, schedulerVars, registryVars, turnVars, ingress, stalls, cut,
                   settled, spent>>

ResumeStep(m) == ResumePick(m) \/ ResumeFires(m) \/ ResumeDone(m)

\* BullMQ keeps the payload of a failed job, but nothing takes it up again.
ResumeGivenUp(m) ==
    /\ Return(Re(m))
    /\ resume' = [resume EXCEPT ![m] = NoResume(m)]
    /\ tries' = [tries EXCEPT ![m] = NoTries]
    /\ cut' = cut \cup {resume[m].entry.msg}

\* Mutant: a defer_resume job is not retried.
ResumeThrowsForGood(m) ==
    /\ resume[m].at = "picked" \/ ~Idle(Re(m))
    /\ Return(Re(m))
    /\ resume' = [resume EXCEPT ![m] = NoResume(m)]
    /\ Spend("fault")
    /\ UNCHANGED <<bufferVars, job, registryVars, turnVars, ingress, stalls, tries, cut, settled>>

\* The injection or scheduleTurn throws: the job comes again after its backoff,
\* until its attempts are used up.
ResumeThrows(m) ==
    /\ resume[m].at = "picked" \/ ~Idle(Re(m))
    /\ IF tries[m].fails + 1 < ResumeAttempts
       THEN /\ Return(Re(m))
            /\ resume' = [resume EXCEPT ![m].at = "delayed"]
            /\ tries' = [tries EXCEPT ![m].fails = @ + 1]
            /\ UNCHANGED cut
       ELSE ResumeGivenUp(m)
    /\ Spend("fault")
    /\ UNCHANGED <<bufferVars, job, registryVars, turnVars, ingress, stalls, settled>>

\* The stalled checker gives the job of a dead worker back to the queue.
ResumeStalls(m) ==
    /\ open
    /\ resume[m].at = "orphan"
    /\ resume' = [resume EXCEPT ![m].at = "delayed"]
    /\ tries' = [tries EXCEPT ![m].stalls = @ + 1]
    /\ UNCHANGED <<bufferVars, schedulerVars, registryVars, turnVars, ingress, stalls, cut,
                   settled, spent>>

\* The worker fails a job that stalled too often instead of running it.
ResumeFailStalled(m) ==
    /\ open
    /\ resume[m].at = "delayed"
    /\ tries[m].stalls > MaxStalls
    /\ ResumeGivenUp(m)
    /\ UNCHANGED <<bufferVars, job, registryVars, turnVars, ingress, stalls,
                   settled, spent>>

ResumeTrouble(m) == ResumeThrows(m) \/ ResumeStalls(m) \/ ResumeFailStalled(m)

-----------------------------------------------------------------------------
(* The worker takes a job; the execution lock *)

\* Mutant: the loser ends without asking for another turn.
PickOrGiveUp(j) ==
    /\ open
    /\ job[j] = "waiting"
    /\ stalls[j] <= MaxStalls
    /\ job' = [job EXCEPT ![j] = "active"]
    /\ IF lock = NoJob
       THEN lock' = j /\ run' = [run EXCEPT ![j] = [OffRun EXCEPT !.at = "drain"]]
       ELSE run' = [run EXCEPT ![j] = [OffRun EXCEPT !.at = "lose"]] /\ UNCHANGED lock
    /\ UNCHANGED <<call, bufferVars, registryVars, lapsed, open, flowVars, settled, spent>>

\* The worker takes the job, whose first command is SET NX of the lock.  The
\* loser does not drain: it asks for another turn and ends.
Pick(j) ==
    /\ open
    /\ job[j] = "waiting"
    /\ stalls[j] <= MaxStalls
    /\ job' = [job EXCEPT ![j] = "active"]
    /\ IF lock = NoJob
       THEN /\ lock' = j
            /\ run' = [run EXCEPT ![j] = [OffRun EXCEPT !.at = "drain"]]
            /\ UNCHANGED call
       ELSE /\ run' = [run EXCEPT ![j] = [OffRun EXCEPT !.at = "lose"]]
            /\ ScheduleTurn(Tu(j), FALSE, TRUE, FALSE)
            /\ UNCHANGED lock
    /\ UNCHANGED <<bufferVars, registryVars, lapsed, open, flowVars, settled, spent>>

-----------------------------------------------------------------------------
(* runChatTurnInner: drain and plan *)

\* What the timing state may be when the turn reads it.
SuppressionNow == {[kind |-> "none"], [kind |-> "all"]}

\* Mutant: entries that are not judged are forgotten instead of tracked.
PlanJudgedOnly(burst, suppression) ==
    LET es == Digested(burst)
        judged == Judged(es, Effective(es, suppression))
    IN  [i \in DOMAIN Kept(es, judged) |-> [entry |-> Kept(es, judged)[i], role |-> "judge"]]

Plan(burst, suppression) ==
    LET es == Digested(burst)
        judged == Judged(es, Effective(es, suppression))
    IN  [i \in DOMAIN es |->
            [entry |-> es[i], role |-> IF i \in judged THEN "judge" ELSE "track"]]

EntriesOf(s) == {s[i] : i \in DOMAIN s}

Drain(j) ==
    /\ run[j].at = "drain"
    /\ DrainPending
    /\ IF pending = <<>>
       THEN Goto(j, "exit") /\ UNCHANGED settled
       ELSE \E suppression \in SuppressionNow :
            /\ run' = [run EXCEPT ![j].at = "work", ![j].work = Plan(pending, suppression)]
            /\ LET gone == EntriesOf(pending) \ EntriesOf(Digested(pending))
               IN  settled' = [m \in Msgs |->
                      settled[m] + Cardinality({e \in gone : e.msg = m})]
    /\ UNCHANGED <<scheduledJobId, dirty, tokens, schedulerVars, registryVars, lock,
                   lapsed, open, flowVars, spent>>

-----------------------------------------------------------------------------
(* The entries of the burst, one after the other *)

AtItem(j, role) ==
    /\ run[j].at = "work"
    /\ run[j].work # <<>>
    /\ Head(run[j].work).role = role

TrackEntry(j) ==
    /\ AtItem(j, "track")
    /\ Skip(j)
    /\ Settle(Current(j).msg)
    /\ UNCHANGED <<bufferVars, schedulerVars, registryVars, lock, lapsed, open, flowVars, spent>>

\* Mutant: a command taken after the shutdown broadcast is skipped.
RunCommandDropped(j) ==
    /\ AtItem(j, "judge")
    /\ Current(j).cmd
    /\ Skip(j)
    /\ IF shuttingDown THEN UNCHANGED settled ELSE Settle(Current(j).msg)
    /\ UNCHANGED <<bufferVars, schedulerVars, registryVars, lock, lapsed, open, flowVars, spent>>

\* A command is a transaction: it registers no generation, and after the
\* shutdown broadcast it goes back to the mailbox.
RunCommand(j) ==
    /\ AtItem(j, "judge")
    /\ Current(j).cmd
    /\ Skip(j)
    /\ IF shuttingDown
       THEN AppendPending([Current(j) EXCEPT !.replay = TRUE]) /\ UNCHANGED settled
       ELSE Settle(Current(j).msg) /\ UNCHANGED <<pending, pendingDirect>>
    /\ UNCHANGED <<scheduledJobId, dirty, tokens, schedulerVars, registryVars, lock,
                   lapsed, open, flowVars, spent>>

\* A replan clears its aborted generation and registers the next in one go.
StartTalk(j) ==
    /\ AtItem(j, "judge")
    /\ ~Current(j).cmd
    /\ Goto(j, "gen")
    /\ Register(j)
    /\ UNCHANGED <<bufferVars, schedulerVars, lock, lapsed, open, flowVars, settled, spent>>

\* processPipeline returns (or fails): the entry is judged.
TalkEnds(j) ==
    /\ run[j].at = "gen"
    /\ TalkOver(j)
    /\ Clear(j, FALSE)
    /\ Settle(Current(j).msg)
    /\ UNCHANGED <<bufferVars, schedulerVars, lock, lapsed, open, flowVars, spent>>

\* The gate puts the entry off: it moves to the payload of a delayed job.  A
\* direct entry and a replan bypass the gate.
TalkDeferred(j) ==
    /\ run[j].at = "gen"
    /\ ~Current(j).direct
    /\ run[j].replans = 0
    /\ HasDeferBudget(Current(j))
    /\ TalkOver(j)
    /\ Clear(j, FALSE)
    /\ resume' = [resume EXCEPT ![Current(j).msg] =
                    [at |-> "delayed", entry |-> DeferredEntry(Current(j))]]
    /\ UNCHANGED <<bufferVars, schedulerVars, lock, lapsed, open, ingress, stalls, tries,
                   cut, settled, spent>>

\* The abort surfaces during shutdown: back to the mailbox for the next boot.
TalkPutBack(j) ==
    /\ run[j].at = "gen"
    /\ j \in aborted
    /\ shuttingDown
    /\ TalkOver(j)
    /\ Clear(j, FALSE)
    /\ AppendPending([Current(j) EXCEPT !.replay = TRUE])
    /\ UNCHANGED <<scheduledJobId, dirty, tokens, schedulerVars, lock, lapsed, open, flowVars,
                   settled, spent>>

\* The abort surfaces with replans left: wait for quiet, then replan.
TalkInterrupted(j) ==
    /\ run[j].at = "gen"
    /\ j \in aborted
    /\ ~shuttingDown
    /\ run[j].replans < MaxReplans
    /\ run' = [run EXCEPT ![j].at = "quiet", ![j].replans = @ + 1]
    /\ UNCHANGED <<bufferVars, schedulerVars, registryVars, lock, lapsed, open, flowVars, settled,
                   spent>>

\* The abort surfaces with no replan left: once more as a replay, or dropped.
TalkExhausted(j) ==
    /\ run[j].at = "gen"
    /\ j \in aborted
    /\ ~shuttingDown
    /\ run[j].replans = MaxReplans
    /\ TalkOver(j)
    /\ Clear(j, FALSE)
    /\ IF HasDeferBudget(Current(j))
       THEN /\ AppendPending([Current(j) EXCEPT !.replay = TRUE, !.defers = @ + 1])
            /\ UNCHANGED settled
       ELSE /\ Settle(Current(j).msg)
            /\ UNCHANGED <<pending, pendingDirect>>
    /\ UNCHANGED <<scheduledJobId, dirty, tokens, schedulerVars, lock, lapsed, open, flowVars,
                   spent>>

\* After the quiet period: the messages that came meanwhile are taken, all but
\* the new anchor are handled first, and the anchor is generated again.
Replan(j) ==
    /\ run[j].at = "quiet"
    /\ DrainPending
    /\ LET anchor == ReplanAnchor(pending)
           others == Kept([i \in DOMAIN pending |->
                             [entry |-> pending[i],
                              role  |-> IF pending[i].cmd THEN "judge" ELSE "track"]],
                          DOMAIN pending \ anchor)
           next == IF anchor = {} THEN Current(j) ELSE pending[CHOOSE i \in anchor : TRUE]
       IN  /\ run' = [run EXCEPT ![j].at = "work",
                  ![j].work = others \o <<[entry |-> next, role |-> "judge"]>> \o Tail(@)]
           /\ IF anchor = {} THEN UNCHANGED settled ELSE Settle(Current(j).msg)
    /\ UNCHANGED <<scheduledJobId, dirty, tokens, schedulerVars, registryVars, lock,
                   lapsed, open, flowVars, spent>>

-----------------------------------------------------------------------------
(* The tail of the turn: hand over to the next one *)

\* clearScheduledJob reads the pointer and deletes it in two commands.
ReadPointer(j) ==
    /\ run[j].at = "work"
    /\ run[j].work = <<>>
    /\ Goto(j, IF scheduledJobId \in {NoJob, j} THEN "unset" ELSE "recheck")
    /\ UNCHANGED <<bufferVars, schedulerVars, registryVars, lock, lapsed, open, flowVars, settled,
                   spent>>

Unset(j) ==
    /\ run[j].at = "unset"
    /\ scheduledJobId' = NoJob
    /\ Goto(j, "recheck")
    /\ UNCHANGED <<pending, pendingDirect, dirty, tokens, schedulerVars, registryVars,
                   lock, lapsed, open, flowVars, settled, spent>>

ClearDirty(j) ==
    /\ run[j].at = "recheck"
    /\ dirty' = FALSE
    /\ Goto(j, IF dirty THEN "resched" ELSE "count")
    /\ UNCHANGED <<pending, pendingDirect, scheduledJobId, tokens, schedulerVars,
                   registryVars, lock, lapsed, open, flowVars, settled, spent>>

CountPending(j) ==
    /\ run[j].at = "count"
    /\ Goto(j, IF pending # <<>> THEN "resched" ELSE "release")
    /\ UNCHANGED <<bufferVars, schedulerVars, registryVars, lock, lapsed, open, flowVars, settled,
                   spent>>

\* hasPendingDirect decides whether the next turn starts at once.
Reschedule(j) ==
    /\ run[j].at = "resched"
    /\ ScheduleTurn(Tu(j), TRUE, FALSE, pendingDirect)
    /\ Goto(j, "release")
    /\ UNCHANGED <<job, bufferVars, registryVars, lock, lapsed, open, flowVars, settled, spent>>

\* Mutant: the lock is deleted without comparing the token.
ReleaseAnyone(j) ==
    /\ run[j].at \in {"release", "exit"}
    /\ Idle(Tu(j))
    /\ lock' = NoJob
    /\ Goto(j, "done")
    /\ UNCHANGED <<bufferVars, schedulerVars, registryVars, lapsed, open, flowVars, settled, spent>>

Release(j) ==
    /\ run[j].at \in {"release", "exit"}
    /\ Idle(Tu(j))
    /\ lock' = IF lock = j THEN NoJob ELSE lock
    /\ Goto(j, "done")
    /\ UNCHANGED <<bufferVars, schedulerVars, registryVars, lapsed, open, flowVars, settled, spent>>

\* BullMQ removes the completed job (removeOnComplete).
Complete(j) ==
    /\ run[j].at = "done" \/ (run[j].at = "lose" /\ Idle(Tu(j)))
    /\ job' = [job EXCEPT ![j] = "none"]
    /\ run' = [run EXCEPT ![j] = OffRun]
    /\ lapsed' = lapsed \ {j}
    /\ stalls' = [stalls EXCEPT ![j] = 0]
    /\ UNCHANGED <<call, bufferVars, registryVars, lock, open, ingress, resume, tries, cut,
                   settled, spent>>

TurnStep(j) ==
    \/ Pick(j) \/ Drain(j)
    \/ TrackEntry(j) \/ RunCommand(j) \/ StartTalk(j) \/ TalkEnds(j) \/ TalkDeferred(j)
    \/ TalkPutBack(j) \/ TalkInterrupted(j) \/ TalkExhausted(j) \/ Replan(j)
    \/ ReadPointer(j) \/ Unset(j) \/ ClearDirty(j) \/ CountPending(j)
    \/ Reschedule(j) \/ Release(j) \/ Complete(j)

-----------------------------------------------------------------------------
(* What else happens: promotions, lock TTL, faults, shutdown, crash *)

\* A debounce lasts seconds and storing the job id one round trip; whether the
\* delay may run out first is left to the configuration.
Clock(j) ==
    /\ PromptPointer => \A c \in Callers : call[c].id # j
    /\ Promote(j)
    /\ UNCHANGED <<registryVars, turnVars, flowVars, settled, spent>>

CallStep(c) ==
    /\ SchedulerStep(c)
    /\ UNCHANGED <<registryVars, turnVars, flowVars, settled, spent>>

\* The event loop is stuck longer than the TTL: the renewal comes too late.
Lapse(j) ==
    /\ lock = j
    /\ lock' = NoJob
    /\ lapsed' = lapsed \cup {j}
    /\ Spend("lapse")
    /\ UNCHANGED <<bufferVars, schedulerVars, registryVars, run, open, flowVars, settled>>

\* The TTL of a lock whose holder died.
Expire ==
    /\ lock = Orphan
    /\ lock' = NoJob
    /\ UNCHANGED <<bufferVars, schedulerVars, registryVars, run, lapsed, open, flowVars, settled,
                   spent>>

\* Messages that nobody may be left to wake for: the handler of the message is
\* gone, or the turn that would have called for the next one.
Unwoken(c) ==
    {m \in Msgs : c = In(m)}
        \cup {e.msg : e \in IF c[1] = "turn" THEN EntriesOf(pending) ELSE {}}

\* A Redis command inside scheduleTurn throws: the ingress handler fails, the
\* loser swallows it, the tail fails its job.
CallFails(c) ==
    /\ c[1] # "resume"
    /\ ~Idle(c)
    /\ Return(c)
    /\ cut' = cut \cup Unwoken(c)
    /\ Spend("fault")
    /\ UNCHANGED <<bufferVars, job, registryVars, turnVars, ingress, resume, stalls, tries,
                   settled>>

\* The shutdown broadcast; ingress and worker are closed only after it.
Shutdown ==
    /\ ~shuttingDown
    /\ AbortAll
    /\ Spend("restart")
    /\ UNCHANGED <<bufferVars, schedulerVars, turnVars, flowVars, settled>>

CloseIntake ==
    /\ shuttingDown
    /\ open
    /\ open' = FALSE
    /\ UNCHANGED <<bufferVars, schedulerVars, registryVars, run, lock, lapsed, flowVars,
                   settled, spent>>

\* What a new process finds: Redis and BullMQ keep their data, handlers and
\* runs are gone, and the jobs of the runs are still active.
Reboot ==
    /\ call' = [c \in Callers |-> IdleCall]
    /\ run' = [j \in Jobs |-> OffRun]
    /\ lock' = IF lock \in Jobs THEN Orphan ELSE lock
    /\ lapsed' = {}
    /\ open' = TRUE
    /\ ingress' = [m \in Msgs |-> IF InFlight(m) THEN "stored" ELSE ingress[m]]
    /\ cut' = cut \cup {m \in Msgs : InFlight(m)}
    /\ resume' = [m \in Msgs |-> IF resume[m].at \in {"picked", "call"}
                                 THEN [resume[m] EXCEPT !.at = "orphan"] ELSE resume[m]]
    /\ RegistryReset
    /\ UNCHANGED <<bufferVars, job, stalls, tries, settled>>

\* worker.close waits for what it runs: no turn and no resume is under way.
Exit ==
    /\ ~open
    /\ \A j \in Jobs : run[j].at = "off"
    /\ \A m \in Msgs : resume[m].at \notin {"picked", "call"}
    /\ Reboot
    /\ UNCHANGED spent

Crash == Reboot /\ Spend("crash")

\* Mutant: a stalled job counts as failed.
StallDrops(j) ==
    /\ job[j] = "active"
    /\ run[j].at = "off"
    /\ open
    /\ job' = [job EXCEPT ![j] = "none"]
    /\ UNCHANGED <<call, bufferVars, registryVars, turnVars, flowVars, settled, spent>>

\* A job lock (5 min) outlives the execution lock (2 min) of the same process;
\* only that of a process that died later may still stand.
Overtaken == lock = Orphan => Cardinality({i \in DOMAIN spent : spent[i] = "crash"}) > 1

\* The stalled checker gives the job of a dead run back to the queue.
Stall(j) ==
    /\ job[j] = "active"
    /\ run[j].at = "off"
    /\ open
    /\ Overtaken
    /\ job' = [job EXCEPT ![j] = "waiting"]
    /\ stalls' = [stalls EXCEPT ![j] = @ + 1]
    /\ UNCHANGED <<call, bufferVars, registryVars, turnVars, ingress, resume, tries, cut,
                   settled, spent>>

\* The worker fails a job that stalled too often instead of running it, and
\* BullMQ removes it (removeOnFail): nobody is left to wake for the mailbox.
FailStalled(j) ==
    /\ open
    /\ job[j] = "waiting"
    /\ stalls[j] > MaxStalls
    /\ job' = [job EXCEPT ![j] = "none"]
    /\ stalls' = [stalls EXCEPT ![j] = 0]
    /\ cut' = cut \cup {e.msg : e \in EntriesOf(pending)}
    /\ UNCHANGED <<call, bufferVars, registryVars, turnVars, ingress, resume, tries, settled,
                   spent>>

Next ==
    \/ \E m \in Msgs : Arrive(m) \/ Store(m) \/ ResumeStep(m) \/ ResumeTrouble(m)
    \/ \E c \in Callers : CallStep(c) \/ CallFails(c)
    \/ \E j \in Jobs : TurnStep(j) \/ Clock(j) \/ Lapse(j) \/ Stall(j) \/ FailStalled(j)
    \/ Expire \/ Shutdown \/ CloseIntake \/ Exit \/ Crash

Spec == Init /\ [][Next]_vars
=============================================================================
