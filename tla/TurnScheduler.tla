---------------------------- MODULE TurnScheduler ----------------------------
(***************************************************************************)
(* scheduleTurn (queue/turn-scheduler.ts) over the BullMQ queue.           *)
(*                                                                         *)
(* scheduleTurn is a sequence of Redis round trips: read the meta hash,    *)
(* ask BullMQ for the state of the job it names, then change the delay,    *)
(* mark the chat dirty, or add a job and store its id.  Every caller (an   *)
(* ingress handler, a resume job, the tail of a turn) may be between any   *)
(* two of them while the others run, so a call is a small process.         *)
(*                                                                         *)
(* BullMQ is external: a job is unknown, delayed, waiting or active.  Time *)
(* is abstract: a delayed job becomes waiting at some moment, and moving   *)
(* that moment (changeDelay) leaves it delayed.  Job ids are unique in the *)
(* code; a finished id nobody remembers is used again here, to keep the    *)
(* set of ids finite.                                                      *)
(***************************************************************************)
EXTENDS TurnBuffer

CONSTANTS Callers,  \* the processes that call scheduleTurn
          AnyId     \* TRUE: a new job gets any unused id; FALSE: a chosen one

ASSUME SchedulerAssumption == AnyId \in BOOLEAN

VARIABLES job,    \* the state BullMQ reports for a job id
          call    \* the progress of a caller in scheduleTurn

schedulerVars == <<job, call>>

JobStates == {"none", "delayed", "waiting", "active"}
CallSteps == {"idle", "read", "state", "change", "mark", "add", "set"}

\* force = forceNew, still = noReschedule, now = a delay of zero
Call == [at : CallSteps, id : Jobs \cup {NoJob},
         force : BOOLEAN, still : BOOLEAN, now : BOOLEAN]

IdleCall == [at |-> "idle", id |-> NoJob, force |-> FALSE, still |-> FALSE, now |-> FALSE]

Idle(c) == call[c].at = "idle"

ScheduleTurn(c, force, still, now) ==
    call' = [call EXCEPT ![c] =
        [at |-> "read", id |-> NoJob, force |-> force, still |-> still, now |-> now]]

Go(c, step, id) == call' = [call EXCEPT ![c].at = step, ![c].id = id]
Return(c) == call' = [call EXCEPT ![c] = IdleCall]

\* Live: BullMQ will still run the job, or is running it.
Live(j) == job[j] # "none"

-----------------------------------------------------------------------------
\* getTurnMeta: forceNew ignores the job id it reads.
ReadMeta(c) ==
    /\ call[c].at = "read"
    /\ IF call[c].force \/ scheduledJobId = NoJob
       THEN Go(c, "add", NoJob)
       ELSE Go(c, "state", scheduledJobId)
    /\ UNCHANGED <<job, bufferVars>>

\* getJob and getState: what the answer leads to.
GetState(c) ==
    /\ call[c].at = "state"
    /\ LET state == job[call[c].id]
       IN  CASE state = "delayed" /\ call[c].still -> Return(c)
             [] state = "delayed" /\ ~call[c].still -> Go(c, "change", call[c].id)
             [] state \in {"waiting", "active"} -> Go(c, "mark", NoJob)
             [] OTHER -> Go(c, "add", NoJob)
    /\ UNCHANGED <<job, bufferVars>>

\* changeDelay throws when the job has left the delayed set meanwhile.
ChangeDelay(c) ==
    /\ call[c].at = "change"
    /\ IF job[call[c].id] = "delayed" THEN Return(c) ELSE Go(c, "mark", NoJob)
    /\ UNCHANGED <<job, bufferVars>>

MarkDirty(c) ==
    /\ call[c].at = "mark"
    /\ dirty' = TRUE
    /\ Return(c)
    /\ UNCHANGED <<job, pending, pendingDirect, scheduledJobId, tokens>>

\* An id that no key, call or BullMQ entry mentions.
Unused(j) ==
    /\ job[j] = "none"
    /\ scheduledJobId # j
    /\ \A c \in Callers : call[c].id # j

\* queue.add under a new id.  Which unused id stands for it makes no difference:
\* choosing one serves where TLC may not use symmetry.
AddJob(c) ==
    /\ call[c].at = "add"
    /\ \E j \in Jobs :
        /\ Unused(j)
        /\ AnyId \/ j = CHOOSE k \in Jobs : Unused(k)
        /\ job' = [job EXCEPT ![j] = IF call[c].now THEN "waiting" ELSE "delayed"]
        /\ Go(c, "set", j)
    /\ UNCHANGED bufferVars

SetScheduledJob(c) ==
    /\ call[c].at = "set"
    /\ scheduledJobId' = call[c].id
    /\ Return(c)
    /\ UNCHANGED <<job, pending, pendingDirect, dirty, tokens>>

SchedulerStep(c) ==
    \/ ReadMeta(c) \/ GetState(c) \/ ChangeDelay(c)
    \/ MarkDirty(c) \/ AddJob(c) \/ SetScheduledJob(c)

-----------------------------------------------------------------------------
\* BullMQ moves a delayed job to the wait list when its time has come.
Promote(j) ==
    /\ job[j] = "delayed"
    /\ job' = [job EXCEPT ![j] = "waiting"]
    /\ UNCHANGED <<call, bufferVars>>

SchedulerInit ==
    /\ job = [j \in Jobs |-> "none"]
    /\ call = [c \in Callers |-> IdleCall]
=============================================================================
