--------------------------- MODULE TurnActorProofs ---------------------------
(***************************************************************************)
(* The turn of a chat, for every number of jobs, messages, crashes,        *)
(* restarts, faults and lapses, and whatever number of stalls and attempts *)
(* BullMQ grants a job: the execution lock keeps the turns apart and is a  *)
(* lease lock; no mailbox is silently left without a turn; no message is   *)
(* handled twice and, without a crash, none is lost.                       *)
(***************************************************************************)
EXTENDS TurnActorProps, BurstProofs

-----------------------------------------------------------------------------
(* The execution lock *)

\* The worker has a run record for every job; what its work list holds does not
\* matter here.
Shape ==
    /\ DOMAIN run = Jobs
    /\ \A j \in Jobs : DOMAIN run[j] = {"at", "work", "replans"}

\* MutualExclusion is not inductive: that two turns cannot be in the section
\* follows from each of them holding the one lock.
LockInv ==
    /\ Shape
    /\ \A j \in Jobs \ lapsed : Section(j) => lock = j

LEMMA LockInvSuffices == LockInv => MutualExclusion
  BY DEF LockInv, MutualExclusion

LEMMA InitLockInv == Init => LockInv
  BY DEF Init, LockInv, Shape, OffRun, Section

-----------------------------------------------------------------------------
(* Changing a run record *)

LEMMA GotoEffect ==
  ASSUME Shape, NEW j \in Jobs, NEW step, Goto(j, step)
  PROVE  Shape' /\ run'[j].at = step /\ \A i \in Jobs \ {j} : run'[i] = run[i]
  BY DEF Shape, Goto

LEMMA SkipEffect ==
  ASSUME Shape, NEW j \in Jobs, Skip(j)
  PROVE  Shape' /\ run'[j].at = run[j].at /\ \A i \in Jobs \ {j} : run'[i] = run[i]
  BY DEF Shape, Skip

LEMMA TalkOverEffect ==
  ASSUME Shape, NEW j \in Jobs, TalkOver(j)
  PROVE  Shape' /\ run'[j].at = "work" /\ \A i \in Jobs \ {j} : run'[i] = run[i]
  BY DEF Shape, TalkOver

\* A run that stays in the section, or leaves it, while lock and lapsed stay the
\* same, disturbs nothing.
LEMMA InSection ==
  ASSUME LockInv, NEW j \in Jobs, Section(j), Shape',
         \A i \in Jobs \ {j} : run'[i] = run[i],
         lock' = lock, lapsed' = lapsed
  PROVE  LockInv'
  BY DEF LockInv, Section

\* Nothing that the lock is about changes.
LEMMA Elsewhere ==
  ASSUME LockInv, UNCHANGED <<run, lock, lapsed>>
  PROVE  LockInv'
  BY DEF LockInv, Shape, Section

-----------------------------------------------------------------------------
(* The steps of one turn *)

\* Taking the lock: nobody else can be inside, since each holds the lock.
LEMMA PickKeeps ==
  ASSUME LockInv, NEW j \in Jobs, Pick(j)
  PROVE  LockInv'
  <1>1. Shape' /\ \A i \in Jobs \ {j} : run'[i] = run[i]
    BY DEF Pick, LockInv, Shape, OffRun
  <1>2. CASE lock = NoJob
    <2>1. lock' = j /\ lapsed' = lapsed
      BY <1>2 DEF Pick
    <2>2. \A i \in Jobs \ lapsed : ~Section(i)
      BY <1>2, BufferAssumption DEF LockInv
    <2> QED BY <1>1, <2>1, <2>2 DEF LockInv, Section
  <1>3. CASE lock # NoJob
    <2>1. run'[j].at = "lose" /\ lock' = lock /\ lapsed' = lapsed
      BY <1>3 DEF Pick, LockInv, Shape, OffRun
    <2> QED BY <1>1, <2>1 DEF LockInv, Section
  <1> QED BY <1>2, <1>3

\* Releasing compares the token, so it never opens somebody else's section.
LEMMA ReleaseKeeps ==
  ASSUME LockInv, NEW j \in Jobs, Release(j)
  PROVE  LockInv'
  <1>1. Shape' /\ run'[j].at = "done" /\ \A i \in Jobs \ {j} : run'[i] = run[i]
    BY GotoEffect DEF Release, LockInv
  <1>2. lapsed' = lapsed /\ \A i \in Jobs \ {j} : lock = i => lock' = i
    BY DEF Release
  <1> QED BY <1>1, <1>2 DEF LockInv, Section

LEMMA CompleteKeeps ==
  ASSUME LockInv, NEW j \in Jobs, Complete(j)
  PROVE  LockInv'
  <1>1. Shape' /\ run'[j].at = "off" /\ \A i \in Jobs \ {j} : run'[i] = run[i]
    BY DEF Complete, LockInv, Shape, OffRun
  <1>2. lock' = lock /\ lapsed' = lapsed \ {j}
    BY DEF Complete
  <1> QED BY <1>1, <1>2 DEF LockInv, Section

\* All other steps of a turn happen inside the section.
Working(j) ==
    \/ Drain(j) \/ TrackEntry(j) \/ RunCommand(j) \/ StartTalk(j) \/ TalkEnds(j)
    \/ TalkDeferred(j) \/ TalkPutBack(j) \/ TalkInterrupted(j) \/ TalkExhausted(j)
    \/ Replan(j) \/ ReadPointer(j) \/ Unset(j) \/ ClearDirty(j)
    \/ CountPending(j) \/ Reschedule(j)

\* They write the record of their own run only, and leave it running.
LEMMA WorkEffect ==
  ASSUME Shape, NEW j \in Jobs, Working(j)
  PROVE  /\ Shape'
         /\ run[j].at \in {"drain", "work", "gen", "quiet", "unset", "recheck", "count", "resched"}
         /\ run'[j].at \in {"work", "gen", "quiet", "unset", "recheck", "count", "resched",
                             "release", "exit"}
         /\ \A i \in Jobs \ {j} : run'[i] = run[i]
  <1> DEFINE Alone == /\ Shape'
                     /\ run'[j].at \in {"work", "gen", "quiet", "unset", "recheck", "count",
                                         "resched", "release", "exit"}
                     /\ \A i \in Jobs \ {j} : run'[i] = run[i]
  <1>1. run[j].at \in {"drain", "work", "gen", "quiet", "unset", "recheck", "count", "resched"}
    BY DEF Working, Drain, TrackEntry, RunCommand, StartTalk, TalkEnds, TalkDeferred,
           TalkPutBack, TalkInterrupted, TalkExhausted, Replan, ReadPointer, Unset,
           ClearDirty, CountPending, Reschedule, AtItem
  <1>2. ASSUME Drain(j) PROVE Alone
    <2>1. CASE pending = <<>>
      <3>1. Goto(j, "exit")
        BY <1>2, <2>1 DEF Drain
      <3> QED BY <3>1, GotoEffect
    <2>2. CASE pending # <<>>
      <3>1. PICK suppression \in SuppressionNow :
              run' = [run EXCEPT ![j].at = "work", ![j].work = Plan(pending, suppression)]
        BY <1>2, <2>2 DEF Drain
      <3> QED BY <3>1 DEF Shape
    <2> QED BY <2>1, <2>2
  <1>3. ASSUME TrackEntry(j) \/ RunCommand(j) PROVE Alone
    <2>1. Skip(j) /\ run[j].at = "work"
      BY <1>3 DEF TrackEntry, RunCommand, AtItem
    <2> QED BY <2>1, SkipEffect
  <1>4. ASSUME TalkEnds(j) \/ TalkDeferred(j) \/ TalkPutBack(j) \/ TalkExhausted(j)
        PROVE  Alone
    <2>1. TalkOver(j)
      BY <1>4 DEF TalkEnds, TalkDeferred, TalkPutBack, TalkExhausted
    <2> QED BY <2>1, TalkOverEffect
  <1>5. ASSUME StartTalk(j) \/ ReadPointer(j) \/ Unset(j) \/ ClearDirty(j)
                 \/ CountPending(j) \/ Reschedule(j)
        PROVE  Alone
    <2>1. PICK step \in {"gen", "unset", "recheck", "count", "resched", "release"} : Goto(j, step)
      BY <1>5 DEF StartTalk, ReadPointer, Unset, ClearDirty, CountPending, Reschedule
    <2> QED BY <2>1, GotoEffect
  <1>6. ASSUME TalkInterrupted(j) PROVE Alone
    <2>1. run' = [run EXCEPT ![j].at = "quiet", ![j].replans = @ + 1]
      BY <1>6 DEF TalkInterrupted
    <2> QED BY <2>1 DEF Shape
  <1>7. ASSUME Replan(j) PROVE Alone
    <2>1. PICK work : run' = [run EXCEPT ![j].at = "work", ![j].work = work]
      BY <1>7 DEF Replan
    <2> QED BY <2>1 DEF Shape
  <1>8. Alone
    BY <1>2, <1>3, <1>4, <1>5, <1>6, <1>7 DEF Working
  <1> QED BY <1>1, <1>8, SMTT(30)

\* So they leave the lock alone.
LEMMA WorkKeeps ==
  ASSUME LockInv, NEW j \in Jobs, Working(j)
  PROVE  LockInv'
  <1>1. /\ Section(j)
        /\ Shape'
        /\ \A i \in Jobs \ {j} : run'[i] = run[i]
    BY WorkEffect DEF LockInv, Section
  <1>2. lock' = lock /\ lapsed' = lapsed
    BY DEF Working, Drain, TrackEntry, RunCommand, StartTalk, TalkEnds, TalkDeferred,
           TalkPutBack, TalkInterrupted, TalkExhausted, Replan, ReadPointer, Unset,
           ClearDirty, CountPending, Reschedule
  <1> QED BY <1>1, <1>2, InSection

-----------------------------------------------------------------------------
(* The environment *)

\* A lapsed turn goes on without the lock, and no longer counts.
LEMMA LapseKeeps ==
  ASSUME LockInv, NEW j \in Jobs, Lapse(j)
  PROVE  LockInv'
  <1>1. run' = run /\ lock = j /\ lapsed' = lapsed \cup {j}
    BY DEF Lapse
  <1> QED BY <1>1 DEF LockInv, Shape, Section

\* Only a dead process is behind the lock that expires.
LEMMA ExpireKeeps ==
  ASSUME LockInv, Expire
  PROVE  LockInv'
  <1>1. run' = run /\ lock = Orphan /\ lapsed' = lapsed
    BY DEF Expire
  <1>2. \A i \in Jobs \ lapsed : ~Section(i)
    BY <1>1, ActorAssumption DEF LockInv
  <1> QED BY <1>1, <1>2 DEF LockInv, Shape, Section

LEMMA RebootKeeps ==
  ASSUME Reboot
  PROVE  LockInv'
  BY DEF Reboot, LockInv, Shape, OffRun, Section

-----------------------------------------------------------------------------
LEMMA StepLockInv == LockInv /\ [Next]_vars => LockInv'
  <1> SUFFICES ASSUME LockInv, [Next]_vars PROVE LockInv'
    OBVIOUS
  <1>1. ASSUME NEW m \in Msgs, Arrive(m) \/ Store(m) \/ ResumeStep(m) \/ ResumeTrouble(m)
        PROVE  LockInv'
    <2>1. UNCHANGED <<run, lock, lapsed>>
      BY <1>1 DEF Arrive, Store, ResumeStep, ResumePick, ResumeFires, ResumeDone, ResumeTrouble,
             ResumeThrows, ResumeStalls, ResumeFailStalled, turnVars
    <2> QED BY <2>1, Elsewhere
  <1>2. ASSUME NEW c \in Callers, CallStep(c) \/ CallFails(c)
        PROVE  LockInv'
    <2>1. UNCHANGED <<run, lock, lapsed>>
      BY <1>2 DEF CallStep, CallFails, turnVars
    <2> QED BY <2>1, Elsewhere
  <1>3. ASSUME NEW j \in Jobs, TurnStep(j)
        PROVE  LockInv'
    BY <1>3, PickKeeps, ReleaseKeeps, CompleteKeeps, WorkKeeps DEF TurnStep, Working
  <1>4. ASSUME NEW j \in Jobs, Clock(j) \/ Lapse(j) \/ Stall(j) \/ FailStalled(j)
        PROVE  LockInv'
    <2>1. CASE Lapse(j)
      BY <2>1, LapseKeeps
    <2>2. CASE Clock(j) \/ Stall(j) \/ FailStalled(j)
      <3>1. UNCHANGED <<run, lock, lapsed>>
        BY <2>2 DEF Clock, Stall, FailStalled, turnVars
      <3> QED BY <3>1, Elsewhere
    <2> QED BY <1>4, <2>1, <2>2
  <1>5. CASE Expire
    BY <1>5, ExpireKeeps
  <1>6. CASE Shutdown \/ CloseIntake
    <2>1. UNCHANGED <<run, lock, lapsed>>
      BY <1>6 DEF Shutdown, CloseIntake, turnVars
    <2> QED BY <2>1, Elsewhere
  <1>7. CASE Exit \/ Crash
    BY <1>7, RebootKeeps DEF Exit, Crash
  <1>8. CASE UNCHANGED vars
    <2>1. UNCHANGED <<run, lock, lapsed>>
      BY <1>8 DEF vars, turnVars
    <2> QED BY <2>1, Elsewhere
  <1> QED BY <1>1, <1>2, <1>3, <1>4, <1>5, <1>6, <1>7, <1>8 DEF Next

\* Two turns of a chat are in the section at the same time only if one of them
\* outlived its lease (turn-lock.ts:20-48, actor.ts:443-469): for any number of
\* jobs that lose, crash, stall and come back.
THEOREM Exclusion == Spec => []MutualExclusion
  BY InitLockInv, LockInvSuffices, StepLockInv, PTL DEF Spec

-----------------------------------------------------------------------------
(* The lock as a specification *)

Inside == {j \in Jobs \ lapsed : Section(j)}

\* Whoever is inside owns the lock, so there is at most one.
LEMMA OneInside ==
  ASSUME LockInv
  PROVE  \A j \in Inside : j = lock
  BY DEF LockInv, Inside

\* A step that lets nobody in is a stutter, or the only holder leaves.
LEMMA NobodyEnters ==
  ASSUME LockInv, Inside' \subseteq Inside
  PROVE  Lease!Next \/ Inside' = Inside
  <1>1. CASE Inside' = Inside
    BY <1>1
  <1>2. CASE Inside' # Inside
    <2>1. PICK j \in Inside : j \notin Inside'
      BY <1>2
    <2>2. Inside = {j} /\ Inside' = {}
      BY <2>1, OneInside
    <2>3. Lease!Leave(j)
      BY <2>2 DEF Lease!Leave, Inside
    <2> QED BY <2>1, <2>3 DEF Lease!Next, Inside
  <1> QED BY <1>1, <1>2

LEMMA PickEnters ==
  ASSUME LockInv, NEW j \in Jobs, Pick(j)
  PROVE  Lease!Next \/ Inside' = Inside
  <1>1. /\ run'[j].at = IF lock = NoJob THEN "drain" ELSE "lose"
        /\ \A i \in Jobs \ {j} : run'[i] = run[i]
        /\ lapsed' = lapsed
    BY ZenonT(30) DEF Pick, LockInv, Shape, OffRun
  <1>2. CASE lock = NoJob
    <2>1. Inside = {}
      BY <1>2, OneInside, BufferAssumption DEF Inside
    <2>2. Inside' \subseteq {j}
      BY <1>1, <2>1 DEF Inside, Section
    <2>3. CASE Inside' = {}
      BY <2>1, <2>3
    <2>4. CASE Inside' = {j}
      BY <2>1, <2>4 DEF Lease!Next, Lease!Enter, Inside
    <2> QED BY <2>2, <2>3, <2>4
  <1>3. CASE lock # NoJob
    <2>1. Inside' \subseteq Inside
      BY <1>1, <1>3 DEF Inside, Section
    <2> QED BY <2>1, NobodyEnters
  <1> QED BY <1>2, <1>3

\* Every other step of a turn.
LEMMA TurnLetsNobodyIn ==
  ASSUME LockInv, NEW j \in Jobs, Working(j) \/ Release(j) \/ Complete(j)
  PROVE  Inside' \subseteq Inside
  <1>1. CASE Working(j)
    <2>1. Section(j) /\ \A i \in Jobs \ {j} : run'[i] = run[i]
      BY <1>1, WorkEffect, SMTT(90) DEF LockInv, Section
    <2>2. lapsed' = lapsed
      BY <1>1 DEF Working, Drain, TrackEntry, RunCommand, StartTalk, TalkEnds, TalkDeferred,
             TalkPutBack, TalkInterrupted, TalkExhausted, Replan, ReadPointer, Unset,
             ClearDirty, CountPending, Reschedule
    <2> QED BY <2>1, <2>2 DEF Inside, Section
  <1>2. CASE Release(j)
    <2>1. run'[j].at = "done" /\ \A i \in Jobs \ {j} : run'[i] = run[i]
      BY <1>2, GotoEffect DEF Release, LockInv
    <2> QED BY <1>2, <2>1 DEF Release, Inside, Section
  <1>3. CASE Complete(j)
    <2>1. run'[j].at = "off" /\ \A i \in Jobs \ {j} : run'[i] = run[i]
      BY <1>3 DEF Complete, LockInv, Shape, OffRun
    <2> QED BY <1>3, <2>1 DEF Complete, Inside, Section
  <1> QED BY <1>1, <1>2, <1>3

LEMMA LeaseStep ==
  ASSUME LockInv, [Next]_vars
  PROVE  Lease!Next \/ Inside' = Inside
  <1>1. ASSUME NEW m \in Msgs, Arrive(m) \/ Store(m) \/ ResumeStep(m) \/ ResumeTrouble(m)
        PROVE  UNCHANGED <<run, lapsed>>
    BY <1>1 DEF Arrive, Store, ResumeStep, ResumePick, ResumeFires, ResumeDone, ResumeTrouble,
             ResumeThrows, ResumeStalls, ResumeFailStalled, turnVars
  <1>2. ASSUME NEW c \in Callers, CallStep(c) \/ CallFails(c)
        PROVE  UNCHANGED <<run, lapsed>>
    BY <1>2 DEF CallStep, CallFails, turnVars
  <1>3. ASSUME NEW j \in Jobs, Clock(j) \/ Stall(j) \/ FailStalled(j)
        PROVE  UNCHANGED <<run, lapsed>>
    BY <1>3 DEF Clock, Stall, FailStalled, turnVars
  <1>4. CASE Expire \/ Shutdown \/ CloseIntake \/ UNCHANGED vars
    <2>1. UNCHANGED <<run, lapsed>>
      BY <1>4 DEF Expire, Shutdown, CloseIntake, vars, turnVars
    <2> QED BY <2>1 DEF Inside, Section
  <1>5. ASSUME NEW j \in Jobs, TurnStep(j)
        PROVE  Lease!Next \/ Inside' = Inside
    <2>1. CASE Pick(j)
      BY <2>1, PickEnters
    <2>2. CASE Working(j) \/ Release(j) \/ Complete(j)
      BY <2>2, TurnLetsNobodyIn, NobodyEnters
    <2> QED BY <1>5, <2>1, <2>2 DEF TurnStep, Working
  <1>6. ASSUME NEW j \in Jobs, Lapse(j)
        PROVE  Lease!Next \/ Inside' = Inside
    <2>1. Inside' \subseteq Inside
      BY <1>6 DEF Lapse, Inside, Section
    <2> QED BY <2>1, NobodyEnters
  <1>7. CASE Exit \/ Crash
    <2>1. Reboot
      BY <1>7 DEF Exit, Crash
    <2>2. Inside' = {}
      BY <2>1 DEF Reboot, Inside, OffRun, Section
    <2> QED BY <2>2, NobodyEnters
  <1>8. ASSUME UNCHANGED <<run, lapsed>> PROVE Inside' = Inside
    BY <1>8 DEF Inside, Section
  <1> QED BY <1>1, <1>2, <1>3, <1>4, <1>5, <1>6, <1>7, <1>8 DEF Next

\* The turns of a chat implement a lock with leases (turn-lock.ts:20-48): a turn
\* enters the section when nobody with a lease is there, and the holder leaves
\* by its release, its lapse or the death of its process.
THEOREM ImplementsLease == Spec => Lease!Spec
  <1>1. Init => Lease!Init
    BY DEF Init, Lease!Init, OffRun, Section
  <1>2. LockInv /\ [Next]_vars => [Lease!Next]_Inside
    BY LeaseStep
  <1> QED BY InitLockInv, StepLockInv, <1>1, <1>2, PTL DEF Spec, Lease!Spec, Inside

-----------------------------------------------------------------------------
(* No mailbox is silently left without a turn *)

\* The messages in the mailbox, and those of them whose wake-up was cut.
Waiting == {e.msg : e \in EntriesOf(pending)}
CutWaiting == \E e \in EntriesOf(pending) : e.msg \in cut

\* The job will be picked, or given back by the stalled checker and then picked;
\* failing it as stalled cuts what is in the mailbox.
JobWakes(j) ==
    job[j] \in {"delayed", "waiting"} \/ (job[j] = "active" /\ run[j].at = "off")

\* The run has yet to drain the mailbox or to look at it again.
RunWakes(j) ==
    run[j].at \in {"drain", "work", "gen", "quiet", "unset", "recheck", "count", "resched"}

\* The defer_resume job has yet to call.  It counts only while its message is
\* there, since giving it up cuts that message and no other.
ResumeWakes(m) ==
    /\ resume[m].at \in {"delayed", "picked", "orphan"}
    /\ resume[m].entry.msg \in Waiting

\* The call has not added its job yet.  That of a handler or of a defer_resume
\* job counts only while its message is there, for the same reason.
CallWakes(c) ==
    /\ call[c].at \in {"read", "state", "change", "mark", "add"}
    /\ c[1] = "in" => c[2] \in Waiting
    /\ c[1] = "resume" => resume[c[2]].entry.msg \in Waiting

Wakes ==
    \/ \E j \in Jobs : JobWakes(j) \/ RunWakes(j)
    \/ \E c \in Callers : CallWakes(c)
    \/ \E m \in Msgs : ResumeWakes(m)

Woken == pending = <<>> \/ dirty \/ CutWaiting \/ Wakes

\* What the records hold, as far as it matters here.
CallShape ==
    /\ DOMAIN call = Callers
    /\ \A c \in Callers : DOMAIN call[c] = {"at", "id", "force", "still", "now"}
ResumeShape ==
    /\ DOMAIN resume = Msgs
    /\ \A m \in Msgs : /\ DOMAIN resume[m] = {"at", "entry"}
                       /\ resume[m].at \in ResumeSteps
Listed == \E S : pending \in Seq(S)
Ids ==
    /\ scheduledJobId \in Jobs \cup {NoJob}
    /\ job \in [Jobs -> JobStates]
    /\ \A c \in Callers : call[c].at \in {"state", "change", "set"} => call[c].id \in Jobs

\* A run has an active job; a turn calls scheduleTurn only where it ends; a
\* defer_resume job stays until its call is over.
RunsAligned == \A j \in Jobs : run[j].at # "off" => job[j] = "active"
TurnsAligned == \A j \in Jobs : ~Idle(Tu(j)) => run[j].at \in {"lose", "release"}
ResumesAligned == \A m \in Msgs : ~Idle(Re(m)) => resume[m].at # "none"

Records == Shape /\ CallShape /\ ResumeShape /\ Listed /\ Ids
Aligned == RunsAligned /\ TurnsAligned /\ ResumesAligned

\* NoSilentStranding looks at quiescent states only.  What is inductive is that
\* at every moment somebody is left to wake the chat for what waits.
WakeInv == Records /\ Aligned /\ Woken

LEMMA WakeInvSuffices == WakeInv => NoSilentStranding
  <1> SUFFICES ASSUME WakeInv, Quiescent, pending # <<>>
               PROVE  dirty \/ CutWaiting
    BY DEF NoSilentStranding, CutWaiting
  <1>1. ASSUME NEW j \in Jobs PROVE ~JobWakes(j) /\ ~RunWakes(j)
    <2>1. job[j] = "none"
      BY DEF Quiescent, Live
    <2>2. run[j].at = "off"
      BY <2>1 DEF WakeInv, Aligned, RunsAligned
    <2> QED BY <2>1, <2>2 DEF JobWakes, RunWakes
  <1>2. ASSUME NEW c \in Callers PROVE ~CallWakes(c)
    BY DEF Quiescent, Idle, CallWakes
  <1>3. ASSUME NEW m \in Msgs PROVE ~ResumeWakes(m)
    BY DEF Quiescent, ResumeWakes
  <1> QED BY <1>1, <1>2, <1>3 DEF WakeInv, Woken, Wakes

LEMMA InitWakeInv == Init => WakeInv
  <1> SUFFICES ASSUME Init PROVE WakeInv
    OBVIOUS
  <1> USE DEF Init, BufferInit, SchedulerInit
  <1>1. Shape
    BY DEF Shape, OffRun
  <1>2. CallShape /\ \A c \in Callers : Idle(c)
    BY DEF CallShape, IdleCall, Idle
  <1>3. ResumeShape
    BY DEF ResumeShape, NoResume, ResumeSteps
  <1>4. Listed
    BY DEF Listed
  <1>5. Ids
    BY DEF Ids, JobStates, IdleCall
  <1>6. RunsAligned
    BY DEF RunsAligned, OffRun
  <1>7. TurnsAligned /\ ResumesAligned
    <2>1. \A j \in Jobs : Tu(j) \in Callers
      BY ActorAssumption DEF Tu
    <2>2. \A m \in Msgs : Re(m) \in Callers
      BY ActorAssumption DEF Re
    <2> QED BY <1>2, <2>1, <2>2 DEF TurnsAligned, ResumesAligned
  <1>8. Woken
    BY DEF Woken
  <1> QED BY <1>1, <1>2, <1>3, <1>4, <1>5, <1>6, <1>7, <1>8 DEF WakeInv, Records, Aligned

-----------------------------------------------------------------------------
(* Callers, lists and calls *)

LEMMA CallerKinds ==
  /\ \A m \in Msgs : In(m) \in Callers /\ Re(m) \in Callers
  /\ \A j \in Jobs : Tu(j) \in Callers
  /\ \A c \in Callers :
        \/ \E m \in Msgs : c = In(m)
        \/ \E m \in Msgs : c = Re(m)
        \/ \E j \in Jobs : c = Tu(j)
  BY ActorAssumption DEF In, Re, Tu

LEMMA CallersApart ==
  /\ \A m, n \in Msgs : In(m) # Re(n)
  /\ \A m \in Msgs, j \in Jobs : In(m) # Tu(j) /\ Re(m) # Tu(j)
  /\ \A m, n \in Msgs : Re(m) = Re(n) => m = n
  /\ \A i, j \in Jobs : Tu(i) = Tu(j) => i = j
  /\ \A m \in Msgs : In(m)[1] = "in" /\ In(m)[2] = m
  /\ \A m \in Msgs : Re(m)[1] = "resume" /\ Re(m)[2] = m
  /\ \A j \in Jobs : Tu(j)[1] = "turn"
  BY DEF In, Re, Tu

LEMMA AppendedIn ==
  ASSUME Listed, NEW e, pending' = Append(pending, e)
  PROVE  /\ Listed'
         /\ e \in EntriesOf(pending)'
         /\ EntriesOf(pending) \subseteq EntriesOf(pending)'
  <1>1. PICK S : pending \in Seq(S)
    BY DEF Listed
  <1>2. pending \in Seq(S \cup {e})
    BY <1>1
  <1>3. /\ pending' \in Seq(S \cup {e})
        /\ Len(pending') = Len(pending) + 1
        /\ pending'[Len(pending) + 1] = e
        /\ \A i \in 1..Len(pending) : pending'[i] = pending[i]
    BY <1>2
  <1>4. DOMAIN pending' = 1..(Len(pending) + 1) /\ DOMAIN pending = 1..Len(pending)
    BY <1>1, <1>3
  <1>5. Len(pending) \in Nat
    BY <1>1
  <1> QED BY <1>3, <1>4, <1>5 DEF Listed, EntriesOf

LEMMA WaitingNotEmpty ==
  ASSUME Listed, pending # <<>>
  PROVE  EntriesOf(pending) # {}
  <1>1. PICK S : pending \in Seq(S)
    BY DEF Listed
  <1>2. 1 \in DOMAIN pending
    BY <1>1
  <1> QED BY <1>2 DEF EntriesOf

LEMMA ScheduleEffect ==
  ASSUME CallShape, NEW c \in Callers, NEW f, NEW s, NEW n, ScheduleTurn(c, f, s, n)
  PROVE  /\ CallShape'
         /\ call'[c].at = "read"
         /\ \A d \in Callers \ {c} : call'[d] = call[d]
  BY DEF CallShape, ScheduleTurn

LEMMA GoEffect ==
  ASSUME CallShape, NEW c \in Callers, NEW step, NEW id, Go(c, step, id)
  PROVE  /\ CallShape'
         /\ call'[c].at = step
         /\ call'[c].id = id
         /\ \A d \in Callers \ {c} : call'[d] = call[d]
  BY DEF CallShape, Go

LEMMA ReturnEffect ==
  ASSUME CallShape, NEW c \in Callers, Return(c)
  PROVE  /\ CallShape'
         /\ Idle(c)'
         /\ \A d \in Callers \ {c} : call'[d] = call[d]
  BY DEF CallShape, Return, Idle, IdleCall

-----------------------------------------------------------------------------
(* Messages and defer_resume jobs *)

\* Nothing that waking is about changes.
LEMMA Untouched ==
  ASSUME WakeInv,
         UNCHANGED <<pending, dirty, scheduledJobId, job, call, run, resume, cut>>
  PROVE  WakeInv'
  BY DEF WakeInv, Records, Aligned, Woken, Shape, CallShape, ResumeShape, Listed, Ids,
         RunsAligned, TurnsAligned, ResumesAligned, Idle, Wakes, JobWakes, RunWakes,
         ResumeWakes, CallWakes, Waiting, CutWaiting, EntriesOf

\* The handler has its message in the mailbox and is about to call.
LEMMA StoreKeepsAwake ==
  ASSUME WakeInv, NEW m \in Msgs, Store(m)
  PROVE  WakeInv'
  <1>1. /\ UNCHANGED <<scheduledJobId, dirty, job, run, resume, cut>>
        /\ pending' = Append(pending, FreshEntry(m))
        /\ ScheduleTurn(In(m), FALSE, Info[m].isEdit /\ ~Info[m].direct, Info[m].direct)
    BY DEF Store, AppendPending, turnVars
  <1>2. /\ CallShape'
        /\ call'[In(m)].at = "read"
        /\ \A d \in Callers \ {In(m)} : call'[d] = call[d]
    BY <1>1, CallerKinds, ScheduleEffect DEF WakeInv, Records
  <1>3. Listed' /\ m \in Waiting'
    <2>1. Listed' /\ FreshEntry(m) \in EntriesOf(pending)'
      BY <1>1, AppendedIn DEF WakeInv, Records
    <2>2. FreshEntry(m).msg = m
      BY DEF FreshEntry
    <2> QED BY <2>1, <2>2 DEF Waiting
  <1>4. Records'
    BY <1>1, <1>2, <1>3 DEF WakeInv, Records, Shape, ResumeShape, Ids
  <1>5. Aligned'
    BY <1>1, <1>2, CallerKinds, CallersApart
       DEF WakeInv, Aligned, RunsAligned, TurnsAligned, ResumesAligned, Idle
  <1>6. CallWakes(In(m))'
    BY <1>2, <1>3, CallersApart DEF CallWakes
  <1> QED BY <1>4, <1>5, <1>6, CallerKinds DEF WakeInv, Woken, Wakes

\* A new step of a defer_resume job changes nothing else of its record.
LEMMA ResumeGoes ==
  ASSUME ResumeShape, NEW m \in Msgs, NEW step \in ResumeSteps,
         resume' = [resume EXCEPT ![m].at = step]
  PROVE  /\ ResumeShape'
         /\ resume'[m].at = step /\ resume'[m].entry = resume[m].entry
         /\ \A n \in Msgs \ {m} : resume'[n] = resume[n]
  BY DEF ResumeShape

\* The worker takes the job, or the stalled checker gives it back.
LEMMA ResumeMovesKeepsAwake ==
  ASSUME WakeInv, NEW m \in Msgs, ResumePick(m) \/ ResumeStalls(m)
  PROVE  WakeInv'
  <1>1. /\ UNCHANGED <<pending, scheduledJobId, dirty, job, call, run, cut>>
        /\ resume[m].at # "none"
    BY DEF ResumePick, ResumeStalls, turnVars, bufferVars, schedulerVars
  <1>2. PICK step \in {"picked", "delayed"} : resume' = [resume EXCEPT ![m].at = step]
    BY DEF ResumePick, ResumeStalls
  <1>3. /\ ResumeShape'
        /\ resume'[m].at = step /\ resume'[m].entry = resume[m].entry
        /\ \A n \in Msgs \ {m} : resume'[n] = resume[n]
    BY <1>2, ResumeGoes DEF WakeInv, Records, ResumeSteps
  <1>4. Records'
    BY <1>1, <1>3 DEF WakeInv, Records, Shape, CallShape, Listed, Ids
  <1>5. Aligned'
    BY <1>1, <1>3 DEF WakeInv, Aligned, RunsAligned, TurnsAligned, ResumesAligned, Idle
  <1>6. \A n \in Msgs : ResumeWakes(n) => ResumeWakes(n)'
    BY <1>1, <1>3 DEF ResumeWakes, Waiting, EntriesOf
  <1>7. \A c \in Callers : CallWakes(c) => CallWakes(c)'
    <2>1. \A n \in Msgs : resume'[n].entry = resume[n].entry
      BY <1>3
    <2> QED BY <1>1, <2>1, CallerKinds, CallersApart DEF CallWakes, Waiting, EntriesOf
  <1>8. Wakes => Wakes'
    BY <1>1, <1>6, <1>7 DEF Wakes, JobWakes, RunWakes
  <1> QED BY <1>1, <1>4, <1>5, <1>8 DEF WakeInv, Woken, CutWaiting, EntriesOf

\* The job puts the entry back and is about to call.  If the entry was put back
\* by an earlier attempt, the call stands for the job as long as it is there.
LEMMA ResumeFiresKeepsAwake ==
  ASSUME WakeInv, NEW m \in Msgs, ResumeFires(m)
  PROVE  WakeInv'
  <1>1. /\ UNCHANGED <<scheduledJobId, dirty, job, run, cut>>
        /\ resume' = [resume EXCEPT ![m].at = "call"]
        /\ ReinjectDefer(<<m, resume[m].entry.defers>>, resume[m].entry)
        /\ ScheduleTurn(Re(m), FALSE, FALSE, TRUE)
    BY DEF ResumeFires, turnVars
  <1>2. /\ CallShape'
        /\ call'[Re(m)].at = "read"
        /\ \A d \in Callers \ {Re(m)} : call'[d] = call[d]
    BY <1>1, CallerKinds, ScheduleEffect DEF WakeInv, Records
  <1>3. /\ ResumeShape'
        /\ resume'[m].at = "call" /\ resume'[m].entry = resume[m].entry
        /\ \A n \in Msgs \ {m} : resume'[n] = resume[n]
    BY <1>1, ResumeGoes DEF WakeInv, Records, ResumeSteps
  <1>4. /\ Listed'
        /\ EntriesOf(pending) \subseteq EntriesOf(pending)'
        /\ pending' = pending \/ resume[m].entry \in EntriesOf(pending)'
    <2>1. pending' = pending \/ pending' = Append(pending, resume[m].entry)
      BY <1>1 DEF ReinjectDefer, AppendPending
    <2> QED BY <2>1, AppendedIn DEF WakeInv, Records, Listed, EntriesOf
  <1>5. Records'
    BY <1>1, <1>2, <1>3, <1>4 DEF WakeInv, Records, Shape, Ids
  <1>6. Aligned'
    BY <1>1, <1>2, <1>3, CallerKinds, CallersApart
       DEF WakeInv, Aligned, RunsAligned, TurnsAligned, ResumesAligned, Idle
  <1>7. resume[m].entry.msg \in Waiting' => CallWakes(Re(m))'
    BY <1>2, <1>3, CallersApart DEF CallWakes
  <1>8. CASE pending' # pending
    <2>1. resume[m].entry.msg \in Waiting'
      BY <1>4, <1>8 DEF Waiting
    <2> QED BY <1>5, <1>6, <1>7, <2>1, CallerKinds DEF WakeInv, Woken, Wakes
  <1>9. CASE pending' = pending
    <2>1. Waiting' = Waiting
      BY <1>9 DEF Waiting, EntriesOf
    <2>2. ResumeWakes(m) => CallWakes(Re(m))'
      BY <1>7, <2>1 DEF ResumeWakes
    <2>3. \A n \in Msgs \ {m} : ResumeWakes(n) => ResumeWakes(n)'
      BY <1>3, <2>1 DEF ResumeWakes
    <2>4. \A c \in Callers : CallWakes(c) => CallWakes(c)'
      <3>1. \A n \in Msgs : resume'[n].entry = resume[n].entry
        BY <1>3
      <3> QED BY <1>2, <2>1, <3>1, CallerKinds, CallersApart DEF CallWakes
    <2>5. Wakes => Wakes'
      BY <1>1, <2>2, <2>3, <2>4, CallerKinds DEF Wakes, JobWakes, RunWakes
    <2> QED BY <1>1, <1>5, <1>6, <1>9, <2>5 DEF WakeInv, Woken, CutWaiting, EntriesOf
  <1> QED BY <1>8, <1>9

\* A job that ends has called, and no other job depends on it.
LEMMA ResumeDoneKeepsAwake ==
  ASSUME WakeInv, NEW m \in Msgs, ResumeDone(m)
  PROVE  WakeInv'
  <1>1. /\ UNCHANGED <<pending, scheduledJobId, dirty, job, call, run, cut>>
        /\ resume' = [resume EXCEPT ![m] = NoResume(m)]
        /\ resume[m].at = "call"
        /\ Idle(Re(m))
    BY DEF ResumeDone, turnVars, bufferVars, schedulerVars
  <1>2. ResumeShape' /\ \A n \in Msgs \ {m} : resume'[n] = resume[n]
    BY <1>1 DEF WakeInv, Records, ResumeShape, NoResume, ResumeSteps
  <1>3. Records'
    BY <1>1, <1>2 DEF WakeInv, Records, Shape, CallShape, Listed, Ids
  <1>4. Aligned'
    BY <1>1, <1>2 DEF WakeInv, Aligned, RunsAligned, TurnsAligned, ResumesAligned, Idle
  <1>5. \A n \in Msgs : ResumeWakes(n) => ResumeWakes(n)'
    BY <1>1, <1>2 DEF ResumeWakes, Waiting, EntriesOf
  <1>6. \A c \in Callers : CallWakes(c) => CallWakes(c)'
    <2>1. ~CallWakes(Re(m))
      BY <1>1 DEF CallWakes, Idle
    <2> QED BY <1>1, <1>2, <2>1, CallerKinds, CallersApart DEF CallWakes, Waiting, EntriesOf
  <1>7. Wakes => Wakes'
    BY <1>1, <1>5, <1>6 DEF Wakes, JobWakes, RunWakes
  <1> QED BY <1>1, <1>3, <1>4, <1>7 DEF WakeInv, Woken, CutWaiting, EntriesOf

\* A job that fails comes again, or is given up and cuts its message.
LEMMA ResumeFailsKeepsAwake ==
  ASSUME WakeInv, NEW m \in Msgs, ResumeThrows(m) \/ ResumeFailStalled(m)
  PROVE  WakeInv'
  <1>1. /\ UNCHANGED <<pending, scheduledJobId, dirty, job, run>>
        /\ Return(Re(m))
        /\ \/ resume' = [resume EXCEPT ![m].at = "delayed"] /\ cut' = cut
           \/ /\ resume' = [resume EXCEPT ![m] = NoResume(m)]
              /\ cut' = cut \cup {resume[m].entry.msg}
    BY DEF ResumeThrows, ResumeFailStalled, ResumeGivenUp, turnVars, bufferVars
  <1>2. CallShape' /\ Idle(Re(m))' /\ \A d \in Callers \ {Re(m)} : call'[d] = call[d]
    BY <1>1, CallerKinds, ReturnEffect DEF WakeInv, Records
  <1>3. /\ ResumeShape'
        /\ \A n \in Msgs \ {m} : resume'[n] = resume[n]
        /\ \/ resume'[m].at = "delayed" /\ resume'[m].entry = resume[m].entry
           \/ resume[m].entry.msg \in cut'
    <2>1. CASE resume' = [resume EXCEPT ![m].at = "delayed"]
      BY <2>1, ResumeGoes DEF WakeInv, Records, ResumeSteps
    <2>2. CASE /\ resume' = [resume EXCEPT ![m] = NoResume(m)]
               /\ cut' = cut \cup {resume[m].entry.msg}
      BY <2>2 DEF WakeInv, Records, ResumeShape, NoResume, ResumeSteps
    <2> QED BY <1>1, <2>1, <2>2
  <1>4. Records'
    <2>1. \A c \in Callers : call'[c].at \in {"state", "change", "set"} => call'[c].id \in Jobs
      BY <1>2 DEF WakeInv, Records, Ids, Idle
    <2> QED BY <1>1, <1>2, <1>3, <2>1 DEF WakeInv, Records, Shape, Listed, Ids
  <1>5. Aligned'
    <2>1. RunsAligned'
      BY <1>1 DEF WakeInv, Aligned, RunsAligned
    <2>2. TurnsAligned'
      BY <1>1, <1>2, CallerKinds, CallersApart DEF WakeInv, Aligned, TurnsAligned, Idle
    <2>3. ResumesAligned'
      BY <1>2, <1>3, CallerKinds, CallersApart DEF WakeInv, Aligned, ResumesAligned, Idle
    <2> QED BY <2>1, <2>2, <2>3 DEF Aligned
  <1>6. Waiting' = Waiting /\ (CutWaiting => CutWaiting')
    BY <1>1 DEF Waiting, CutWaiting, EntriesOf
  <1>7. resume[m].entry.msg \in Waiting => ResumeWakes(m)' \/ CutWaiting'
    BY <1>1, <1>3, <1>6 DEF ResumeWakes, CutWaiting, Waiting, EntriesOf
  <1>8. \A n \in Msgs : ResumeWakes(n) => ResumeWakes(n)' \/ CutWaiting'
    BY <1>3, <1>6, <1>7 DEF ResumeWakes
  <1>9. ASSUME NEW c \in Callers, CallWakes(c)
        PROVE  CallWakes(c)' \/ ResumeWakes(m)' \/ CutWaiting'
    <2>1. CASE c = Re(m)
      BY <1>7, <1>9, <2>1, CallersApart DEF CallWakes
    <2>2. CASE c # Re(m)
      BY <1>2, <1>3, <1>6, <1>9, <2>2, CallerKinds, CallersApart DEF CallWakes
    <2> QED BY <2>1, <2>2
  <1>10. Wakes => Wakes' \/ CutWaiting'
    BY <1>1, <1>8, <1>9 DEF Wakes, JobWakes, RunWakes
  <1> QED BY <1>1, <1>4, <1>5, <1>6, <1>10 DEF WakeInv, Woken

-----------------------------------------------------------------------------
(* The steps of scheduleTurn *)

\* What a call that goes on, or returns, leaves as it was.
LEMMA CallMoves ==
  ASSUME WakeInv, NEW c \in Callers, ~Idle(c), CallShape', Ids',
         \A d \in Callers \ {c} : call'[d] = call[d],
         \A j \in Jobs : job[j] # "none" => job'[j] = job[j],
         UNCHANGED <<pending, run, resume, cut>>,
         dirty => dirty',
         CallWakes(c) => CallWakes(c)' \/ dirty' \/ \E j \in Jobs : JobWakes(j)'
  PROVE  WakeInv'
  <1>1. Records'
    BY DEF WakeInv, Records, Shape, ResumeShape, Listed
  <1>2. Aligned'
    <2>1. \A d \in Callers : ~Idle(d)' => ~Idle(d)
      BY DEF Idle
    <2>2. RunsAligned'
      BY DEF WakeInv, Aligned, RunsAligned
    <2>3. TurnsAligned' /\ ResumesAligned'
      BY <2>1, CallerKinds DEF WakeInv, Aligned, TurnsAligned, ResumesAligned, Tu, Re
    <2> QED BY <2>2, <2>3 DEF Aligned
  <1>3. \A j \in Jobs : (JobWakes(j) => JobWakes(j)') /\ (RunWakes(j) => RunWakes(j)')
    BY DEF JobWakes, RunWakes
  <1>4. /\ \A d \in Callers \ {c} : CallWakes(d) => CallWakes(d)'
        /\ \A m \in Msgs : ResumeWakes(m) => ResumeWakes(m)'
    BY DEF CallWakes, ResumeWakes, Waiting, EntriesOf
  <1>5. CutWaiting => CutWaiting'
    BY DEF CutWaiting, EntriesOf
  <1>6. Wakes => Wakes' \/ dirty'
    BY <1>3, <1>4 DEF Wakes
  <1> QED BY <1>1, <1>2, <1>5, <1>6 DEF WakeInv, Woken

LEMMA ReadMetaKeepsAwake ==
  ASSUME WakeInv, NEW c \in Callers, ReadMeta(c), UNCHANGED <<run, resume, cut>>
  PROVE  WakeInv'
  <1>1. call[c].at = "read" /\ UNCHANGED <<job, pending, dirty, scheduledJobId>>
    BY DEF ReadMeta, bufferVars
  <1>2. PICK step \in {"add", "state"}, id \in Jobs \cup {NoJob} :
          Go(c, step, id) /\ (step = "state" => id \in Jobs)
    <2>1. CASE call[c].force \/ scheduledJobId = NoJob
      <3>1. Go(c, "add", NoJob)
        BY <2>1 DEF ReadMeta
      <3> QED BY <3>1
    <2>2. CASE ~(call[c].force \/ scheduledJobId = NoJob)
      <3>1. Go(c, "state", scheduledJobId) /\ scheduledJobId \in Jobs
        BY <2>2 DEF ReadMeta, WakeInv, Records, Ids
      <3> QED BY <3>1
    <2> QED BY <2>1, <2>2
  <1>3. /\ CallShape'
        /\ call'[c].at = step /\ call'[c].id = id
        /\ \A d \in Callers \ {c} : call'[d] = call[d]
    BY <1>2, GoEffect DEF WakeInv, Records
  <1>4. Ids'
    BY <1>1, <1>2, <1>3 DEF WakeInv, Records, Ids
  <1>5. CallWakes(c) => CallWakes(c)'
    BY <1>1, <1>3 DEF CallWakes, Waiting, EntriesOf
  <1> QED BY <1>1, <1>3, <1>4, <1>5, CallMoves DEF Idle

\* The call returns only if the job it found is delayed, so that it comes.
LEMMA GetStateKeepsAwake ==
  ASSUME WakeInv, NEW c \in Callers, GetState(c), UNCHANGED <<run, resume, cut>>
  PROVE  WakeInv'
  <1>1. /\ call[c].at = "state"
        /\ UNCHANGED <<job, pending, dirty, scheduledJobId>>
        /\ call[c].id \in Jobs /\ job[call[c].id] \in JobStates
    BY DEF GetState, bufferVars, WakeInv, Records, Ids
  <1>2. CASE job[call[c].id] = "delayed" /\ call[c].still
    <2>1. Return(c)
      BY <1>2 DEF GetState
    <2>2. CallShape' /\ Idle(c)' /\ \A d \in Callers \ {c} : call'[d] = call[d]
      BY <2>1, ReturnEffect DEF WakeInv, Records
    <2>3. Ids'
      BY <1>1, <2>2 DEF WakeInv, Records, Ids, Idle
    <2>4. \E j \in Jobs : JobWakes(j)'
      BY <1>1, <1>2 DEF JobWakes
    <2> QED BY <1>1, <2>2, <2>3, <2>4, CallMoves DEF Idle
  <1>3. CASE ~(job[call[c].id] = "delayed" /\ call[c].still)
    <2>1. PICK step \in {"change", "mark", "add"}, id \in Jobs \cup {NoJob} :
            Go(c, step, id) /\ (step = "change" => id \in Jobs)
      <3>1. CASE job[call[c].id] = "delayed"
        <4>1. Go(c, "change", call[c].id)
          BY <1>3, <3>1 DEF GetState
        <4> QED BY <1>1, <4>1
      <3>2. CASE job[call[c].id] \in {"waiting", "active"}
        <4>1. Go(c, "mark", NoJob)
          BY <3>2 DEF GetState
        <4> QED BY <4>1
      <3>3. CASE job[call[c].id] = "none"
        <4>1. Go(c, "add", NoJob)
          BY <3>3 DEF GetState
        <4> QED BY <4>1
      <3> QED BY <1>1, <3>1, <3>2, <3>3 DEF JobStates
    <2>2. /\ CallShape'
          /\ call'[c].at = step /\ call'[c].id = id
          /\ \A d \in Callers \ {c} : call'[d] = call[d]
      BY <2>1, GoEffect DEF WakeInv, Records
    <2>3. Ids'
      BY <1>1, <2>1, <2>2 DEF WakeInv, Records, Ids
    <2>4. CallWakes(c) => CallWakes(c)'
      BY <1>1, <2>2 DEF CallWakes, Waiting, EntriesOf
    <2> QED BY <1>1, <2>2, <2>3, <2>4, CallMoves DEF Idle
  <1> QED BY <1>2, <1>3

LEMMA ChangeDelayKeepsAwake ==
  ASSUME WakeInv, NEW c \in Callers, ChangeDelay(c), UNCHANGED <<run, resume, cut>>
  PROVE  WakeInv'
  <1>1. /\ call[c].at = "change"
        /\ UNCHANGED <<job, pending, dirty, scheduledJobId>>
        /\ call[c].id \in Jobs
    BY DEF ChangeDelay, bufferVars, WakeInv, Records, Ids
  <1>2. CASE job[call[c].id] = "delayed"
    <2>1. Return(c)
      BY <1>2 DEF ChangeDelay
    <2>2. CallShape' /\ Idle(c)' /\ \A d \in Callers \ {c} : call'[d] = call[d]
      BY <2>1, ReturnEffect DEF WakeInv, Records
    <2>3. Ids'
      BY <1>1, <2>2 DEF WakeInv, Records, Ids, Idle
    <2>4. \E j \in Jobs : JobWakes(j)'
      BY <1>1, <1>2 DEF JobWakes
    <2> QED BY <1>1, <2>2, <2>3, <2>4, CallMoves DEF Idle
  <1>3. CASE job[call[c].id] # "delayed"
    <2>1. Go(c, "mark", NoJob)
      BY <1>3 DEF ChangeDelay
    <2>2. /\ CallShape'
          /\ call'[c].at = "mark"
          /\ \A d \in Callers \ {c} : call'[d] = call[d]
      BY <2>1, GoEffect DEF WakeInv, Records
    <2>3. Ids'
      BY <1>1, <2>2 DEF WakeInv, Records, Ids
    <2>4. CallWakes(c) => CallWakes(c)'
      BY <1>1, <2>2 DEF CallWakes, Waiting, EntriesOf
    <2> QED BY <1>1, <2>2, <2>3, <2>4, CallMoves DEF Idle
  <1> QED BY <1>2, <1>3

LEMMA MarkDirtyKeepsAwake ==
  ASSUME WakeInv, NEW c \in Callers, MarkDirty(c), UNCHANGED <<run, resume, cut>>
  PROVE  WakeInv'
  <1>1. /\ call[c].at = "mark" /\ dirty' /\ Return(c)
        /\ UNCHANGED <<job, pending, scheduledJobId>>
    BY DEF MarkDirty
  <1>2. CallShape' /\ Idle(c)' /\ \A d \in Callers \ {c} : call'[d] = call[d]
    BY <1>1, ReturnEffect DEF WakeInv, Records
  <1>3. Ids'
    BY <1>1, <1>2 DEF WakeInv, Records, Ids, Idle
  <1> QED BY <1>1, <1>2, <1>3, CallMoves DEF Idle

\* The new job will be picked whether or not its id is ever stored.
LEMMA AddJobKeepsAwake ==
  ASSUME WakeInv, NEW c \in Callers, AddJob(c), UNCHANGED <<run, resume, cut>>
  PROVE  WakeInv'
  <1>1. call[c].at = "add" /\ UNCHANGED <<pending, dirty, scheduledJobId>>
    BY DEF AddJob, bufferVars
  <1>2. PICK j \in Jobs, state \in {"waiting", "delayed"} :
          job[j] = "none" /\ job' = [job EXCEPT ![j] = state] /\ Go(c, "set", j)
    BY DEF AddJob, Unused
  <1>3. /\ CallShape'
        /\ call'[c].at = "set" /\ call'[c].id = j
        /\ \A d \in Callers \ {c} : call'[d] = call[d]
    BY <1>2, GoEffect DEF WakeInv, Records
  <1>4. Ids'
    BY <1>1, <1>2, <1>3 DEF WakeInv, Records, Ids, JobStates
  <1>5. JobWakes(j)' /\ \A i \in Jobs : job[i] # "none" => job'[i] = job[i]
    BY <1>2 DEF WakeInv, Records, Ids, JobWakes
  <1> QED BY <1>1, <1>3, <1>4, <1>5, CallMoves DEF Idle

LEMMA SetScheduledJobKeepsAwake ==
  ASSUME WakeInv, NEW c \in Callers, SetScheduledJob(c), UNCHANGED <<run, resume, cut>>
  PROVE  WakeInv'
  <1>1. /\ call[c].at = "set" /\ scheduledJobId' = call[c].id /\ Return(c)
        /\ UNCHANGED <<job, pending, dirty>>
    BY DEF SetScheduledJob
  <1>2. CallShape' /\ Idle(c)' /\ \A d \in Callers \ {c} : call'[d] = call[d]
    BY <1>1, ReturnEffect DEF WakeInv, Records
  <1>3. Ids'
    BY <1>1, <1>2 DEF WakeInv, Records, Ids, Idle
  <1>4. ~CallWakes(c)
    BY <1>1 DEF CallWakes
  <1> QED BY <1>1, <1>2, <1>3, <1>4, CallMoves DEF Idle

LEMMA CallStepKeepsAwake ==
  ASSUME WakeInv, NEW c \in Callers, CallStep(c)
  PROVE  WakeInv'
  <1>1. SchedulerStep(c) /\ UNCHANGED <<run, resume, cut>>
    BY DEF CallStep, turnVars, flowVars
  <1> QED BY <1>1, ReadMetaKeepsAwake, GetStateKeepsAwake, ChangeDelayKeepsAwake,
             MarkDirtyKeepsAwake, AddJobKeepsAwake, SetScheduledJobKeepsAwake
          DEF SchedulerStep

\* A call that throws leaves a cut message, or a whole cut mailbox behind.
LEMMA CallFailsKeepsAwake ==
  ASSUME WakeInv, NEW c \in Callers, CallFails(c)
  PROVE  WakeInv'
  <1>1. /\ c[1] # "resume" /\ ~Idle(c) /\ Return(c)
        /\ UNCHANGED <<pending, dirty, scheduledJobId, job, run, resume>>
        /\ cut' = cut \cup Unwoken(c)
    BY DEF CallFails, bufferVars, turnVars
  <1>2. CallShape' /\ Idle(c)' /\ \A d \in Callers \ {c} : call'[d] = call[d]
    BY <1>1, ReturnEffect DEF WakeInv, Records
  <1>4. Records'
    BY <1>1, <1>2 DEF WakeInv, Records, Shape, ResumeShape, Listed, Ids, Idle
  <1>5. Aligned'
    BY <1>1, <1>2, CallerKinds
       DEF WakeInv, Aligned, RunsAligned, TurnsAligned, ResumesAligned, Idle
  <1>6. CutWaiting => CutWaiting'
    BY <1>1 DEF CutWaiting, EntriesOf
  <1>7. \A j \in Jobs : JobWakes(j)' = JobWakes(j) /\ RunWakes(j)' = RunWakes(j)
    BY <1>1 DEF JobWakes, RunWakes
  <1>8. /\ \A d \in Callers \ {c} : CallWakes(d) => CallWakes(d)'
        /\ \A m \in Msgs : ResumeWakes(m) => ResumeWakes(m)'
    BY <1>1, <1>2 DEF CallWakes, ResumeWakes, Waiting, EntriesOf
  <1>9. ASSUME pending # <<>>, CallWakes(c)
        PROVE  CutWaiting'
    <2>1. ASSUME NEW m \in Msgs, c = In(m) PROVE CutWaiting'
      <3>1. m \in cut' /\ m \in Waiting
        BY <1>1, <1>9, <2>1, CallersApart DEF CallWakes, Unwoken
      <3> QED BY <1>1, <3>1 DEF CutWaiting, Waiting, EntriesOf
    <2>2. ASSUME NEW j \in Jobs, c = Tu(j) PROVE CutWaiting'
      <3>1. PICK e \in EntriesOf(pending) : TRUE
        BY <1>9, WaitingNotEmpty DEF WakeInv, Records
      <3>2. e.msg \in cut'
        BY <1>1, <2>2, CallersApart DEF Unwoken
      <3> QED BY <1>1, <3>2 DEF CutWaiting, EntriesOf
    <2> QED BY <1>1, <2>1, <2>2, CallerKinds, CallersApart
  <1>10. Woken'
    BY <1>1, <1>6, <1>7, <1>8, <1>9 DEF WakeInv, Woken, Wakes
  <1> QED BY <1>4, <1>5, <1>10 DEF WakeInv

-----------------------------------------------------------------------------
(* The steps of a turn *)

\* A turn that has the lock drains; a loser is about to call.
LEMMA PickKeepsAwake ==
  ASSUME WakeInv, NEW j \in Jobs, Pick(j)
  PROVE  WakeInv'
  <1>1. /\ UNCHANGED <<pending, dirty, scheduledJobId, resume, cut>>
        /\ job' = [job EXCEPT ![j] = "active"]
    BY DEF Pick, bufferVars, flowVars
  <1>2. PICK step \in {"drain", "lose"} :
          /\ run' = [run EXCEPT ![j] = [OffRun EXCEPT !.at = step]]
          /\ IF step = "drain" THEN UNCHANGED call ELSE ScheduleTurn(Tu(j), FALSE, TRUE, FALSE)
    BY DEF Pick
  <1>3. /\ Shape'
        /\ run'[j].at = step
        /\ \A i \in Jobs \ {j} : run'[i] = run[i]
    BY <1>2 DEF WakeInv, Records, Shape, OffRun
  <1>4. /\ CallShape'
        /\ step = "lose" => call'[Tu(j)].at = "read"
        /\ \A d \in Callers \ {Tu(j)} : call'[d] = call[d]
        /\ step = "drain" => call' = call
    <2>1. CASE step = "drain"
      BY <1>2, <2>1 DEF WakeInv, Records, CallShape
    <2>2. CASE step = "lose"
      <3>1. ScheduleTurn(Tu(j), FALSE, TRUE, FALSE)
        BY <1>2, <2>2
      <3> QED BY <2>2, <3>1, CallerKinds, ScheduleEffect DEF WakeInv, Records
    <2> QED BY <2>1, <2>2
  <1>5. job' \in [Jobs -> JobStates] /\ job'[j] = "active" /\ \A i \in Jobs \ {j} : job'[i] = job[i]
    BY <1>1 DEF WakeInv, Records, Ids, JobStates
  <1>6. Records'
    <2>1. \A c \in Callers : call'[c].at \in {"state", "change", "set"} => call'[c].id \in Jobs
      BY <1>4 DEF WakeInv, Records, Ids
    <2>2. Ids'
      BY <1>1, <1>5, <2>1 DEF WakeInv, Records, Ids
    <2> QED BY <1>1, <1>3, <1>4, <2>2 DEF WakeInv, Records, ResumeShape, Listed
  <1>7. Aligned'
    <2>1. RunsAligned'
      BY <1>3, <1>5 DEF WakeInv, Aligned, RunsAligned
    <2>2. Idle(Tu(j)) \/ step = "lose"
      <3>1. job[j] = "waiting"
        BY DEF Pick
      <3>2. run[j].at = "off"
        BY <3>1 DEF WakeInv, Aligned, RunsAligned
      <3> QED BY <3>2 DEF WakeInv, Aligned, TurnsAligned
    <2>3. TurnsAligned'
      BY <1>3, <1>4, <2>2, CallerKinds, CallersApart DEF WakeInv, Aligned, TurnsAligned, Idle
    <2>4. ResumesAligned'
      BY <1>1, <1>4, CallerKinds, CallersApart DEF WakeInv, Aligned, ResumesAligned, Idle
    <2> QED BY <2>1, <2>3, <2>4 DEF Aligned
  <1>8. RunWakes(j)' \/ CallWakes(Tu(j))'
    BY <1>3, <1>4, CallersApart DEF RunWakes, CallWakes
  <1> QED BY <1>6, <1>7, <1>8, CallerKinds DEF WakeInv, Woken, Wakes

\* A turn at work looks at the mailbox again before it ends.
LEMMA WorkKeepsAwake ==
  ASSUME WakeInv, NEW j \in Jobs, Working(j)
  PROVE  WakeInv'
  <1>1. /\ Shape'
        /\ run[j].at \in {"drain", "work", "gen", "quiet", "unset", "recheck", "count", "resched"}
        /\ run'[j].at \in {"work", "gen", "quiet", "unset", "recheck", "count", "resched",
                            "release", "exit"}
        /\ \A i \in Jobs \ {j} : run'[i] = run[i]
    BY WorkEffect, SMTT(30) DEF WakeInv, Records
  <1>2. UNCHANGED <<job, cut>> /\ scheduledJobId' \in {scheduledJobId, NoJob}
    BY DEF Working, Drain, TrackEntry, RunCommand, StartTalk, TalkEnds, TalkDeferred,
           TalkPutBack, TalkInterrupted, TalkExhausted, Replan, ReadPointer, Unset,
           ClearDirty, CountPending, Reschedule, bufferVars, schedulerVars, flowVars
  <1>3. Listed'
    <2>1. \/ pending' = pending
          \/ pending' = <<>>
          \/ \E e : pending' = Append(pending, e)
      <3>1. CASE Drain(j) \/ Replan(j)
        BY <3>1 DEF Drain, Replan, DrainPending
      <3>2. CASE RunCommand(j) \/ TalkPutBack(j) \/ TalkExhausted(j)
        BY <3>2 DEF RunCommand, TalkPutBack, TalkExhausted, AppendPending
      <3>3. CASE TrackEntry(j) \/ StartTalk(j) \/ TalkEnds(j) \/ TalkDeferred(j)
                   \/ TalkInterrupted(j) \/ ReadPointer(j) \/ Unset(j) \/ ClearDirty(j)
                   \/ CountPending(j) \/ Reschedule(j)
        BY <3>3 DEF TrackEntry, StartTalk, TalkEnds, TalkDeferred, TalkInterrupted,
                    ReadPointer, Unset, ClearDirty, CountPending, Reschedule, bufferVars
      <3> QED BY <3>1, <3>2, <3>3 DEF Working
    <2>2. CASE pending' = <<>>
      BY <2>2 DEF Listed
    <2> QED BY <2>1, <2>2, AppendedIn DEF WakeInv, Records, Listed
  <1>4. ResumeShape' /\ \A m \in Msgs : resume'[m] = resume[m] \/ resume'[m].at = "delayed"
    <2>1. CASE TalkDeferred(j)
      <3>1. PICK m, e : resume' = [resume EXCEPT ![m] = [at |-> "delayed", entry |-> e]]
        BY <2>1 DEF TalkDeferred
      <3> QED BY <3>1 DEF WakeInv, Records, ResumeShape, ResumeSteps
    <2>2. CASE ~TalkDeferred(j)
      <3>1. resume' = resume
        BY <2>2 DEF Working, Drain, TrackEntry, RunCommand, StartTalk, TalkEnds,
             TalkPutBack, TalkInterrupted, TalkExhausted, Replan, ReadPointer, Unset,
             ClearDirty, CountPending, Reschedule, flowVars
      <3> QED BY <3>1 DEF WakeInv, Records, ResumeShape
    <2> QED BY <2>1, <2>2
  <1>5. /\ CallShape'
        /\ \A d \in Callers : call'[d] = call[d] \/ (d = Tu(j) /\ Reschedule(j))
        /\ Reschedule(j) => call'[Tu(j)].at = "read" /\ run'[j].at = "release"
    <2>1. CASE Reschedule(j)
      <3>1. ScheduleTurn(Tu(j), TRUE, FALSE, pendingDirect) /\ Goto(j, "release")
        BY <2>1 DEF Reschedule
      <3> QED BY <2>1, <3>1, CallerKinds, ScheduleEffect, GotoEffect, ZenonT(30) DEF WakeInv, Records
    <2>2. CASE ~Reschedule(j)
      <3>1. call' = call
        BY <2>2 DEF Working, Drain, TrackEntry, RunCommand, StartTalk, TalkEnds, TalkDeferred,
             TalkPutBack, TalkInterrupted, TalkExhausted, Replan, ReadPointer, Unset,
             ClearDirty, CountPending, schedulerVars
      <3> QED BY <2>2, <3>1, SMTT(30) DEF WakeInv, Records, CallShape
    <2> QED BY <2>1, <2>2
  <1>6. Records'
    <2>1. Ids'
      BY <1>2, <1>5 DEF WakeInv, Records, Ids
    <2> QED BY <1>1, <1>3, <1>4, <1>5, <2>1 DEF Records
  <1>7. Aligned'
    <2>1. job[j] = "active"
      BY <1>1 DEF WakeInv, Aligned, RunsAligned
    <2>2. RunsAligned'
      BY <1>1, <1>2, <2>1 DEF WakeInv, Aligned, RunsAligned
    <2>3. Idle(Tu(j)) \/ run[j].at = "lose"
      BY <1>1 DEF WakeInv, Aligned, TurnsAligned
    <2>4. TurnsAligned'
      BY <1>1, <1>5, <2>3, CallerKinds, CallersApart DEF WakeInv, Aligned, TurnsAligned, Idle
    <2>5. ResumesAligned'
      BY <1>4, <1>5, CallerKinds, CallersApart DEF WakeInv, Aligned, ResumesAligned, Idle
    <2> QED BY <2>2, <2>4, <2>5 DEF Aligned
  <1>8. pending' = <<>> \/ RunWakes(j)' \/ CallWakes(Tu(j))'
    <2>1. CASE Drain(j)
      BY <2>1 DEF Drain, DrainPending
    <2>2. CASE Reschedule(j)
      BY <1>5, <2>2, CallersApart DEF CallWakes
    <2>3. CASE TrackEntry(j) \/ RunCommand(j)
      <3>1. Skip(j) /\ run[j].at = "work"
        BY <2>3 DEF TrackEntry, RunCommand, AtItem
      <3>2. run'[j].at = "work"
        BY <3>1, SkipEffect DEF WakeInv, Records
      <3> QED BY <3>2 DEF RunWakes
    <2>4. CASE TalkEnds(j) \/ TalkDeferred(j) \/ TalkPutBack(j) \/ TalkExhausted(j)
      <3>1. TalkOver(j)
        BY <2>4 DEF TalkEnds, TalkDeferred, TalkPutBack, TalkExhausted
      <3>2. run'[j].at = "work"
        BY <3>1, TalkOverEffect DEF WakeInv, Records
      <3> QED BY <3>2 DEF RunWakes
    <2>5. CASE StartTalk(j) \/ ReadPointer(j) \/ Unset(j) \/ ClearDirty(j)
      <3>1. PICK step \in {"gen", "unset", "recheck", "count", "resched"} : Goto(j, step)
        BY <2>5 DEF StartTalk, ReadPointer, Unset, ClearDirty
      <3>2. run'[j].at = step
        BY <3>1, GotoEffect DEF WakeInv, Records
      <3> QED BY <3>2 DEF RunWakes
    <2>6. CASE TalkInterrupted(j)
      <3>1. run' = [run EXCEPT ![j].at = "quiet", ![j].replans = @ + 1]
        BY <2>6 DEF TalkInterrupted
      <3>2. run'[j].at = "quiet"
        BY <3>1 DEF WakeInv, Records, Shape
      <3> QED BY <3>2 DEF RunWakes
    <2>7. CASE Replan(j)
      BY <2>7 DEF Replan, DrainPending
    <2>8. CASE CountPending(j)
      <3>1. CASE pending = <<>>
        BY <2>8, <3>1 DEF CountPending, bufferVars
      <3>2. CASE pending # <<>>
        <4>1. Goto(j, "resched")
          BY <2>8, <3>2 DEF CountPending
        <4>2. run'[j].at = "resched"
          BY <4>1, GotoEffect DEF WakeInv, Records
        <4> QED BY <4>2 DEF RunWakes
      <3> QED BY <3>1, <3>2
    <2> QED BY <2>1, <2>2, <2>3, <2>4, <2>5, <2>6, <2>7, <2>8 DEF Working
  <1> QED BY <1>6, <1>7, <1>8, CallerKinds DEF WakeInv, Woken, Wakes

\* A run that is over was no longer counted on, and neither is its job.
LEMMA EndKeepsAwake ==
  ASSUME WakeInv, NEW j \in Jobs, Release(j) \/ Complete(j)
  PROVE  WakeInv'
  <1>1. /\ UNCHANGED <<pending, dirty, scheduledJobId, call, resume, cut>>
        /\ ~RunWakes(j) /\ Idle(Tu(j)) /\ run[j].at # "off"
    <2>1. CASE Release(j)
      BY <2>1 DEF Release, bufferVars, schedulerVars, flowVars, RunWakes
    <2>2. CASE Complete(j)
      <3>1. run[j].at \in {"done", "lose"} /\ (run[j].at = "lose" => Idle(Tu(j)))
        BY <2>2 DEF Complete
      <3>2. Idle(Tu(j))
        BY <3>1 DEF WakeInv, Aligned, TurnsAligned
      <3> QED BY <2>2, <3>1, <3>2 DEF Complete, bufferVars, flowVars, RunWakes
    <2> QED BY <2>1, <2>2
  <1>2. /\ Shape'
        /\ \A i \in Jobs \ {j} : run'[i] = run[i]
        /\ job' \in [Jobs -> JobStates]
        /\ run'[j].at # "off" => job'[j] = "active"
        /\ \A i \in Jobs \ {j} : job'[i] = job[i]
    <2>1. CASE Release(j)
      <3>1. job' = job /\ Goto(j, "done")
        BY <2>1 DEF Release, schedulerVars
      <3>2. Shape' /\ run'[j].at = "done" /\ \A i \in Jobs \ {j} : run'[i] = run[i]
        BY <3>1, GotoEffect DEF WakeInv, Records
      <3> QED BY <1>1, <3>1, <3>2 DEF WakeInv, Records, Ids, Aligned, RunsAligned
    <2>2. CASE Complete(j)
      BY <2>2 DEF Complete, WakeInv, Records, Shape, Ids, OffRun, JobStates
    <2> QED BY <2>1, <2>2
  <1>3. Records'
    BY <1>1, <1>2 DEF WakeInv, Records, CallShape, ResumeShape, Listed, Ids
  <1>4. Aligned'
    <2>1. RunsAligned' /\ TurnsAligned'
      BY <1>1, <1>2 DEF WakeInv, Aligned, RunsAligned, TurnsAligned, Idle
    <2>2. ResumesAligned'
      BY <1>1 DEF WakeInv, Aligned, ResumesAligned, Idle
    <2> QED BY <2>1, <2>2 DEF Aligned
  <1>5. ~JobWakes(j)
    BY <1>1 DEF WakeInv, Aligned, RunsAligned, JobWakes
  <1>6. Wakes => Wakes'
    BY <1>1, <1>2, <1>5
       DEF Wakes, JobWakes, RunWakes, ResumeWakes, CallWakes, Waiting, EntriesOf
  <1> QED BY <1>1, <1>3, <1>4, <1>6 DEF WakeInv, Woken, CutWaiting, EntriesOf

-----------------------------------------------------------------------------
(* The queue and the process *)

LEMMA QueueKeepsAwake ==
  ASSUME WakeInv, NEW j \in Jobs, Clock(j) \/ Stall(j)
  PROVE  WakeInv'
  <1>1. /\ UNCHANGED <<pending, dirty, scheduledJobId, call, run, resume, cut>>
        /\ job' = [job EXCEPT ![j] = "waiting"]
        /\ job[j] = "active" => run[j].at = "off"
    BY DEF Clock, Promote, Stall, bufferVars, turnVars, flowVars
  <1>2. /\ job' \in [Jobs -> JobStates]
        /\ job'[j] = "waiting"
        /\ \A i \in Jobs \ {j} : job'[i] = job[i]
    BY <1>1 DEF WakeInv, Records, Ids, JobStates
  <1>3. Records'
    BY <1>1, <1>2 DEF WakeInv, Records, Shape, CallShape, ResumeShape, Listed, Ids
  <1>4. Aligned'
    <2>1. RunsAligned'
      BY <1>1, <1>2 DEF WakeInv, Aligned, RunsAligned
    <2>2. TurnsAligned' /\ ResumesAligned'
      BY <1>1 DEF WakeInv, Aligned, TurnsAligned, ResumesAligned, Idle
    <2> QED BY <2>1, <2>2 DEF Aligned
  <1>5. JobWakes(j)'
    BY <1>2 DEF JobWakes
  <1> QED BY <1>3, <1>4, <1>5 DEF WakeInv, Woken, Wakes

\* A job that stalled too often cuts whatever is in the mailbox.
LEMMA FailStalledKeepsAwake ==
  ASSUME WakeInv, NEW j \in Jobs, FailStalled(j)
  PROVE  WakeInv'
  <1>1. /\ UNCHANGED <<pending, dirty, scheduledJobId, call, run, resume>>
        /\ job[j] = "waiting"
        /\ job' = [job EXCEPT ![j] = "none"]
        /\ cut' = cut \cup Waiting
    BY DEF FailStalled, Waiting, bufferVars, turnVars
  <1>2. /\ job' \in [Jobs -> JobStates]
        /\ \A i \in Jobs \ {j} : job'[i] = job[i]
    BY <1>1 DEF WakeInv, Records, Ids, JobStates
  <1>3. Records'
    BY <1>1, <1>2 DEF WakeInv, Records, Shape, CallShape, ResumeShape, Listed, Ids
  <1>4. Aligned'
    <2>1. RunsAligned'
      BY <1>1, <1>2 DEF WakeInv, Aligned, RunsAligned
    <2>2. TurnsAligned' /\ ResumesAligned'
      BY <1>1 DEF WakeInv, Aligned, TurnsAligned, ResumesAligned, Idle
    <2> QED BY <2>1, <2>2 DEF Aligned
  <1>5. CASE pending = <<>>
    BY <1>1, <1>3, <1>4, <1>5 DEF WakeInv, Woken
  <1>6. CASE pending # <<>>
    <2>1. PICK e \in EntriesOf(pending) : TRUE
      BY <1>6, WaitingNotEmpty DEF WakeInv, Records
    <2>2. CutWaiting'
      BY <1>1, <2>1 DEF CutWaiting, Waiting, EntriesOf
    <2> QED BY <1>3, <1>4, <2>2 DEF WakeInv, Woken
  <1> QED BY <1>5, <1>6

\* The record of a job whose worker died.
LEMMA Orphaned ==
  ASSUME NEW r, DOMAIN r = {"at", "entry"}
  PROVE  LET s == [r EXCEPT !.at = "orphan"]
         IN  DOMAIN s = {"at", "entry"} /\ s.at = "orphan" /\ s.entry = r.entry
  OBVIOUS

\* What the process was doing is found again: its jobs by the stalled checker,
\* and the messages of its handlers are cut.
LEMMA RebootKeepsAwake ==
  ASSUME WakeInv, Reboot
  PROVE  WakeInv'
  <1>1. /\ UNCHANGED <<pending, dirty, scheduledJobId, job>>
        /\ call' = [c \in Callers |-> IdleCall]
        /\ run' = [j \in Jobs |-> OffRun]
        /\ cut' = cut \cup {m \in Msgs : InFlight(m)}
    BY Zenon DEF Reboot, bufferVars
  <1>2. CallShape' /\ \A c \in Callers : Idle(c)'
    BY <1>1 DEF CallShape, IdleCall, Idle
  <1>3. Shape' /\ \A j \in Jobs : run'[j].at = "off"
    BY <1>1 DEF Shape, OffRun
  <1>4. /\ ResumeShape'
        /\ \A m \in Msgs : /\ resume'[m].entry = resume[m].entry
                           /\ resume[m].at # "none" => resume'[m].at \in {"delayed", "orphan"}
    <2>1. /\ DOMAIN resume' = Msgs
          /\ \A m \in Msgs : resume'[m] = IF resume[m].at \in {"picked", "call"}
                                           THEN [resume[m] EXCEPT !.at = "orphan"] ELSE resume[m]
      BY Zenon DEF Reboot
    <2>2. ASSUME NEW m \in Msgs
          PROVE  /\ DOMAIN resume'[m] = {"at", "entry"}
                 /\ resume'[m].at \in ResumeSteps
                 /\ resume'[m].entry = resume[m].entry
                 /\ resume[m].at # "none" => resume'[m].at \in {"delayed", "orphan"}
      <3>1. DOMAIN resume[m] = {"at", "entry"} /\ resume[m].at \in ResumeSteps
        BY DEF WakeInv, Records, ResumeShape
      <3>2. CASE resume[m].at \in {"picked", "call"}
        <4>1. /\ DOMAIN resume'[m] = {"at", "entry"} /\ resume'[m].at = "orphan"
              /\ resume'[m].entry = resume[m].entry
          BY <2>1, <3>1, <3>2, Orphaned, Zenon
        <4> QED BY <4>1 DEF ResumeSteps
      <3>3. CASE resume[m].at \notin {"picked", "call"}
        <4>1. resume'[m] = resume[m]
          BY <2>1, <3>3, Zenon
        <4> QED BY <3>1, <3>3, <4>1 DEF ResumeSteps
      <3> QED BY <3>2, <3>3
    <2> QED BY <2>1, <2>2 DEF ResumeShape
  <1>5. Records'
    BY <1>1, <1>2, <1>3, <1>4 DEF WakeInv, Records, Listed, Ids, Idle
  <1>6. Aligned'
    <2>1. RunsAligned'
      BY <1>3 DEF RunsAligned
    <2>2. TurnsAligned' /\ ResumesAligned'
      BY <1>2, CallerKinds DEF TurnsAligned, ResumesAligned, Tu, Re
    <2> QED BY <2>1, <2>2 DEF Aligned
  <1>7. ASSUME NEW j \in Jobs, JobWakes(j) \/ RunWakes(j)
        PROVE  JobWakes(j)'
    BY <1>1, <1>3, <1>7 DEF WakeInv, Aligned, RunsAligned, JobWakes, RunWakes
  <1>8. ASSUME NEW c \in Callers, CallWakes(c)
        PROVE  CutWaiting' \/ Wakes'
    <2>1. ~Idle(c)
      BY <1>8 DEF CallWakes, Idle
    <2>2. ASSUME NEW m \in Msgs, c = In(m) PROVE CutWaiting'
      <3>1. m \in cut' /\ m \in Waiting
        BY <1>1, <1>8, <2>1, <2>2, CallersApart DEF InFlight, CallWakes
      <3> QED BY <1>1, <3>1 DEF CutWaiting, Waiting, EntriesOf
    <2>3. ASSUME NEW m \in Msgs, c = Re(m) PROVE Wakes'
      <3>1. resume[m].at # "none"
        BY <2>1, <2>3 DEF WakeInv, Aligned, ResumesAligned
      <3>2. resume[m].entry.msg \in Waiting
        BY <1>8, <2>3, CallersApart DEF CallWakes
      <3>3. ResumeWakes(m)'
        BY <1>1, <1>4, <3>1, <3>2 DEF ResumeWakes, Waiting, EntriesOf
      <3> QED BY <3>3 DEF Wakes
    <2>4. ASSUME NEW j \in Jobs, c = Tu(j) PROVE Wakes'
      <3>1. run[j].at \in {"lose", "release"}
        BY <2>1, <2>4 DEF WakeInv, Aligned, TurnsAligned
      <3>2. job[j] = "active"
        BY <3>1 DEF WakeInv, Aligned, RunsAligned
      <3>3. JobWakes(j)'
        BY <1>1, <1>3, <3>2 DEF JobWakes
      <3> QED BY <3>3 DEF Wakes
    <2> QED BY <2>2, <2>3, <2>4, CallerKinds
  <1>9. \A m \in Msgs : ResumeWakes(m) => ResumeWakes(m)'
    BY <1>1, <1>4 DEF ResumeWakes, Waiting, EntriesOf
  <1>10. Wakes => CutWaiting' \/ Wakes'
    BY <1>7, <1>8, <1>9 DEF Wakes
  <1>11. CutWaiting => CutWaiting'
    BY <1>1 DEF CutWaiting, EntriesOf
  <1> QED BY <1>1, <1>5, <1>6, <1>10, <1>11 DEF WakeInv, Woken

-----------------------------------------------------------------------------
LEMMA StepWakeInv == WakeInv /\ [Next]_vars => WakeInv'
  <1> SUFFICES ASSUME WakeInv, [Next]_vars PROVE WakeInv'
    OBVIOUS
  <1>1. ASSUME NEW m \in Msgs, Arrive(m) \/ Store(m) \/ ResumeStep(m) \/ ResumeTrouble(m)
        PROVE  WakeInv'
    <2>1. CASE Arrive(m)
      <3>1. UNCHANGED <<pending, dirty, scheduledJobId, job, call, run, resume, cut>>
        BY <2>1 DEF Arrive, bufferVars, schedulerVars, turnVars
      <3> QED BY <3>1, Untouched
    <2> QED BY <1>1, <2>1, StoreKeepsAwake, ResumeMovesKeepsAwake, ResumeFiresKeepsAwake,
               ResumeDoneKeepsAwake, ResumeFailsKeepsAwake DEF ResumeStep, ResumeTrouble
  <1>2. ASSUME NEW c \in Callers, CallStep(c) \/ CallFails(c)
        PROVE  WakeInv'
    BY <1>2, CallStepKeepsAwake, CallFailsKeepsAwake
  <1>3. ASSUME NEW j \in Jobs, TurnStep(j)
        PROVE  WakeInv'
    BY <1>3, PickKeepsAwake, WorkKeepsAwake, EndKeepsAwake DEF TurnStep, Working
  <1>4. ASSUME NEW j \in Jobs, Clock(j) \/ Lapse(j) \/ Stall(j) \/ FailStalled(j)
        PROVE  WakeInv'
    <2>1. CASE Lapse(j)
      <3>1. UNCHANGED <<pending, dirty, scheduledJobId, job, call, run, resume, cut>>
        BY <2>1 DEF Lapse, bufferVars, schedulerVars, flowVars
      <3> QED BY <3>1, Untouched
    <2> QED BY <1>4, <2>1, QueueKeepsAwake, FailStalledKeepsAwake
  <1>5. CASE Expire \/ Shutdown \/ CloseIntake
    <2>1. UNCHANGED <<pending, dirty, scheduledJobId, job, call, run, resume, cut>>
      BY <1>5 DEF Expire, Shutdown, CloseIntake, bufferVars, schedulerVars, turnVars, flowVars
    <2> QED BY <2>1, Untouched
  <1>6. CASE Exit \/ Crash
    BY <1>6, RebootKeepsAwake DEF Exit, Crash
  <1>7. CASE UNCHANGED vars
    <2>1. UNCHANGED <<pending, dirty, scheduledJobId, job, call, run, resume, cut>>
      BY <1>7 DEF vars, bufferVars, schedulerVars, turnVars, flowVars
    <2> QED BY <2>1, Untouched
  <1> QED BY <1>1, <1>2, <1>3, <1>4, <1>5, <1>6, <1>7 DEF Next

\* When nothing of the chat is under way or due, its mailbox is empty, or marked
\* dirty, or holds a message whose wake-up died with a process, a failed command
\* or a job that was given up (actor.ts:750-765, turn-scheduler.ts:126-146,
\* worker.ts:76-84, producer.ts:110): for any number of messages, jobs and
\* troubles and any limits on stalls and attempts.
THEOREM NoStranding == Spec => []NoSilentStranding
  BY InitWakeInv, WakeInvSuffices, StepWakeInv, PTL DEF Spec

-----------------------------------------------------------------------------
(* No message is handled twice, and without a crash none is lost *)

(* Lists of entries *)

MsgsOf(s) == {s[i].msg : i \in DOMAIN s}
Once(s) == \A i, k \in DOMAIN s : s[i].msg = s[k].msg => i = k

LEMMA TailIs ==
  ASSUME NEW T, NEW s \in Seq(T), s # <<>>
  PROVE  /\ Tail(s) \in Seq(T) /\ Head(s) = s[1] /\ 1 \in DOMAIN s /\ Head(s) \in T
         /\ \A i \in DOMAIN Tail(s) : i + 1 \in DOMAIN s /\ Tail(s)[i] = s[i + 1]
         /\ \A i \in DOMAIN s : i = 1 \/ (i - 1 \in DOMAIN Tail(s) /\ s[i] = Tail(s)[i - 1])
  OBVIOUS

LEMMA TailOnce ==
  ASSUME NEW T, NEW s \in Seq(T), s # <<>>, Once(s)
  PROVE  /\ Once(Tail(s))
         /\ MsgsOf(Tail(s)) = MsgsOf(s) \ {Head(s).msg}
         /\ Head(s).msg \in MsgsOf(s)
         /\ EntriesOf(Tail(s)) \subseteq EntriesOf(s) /\ Head(s) \in EntriesOf(s)
  <1>1. \A i \in DOMAIN Tail(s) : i \in Nat
    <2>1. Tail(s) \in Seq(T)
      BY TailIs
    <2> QED BY <2>1
  <1>2. Once(Tail(s))
    BY <1>1, TailIs DEF Once
  <1>3. \A i \in DOMAIN Tail(s) : i + 1 # 1
    BY <1>1
  <1>4. MsgsOf(Tail(s)) \subseteq MsgsOf(s) \ {Head(s).msg}
    BY <1>3, TailIs DEF MsgsOf, Once
  <1>5. ASSUME NEW m \in MsgsOf(s) \ {Head(s).msg}
        PROVE  m \in MsgsOf(Tail(s))
    <2>1. PICK i \in DOMAIN s : s[i].msg = m
      BY DEF MsgsOf
    <2>2. i - 1 \in DOMAIN Tail(s) /\ Tail(s)[i - 1].msg = m
      BY <2>1, TailIs
    <2> QED BY <2>2 DEF MsgsOf
  <1>6. EntriesOf(Tail(s)) \subseteq EntriesOf(s) /\ Head(s) \in EntriesOf(s)
    BY TailIs DEF EntriesOf
  <1>7. Head(s).msg \in MsgsOf(s)
    BY TailIs DEF MsgsOf
  <1> QED BY <1>2, <1>4, <1>5, <1>6, <1>7

LEMMA AppendIs ==
  ASSUME NEW T, NEW s \in Seq(T), NEW e \in T
  PROVE  /\ Append(s, e) \in Seq(T)
         /\ Len(s) + 1 \in DOMAIN Append(s, e) /\ Append(s, e)[Len(s) + 1] = e
         /\ Len(s) + 1 \notin DOMAIN s
         /\ \A i \in DOMAIN s : i \in DOMAIN Append(s, e) /\ Append(s, e)[i] = s[i]
         /\ \A i \in DOMAIN Append(s, e) : i = Len(s) + 1 \/ i \in DOMAIN s
  OBVIOUS

LEMMA AppendOnce ==
  ASSUME NEW T, NEW s \in Seq(T), NEW e \in T
  PROVE  /\ EntriesOf(Append(s, e)) = EntriesOf(s) \cup {e}
         /\ MsgsOf(Append(s, e)) = MsgsOf(s) \cup {e.msg}
         /\ Once(s) /\ e.msg \notin MsgsOf(s) => Once(Append(s, e))
  <1> DEFINE t == Append(s, e)
             n == Len(s) + 1
  <1>1. /\ n \in DOMAIN t /\ t[n] = e /\ n \notin DOMAIN s
        /\ \A i \in DOMAIN s : i \in DOMAIN t /\ t[i] = s[i]
        /\ \A i \in DOMAIN t : i = n \/ i \in DOMAIN s
    BY AppendIs
  <1> HIDE DEF t, n
  <1>2. EntriesOf(t) = EntriesOf(s) \cup {e}
    BY <1>1 DEF EntriesOf
  <1>3. MsgsOf(t) = MsgsOf(s) \cup {e.msg}
    BY <1>1 DEF MsgsOf
  <1>4. Once(s) /\ e.msg \notin MsgsOf(s) => Once(t)
    BY <1>1 DEF MsgsOf, Once
  <1> QED BY <1>2, <1>3, <1>4 DEF t

LEMMA EmptyOnce ==
  EntriesOf(<<>>) = {} /\ MsgsOf(<<>>) = {} /\ Once(<<>>)
  BY DEF EntriesOf, MsgsOf, Once

LEMMA ThinsOnce ==
  ASSUME NEW T, NEW s \in Seq(T), NEW t \in Seq(T), Thins(t, s)
  PROVE  /\ EntriesOf(t) \subseteq EntriesOf(s) /\ MsgsOf(t) \subseteq MsgsOf(s)
         /\ Once(s) => Once(t)
         /\ Once(s) => \A i \in DOMAIN s : s[i].msg \in MsgsOf(t) => s[i] \in EntriesOf(t)
  <1>1. PICK K \in SUBSET (DOMAIN s) : \E g : Picks(t, s, K, g)
    BY DEF Thins
  <1>2. PICK g : Picks(t, s, K, g)
    BY <1>1
  <1>3. \A i \in DOMAIN t : g[i] \in DOMAIN s /\ t[i] = s[g[i]]
    BY <1>2 DEF Picks
  <1>4. \A i, k \in DOMAIN t : i = k \/ g[i] # g[k]
    <2>1. \A i \in DOMAIN t : i \in Nat /\ g[i] \in Nat
      BY <1>3
    <2>2. \A i, k \in DOMAIN t : i < k => g[i] < g[k]
      BY <1>2 DEF Picks
    <2> QED BY <2>1, <2>2
  <1>5. EntriesOf(t) \subseteq EntriesOf(s) /\ MsgsOf(t) \subseteq MsgsOf(s)
    BY <1>3 DEF EntriesOf, MsgsOf
  <1>6. Once(s) => Once(t)
    BY <1>3, <1>4, SMTT(30) DEF Once
  <1>7. ASSUME Once(s), NEW i \in DOMAIN s, s[i].msg \in MsgsOf(t)
        PROVE  s[i] \in EntriesOf(t)
    <2>1. PICK k \in DOMAIN t : t[k].msg = s[i].msg
      BY <1>7 DEF MsgsOf
    <2>2. g[k] = i
      BY <1>3, <1>7, <2>1, SMTT(30) DEF Once
    <2> QED BY <1>3, <2>1, <2>2 DEF EntriesOf
  <1> QED BY <1>5, <1>6, <1>7
-----------------------------------------------------------------------------
(* Types *)

MailTyped == pending \in Seq(Entry) /\ pendingDirect \in BOOLEAN /\ tokens \subseteq Msgs \X Nat
CallsTyped == dirty \in BOOLEAN /\ call \in [Callers -> Call]
FlowTyped ==
    /\ ingress \in [Msgs -> {"unsent", "append", "stored"}]
    /\ resume \in [Msgs -> [at : ResumeSteps, entry : Entry]]
    /\ cut \subseteq Msgs
    /\ spent \in Seq(Troubles)
CountersTyped ==
    /\ stalls \in [Jobs -> Nat]
    /\ tries \in [Msgs -> [stalls : Nat, fails : Nat]]
TurnTyped ==
    /\ run \in [Jobs -> Run]
    /\ lock \in Jobs \cup {NoJob, Orphan}
    /\ lapsed \subseteq Jobs
    /\ open \in BOOLEAN

\* A turn that generates has an entry; one that has not started or is past its
\* entries has none.
WorkInv ==
    \A j \in Jobs :
        /\ run[j].at \in {"gen", "quiet"} => run[j].work # <<>>
        /\ run[j].at \notin {"work", "gen", "quiet"} => run[j].work = <<>>

\* Everything but the history of what was settled, and the queue, whose types
\* are part of WakeInv.
Types ==
    /\ MailTyped /\ CallsTyped /\ RegistryTypeOK /\ FlowTyped /\ CountersTyped
    /\ TurnTyped /\ WorkInv

\* What the code writes into a mailbox or a job is an entry.
LEMMA EntriesTyped ==
  /\ \A m \in Msgs : FreshEntry(m) \in Entry /\ FreshEntry(m).msg = m /\ FreshEntry(m).defers = 0
  /\ \A e \in Entry :
        /\ [e EXCEPT !.replay = TRUE] \in Entry
        /\ [e EXCEPT !.replay = TRUE].msg = e.msg
        /\ [e EXCEPT !.replay = TRUE].defers = e.defers
        /\ HasDeferBudget(e) =>
              /\ DeferredEntry(e) \in Entry /\ DeferredEntry(e).msg = e.msg
              /\ DeferredEntry(e).defers = e.defers + 1
              /\ [e EXCEPT !.replay = TRUE, !.defers = @ + 1] \in Entry
              /\ [e EXCEPT !.replay = TRUE, !.defers = @ + 1].msg = e.msg
              /\ [e EXCEPT !.replay = TRUE, !.defers = @ + 1].defers = e.defers + 1
  <1>1. ASSUME NEW m \in Msgs
        PROVE  FreshEntry(m) \in Entry /\ FreshEntry(m).msg = m /\ FreshEntry(m).defers = 0
    BY BufferAssumption DEF FreshEntry, Entry, MessageInfo
  <1>2. ASSUME NEW e \in Entry
        PROVE  /\ [e EXCEPT !.replay = TRUE] \in Entry
               /\ [e EXCEPT !.replay = TRUE].msg = e.msg
               /\ [e EXCEPT !.replay = TRUE].defers = e.defers
    BY DEF Entry
  <1>3. ASSUME NEW e \in Entry, HasDeferBudget(e)
        PROVE  /\ DeferredEntry(e) \in Entry /\ DeferredEntry(e).msg = e.msg
               /\ DeferredEntry(e).defers = e.defers + 1
               /\ [e EXCEPT !.replay = TRUE, !.defers = @ + 1] \in Entry
               /\ [e EXCEPT !.replay = TRUE, !.defers = @ + 1].msg = e.msg
               /\ [e EXCEPT !.replay = TRUE, !.defers = @ + 1].defers = e.defers + 1
    <2>1. e.defers + 1 \in 0..MaxDefers
      BY <1>3, BufferAssumption DEF HasDeferBudget, Entry
    <2> QED BY <2>1 DEF DeferredEntry, Entry
  <1> QED BY <1>1, <1>2, <1>3

LEMMA NoResumeTyped ==
  ASSUME NEW m \in Msgs
  PROVE  NoResume(m) \in [at : ResumeSteps, entry : Entry]
  BY EntriesTyped DEF NoResume, ResumeSteps

LEMMA PlanTyped ==
  ASSUME NEW burst \in Seq(Entry), NEW suppression
  PROVE  /\ Plan(burst, suppression) \in Seq(Item)
         /\ DOMAIN Plan(burst, suppression) = DOMAIN Digested(burst)
         /\ \A i \in DOMAIN Digested(burst) :
               Plan(burst, suppression)[i].entry = Digested(burst)[i]
  <1> DEFINE es == Digested(burst)
  <1>1. es \in Seq(Entry)
    BY DigestedThins
  <1> HIDE DEF es
  <1>2. Plan(burst, suppression) =
          [i \in 1..Len(es) |->
              [entry |-> es[i],
               role |-> IF i \in Judged(es, Effective(es, suppression)) THEN "judge" ELSE "track"]]
    BY <1>1 DEF Plan, es
  <1> QED BY <1>1, <1>2 DEF es, Item, Roles

\* What a replan puts before the entry it starts over, and that entry.
Others ==
    Kept([i \in DOMAIN pending |->
             [entry |-> pending[i], role |-> IF pending[i].cmd THEN "judge" ELSE "track"]],
         DOMAIN pending \ ReplanAnchor(pending))
NewAnchor(j) ==
    IF ReplanAnchor(pending) = {} THEN Current(j)
    ELSE pending[CHOOSE i \in ReplanAnchor(pending) : TRUE]

LEMMA AnchorInBox ==
  ASSUME pending \in Seq(Entry)
  PROVE  /\ ReplanAnchor(pending) \subseteq DOMAIN pending
         /\ \A i, k \in ReplanAnchor(pending) : i = k
  BY AnchorIs, ZenonT(30) DEF ReplanAnchor

LEMMA OthersAre ==
  ASSUME pending \in Seq(Entry)
  PROVE  /\ Others \in Seq(Item)
         /\ \E g : /\ g \in [DOMAIN Others -> DOMAIN pending \ ReplanAnchor(pending)]
                   /\ \A i, k \in DOMAIN Others : g[i] = g[k] => i = k
                   /\ \A i \in DOMAIN Others : Others[i].entry = pending[g[i]]
                   /\ \A k \in DOMAIN pending \ ReplanAnchor(pending) :
                         \E i \in DOMAIN Others : g[i] = k
  <1> DEFINE items == [i \in DOMAIN pending |->
                         [entry |-> pending[i],
                          role |-> IF pending[i].cmd THEN "judge" ELSE "track"]]
             K == DOMAIN pending \ ReplanAnchor(pending)
  <1>1. items \in Seq(Item) /\ DOMAIN items = DOMAIN pending
    <2>1. DOMAIN pending = 1..Len(pending) /\ Len(pending) \in Nat
      OBVIOUS
    <2>2. \A i \in DOMAIN pending : items[i] \in Item
      BY DEF Item, Roles
    <2>3. items = [i \in 1..Len(pending) |-> items[i]]
      BY <2>1, Zenon
    <2>4. DOMAIN items = 1..Len(pending)
      BY <2>1
    <2> HIDE DEF items
    <2> QED BY <2>1, <2>2, <2>3, <2>4
  <1>2. \A i \in DOMAIN pending : items[i].entry = pending[i]
    OBVIOUS
  <1>3. K \in SUBSET DOMAIN items
    BY <1>1
  <1>4. Others = Kept(items, K)
    BY DEF Others
  <1> HIDE DEF items, K
  <1>5. Others \in Seq(Item) /\ \E g : Picks(Others, items, K, g)
    BY <1>1, <1>3, <1>4, KeptPicks
  <1>6. PICK g : Picks(Others, items, K, g)
    BY <1>5
  <1>7. \A i, k \in DOMAIN Others : g[i] = g[k] => i = k
    <2>1. \A i \in DOMAIN Others : i \in Nat
      BY <1>5
    <2>2. \A i \in DOMAIN Others : g[i] \in Nat
      <3>1. \A i \in DOMAIN pending : i \in Nat
        OBVIOUS
      <3> QED BY <1>1, <1>3, <1>6, <3>1 DEF Picks
    <2> QED BY <1>6, <2>1, <2>2 DEF Picks
  <1>8. \A i \in DOMAIN Others : g[i] \in K /\ Others[i].entry = pending[g[i]]
    BY <1>1, <1>2, <1>3, <1>6 DEF Picks
  <1>9. /\ g \in [DOMAIN Others -> K]
        /\ \A k \in K : \E i \in DOMAIN Others : g[i] = k
    BY <1>6, Zenon DEF Picks
  <1>10. /\ g \in [DOMAIN Others -> K]
         /\ \A i, k \in DOMAIN Others : g[i] = g[k] => i = k
         /\ \A i \in DOMAIN Others : Others[i].entry = pending[g[i]]
         /\ \A k \in K : \E i \in DOMAIN Others : g[i] = k
    BY <1>7, <1>8, <1>9, Zenon
  <1> QED BY <1>5, <1>10, Zenon DEF K

LEMMA ReplanIs ==
  ASSUME NEW j \in Jobs, Replan(j)
  PROVE  /\ run[j].at = "quiet"
         /\ run' = [run EXCEPT ![j].at = "work",
               ![j].work = Others \o <<[entry |-> NewAnchor(j), role |-> "judge"]>> \o Tail(@)]
         /\ IF ReplanAnchor(pending) = {} THEN UNCHANGED settled ELSE Settle(Current(j).msg)
         /\ pending' = <<>> /\ pendingDirect' = FALSE
         /\ UNCHANGED <<tokens, resume, ingress, cut, spent>>
  BY DEF Replan, Others, NewAnchor, DrainPending, flowVars

\* The entry a turn is at.
LEMMA CurrentIs ==
  ASSUME TurnTyped, NEW j \in Jobs, run[j].work # <<>>
  PROVE  /\ run[j].work \in Seq(Item)
         /\ Current(j) \in Entry /\ Current(j) = run[j].work[1].entry
         /\ Tail(run[j].work) \in Seq(Item)
  <1>1. run[j].work \in Seq(Item)
    BY DEF TurnTyped, Run
  <1>2. Head(run[j].work) \in Item /\ Head(run[j].work) = run[j].work[1]
    BY <1>1
  <1> QED BY <1>1, <1>2 DEF Current, Item

LEMMA AppendTyped ==
  ASSUME MailTyped, NEW e \in Entry, AppendPending(e)
  PROVE  pending' \in Seq(Entry) /\ pendingDirect' \in BOOLEAN
  BY DEF MailTyped, AppendPending, Entry

LEMMA MailTypedStep ==
  ASSUME Types, [Next]_vars
  PROVE  MailTyped'
  <1>1. ASSUME UNCHANGED <<pending, pendingDirect, tokens>> PROVE MailTyped'
    BY <1>1 DEF Types, MailTyped
  <1>2. ASSUME NEW e \in Entry, AppendPending(e), UNCHANGED tokens PROVE MailTyped'
    BY <1>2, AppendTyped DEF Types, MailTyped
  <1>3. ASSUME DrainPending, UNCHANGED tokens PROVE MailTyped'
    <2>1. pending' = <<>> /\ pendingDirect' = FALSE /\ tokens' = tokens
      BY <1>3 DEF DrainPending
    <2>2. <<>> \in Seq(Entry)
      OBVIOUS
    <2> QED BY <2>1, <2>2 DEF Types, MailTyped
  <1>4. ASSUME NEW m \in Msgs, Store(m) PROVE MailTyped'
    BY <1>2, <1>4, EntriesTyped DEF Store
  <1>5. ASSUME NEW m \in Msgs, ResumeFires(m) PROVE MailTyped'
    <2>1. resume[m].entry \in Entry
      BY DEF Types, FlowTyped
    <2>2. resume[m].entry.defers \in Nat
      BY <2>1 DEF Entry
    <2>3. CASE <<m, resume[m].entry.defers>> \in tokens
      BY <1>1, <1>5, <2>3 DEF ResumeFires, ReinjectDefer
    <2>4. CASE <<m, resume[m].entry.defers>> \notin tokens
      <3>1. /\ AppendPending(resume[m].entry)
            /\ tokens' = tokens \cup {<<m, resume[m].entry.defers>>}
        BY <1>5, <2>4 DEF ResumeFires, ReinjectDefer
      <3> QED BY <2>1, <2>2, <3>1, AppendTyped DEF Types, MailTyped
    <2> QED BY <2>3, <2>4
  <1>6. ASSUME NEW j \in Jobs, TurnStep(j) PROVE MailTyped'
    <2>1. CASE Drain(j) \/ Replan(j)
      BY <1>3, <2>1 DEF Drain, Replan
    <2>2. CASE RunCommand(j) \/ TalkPutBack(j) \/ TalkExhausted(j)
      <3>1. run[j].work # <<>>
        BY <2>2 DEF RunCommand, TalkPutBack, TalkExhausted, AtItem, Types, WorkInv
      <3>2. Current(j) \in Entry
        BY <3>1, CurrentIs DEF Types
      <3>3. \/ UNCHANGED <<pending, pendingDirect>>
            \/ AppendPending([Current(j) EXCEPT !.replay = TRUE])
            \/ /\ HasDeferBudget(Current(j))
               /\ AppendPending([Current(j) EXCEPT !.replay = TRUE, !.defers = @ + 1])
        BY <2>2 DEF RunCommand, TalkPutBack, TalkExhausted
      <3>4. UNCHANGED tokens
        BY <2>2 DEF RunCommand, TalkPutBack, TalkExhausted
      <3> QED BY <1>1, <1>2, <3>2, <3>3, <3>4, EntriesTyped
    <2>3. CASE \/ Pick(j) \/ TrackEntry(j) \/ StartTalk(j) \/ TalkEnds(j) \/ TalkDeferred(j)
               \/ TalkInterrupted(j) \/ ReadPointer(j) \/ Unset(j) \/ ClearDirty(j)
               \/ CountPending(j) \/ Reschedule(j) \/ Release(j) \/ Complete(j)
      BY <1>1, <2>3 DEF Pick, TrackEntry, StartTalk, TalkEnds, TalkDeferred, TalkInterrupted,
           ReadPointer, Unset, ClearDirty, CountPending, Reschedule, Release, Complete, bufferVars
    <2> QED BY <1>6, <2>1, <2>2, <2>3, SMTT(30) DEF TurnStep
  <1>7. ASSUME NEW c \in Callers, CallStep(c) \/ CallFails(c) PROVE MailTyped'
    BY <1>1, <1>7 DEF CallStep, CallFails, SchedulerStep, ReadMeta, GetState, ChangeDelay,
         MarkDirty, AddJob, SetScheduledJob, bufferVars
  <1>8. CASE UNCHANGED vars
    BY <1>1, <1>8 DEF vars, bufferVars
  <1>9. ASSUME NEW m \in Msgs, Arrive(m) \/ ResumePick(m) \/ ResumeDone(m) \/ ResumeTrouble(m)
        PROVE  MailTyped'
    BY <1>1, <1>9 DEF Arrive, ResumePick, ResumeDone, ResumeTrouble, ResumeThrows, ResumeStalls,
         ResumeFailStalled, bufferVars
  <1>10. ASSUME NEW j \in Jobs, Clock(j) \/ Lapse(j) \/ Stall(j) \/ FailStalled(j) PROVE MailTyped'
    BY <1>1, <1>10 DEF Clock, Promote, Lapse, Stall, FailStalled, bufferVars
  <1>11. CASE Expire \/ Shutdown \/ CloseIntake \/ Exit \/ Crash
    BY <1>1, <1>11 DEF Expire, Shutdown, CloseIntake, Exit, Crash, Reboot, bufferVars
  <1> QED BY <1>4, <1>5, <1>6, <1>7, <1>8, <1>9, <1>10, <1>11 DEF Next, ResumeStep

LEMMA CallsTypedStep ==
  ASSUME Types, WakeInv, [Next]_vars
  PROVE  CallsTyped'
  <1>1. ASSUME UNCHANGED <<dirty, call>> PROVE CallsTyped'
    BY <1>1 DEF Types, CallsTyped
  <1>2. ASSUME NEW c \in Callers, NEW f \in BOOLEAN, NEW s \in BOOLEAN, NEW n \in BOOLEAN,
               ScheduleTurn(c, f, s, n), UNCHANGED dirty
        PROVE  CallsTyped'
    BY <1>2 DEF Types, CallsTyped, ScheduleTurn, Call, CallSteps
  <1>3. ASSUME NEW c \in Callers, NEW step \in CallSteps, NEW id \in Jobs \cup {NoJob},
               Go(c, step, id)
        PROVE  call' \in [Callers -> Call]
    BY <1>3, ZenonT(30) DEF Types, CallsTyped, Go, Call
  <1>4. ASSUME NEW c \in Callers, Return(c) PROVE call' \in [Callers -> Call]
    BY <1>4 DEF Types, CallsTyped, Return, IdleCall, Call, CallSteps
  <1>5. ASSUME NEW m \in Msgs, Store(m) PROVE CallsTyped'
    <2>1. /\ Info[m].direct \in BOOLEAN
          /\ (Info[m].isEdit /\ ~Info[m].direct) \in BOOLEAN
      BY BufferAssumption DEF MessageInfo
    <2> QED BY <1>2, <1>5, <2>1, CallerKinds DEF Store
  <1>6. ASSUME NEW m \in Msgs, ResumeFires(m) PROVE CallsTyped'
    BY <1>2, <1>6, CallerKinds DEF ResumeFires
  <1>7. ASSUME NEW c \in Callers, CallStep(c) PROVE CallsTyped'
    <2>1. scheduledJobId \in Jobs \cup {NoJob}
      BY DEF WakeInv, Records, Ids
    <2>2. call[c].id \in Jobs \cup {NoJob}
      BY DEF Types, CallsTyped, Call
    <2>3. CASE ReadMeta(c)
      <3>1. Go(c, "add", NoJob) \/ Go(c, "state", scheduledJobId)
        BY <2>3 DEF ReadMeta
      <3>2. call' \in [Callers -> Call]
        BY <1>3, <2>1, <3>1 DEF CallSteps
      <3> QED BY <2>3, <3>2 DEF ReadMeta, bufferVars, Types, CallsTyped
    <2>4. CASE GetState(c)
      <3>1. Return(c) \/ Go(c, "change", call[c].id) \/ Go(c, "mark", NoJob) \/ Go(c, "add", NoJob)
        <4>1. call[c].id \in Jobs /\ job[call[c].id] \in JobStates
          BY <2>4 DEF GetState, WakeInv, Records, Ids
        <4>2. CASE job[call[c].id] = "delayed"
          BY <2>4, <4>2 DEF GetState
        <4>3. CASE job[call[c].id] \in {"waiting", "active"}
          BY <2>4, <4>3 DEF GetState
        <4>4. CASE job[call[c].id] = "none"
          BY <2>4, <4>4 DEF GetState
        <4> QED BY <4>1, <4>2, <4>3, <4>4 DEF JobStates
      <3>2. call' \in [Callers -> Call]
        BY <1>3, <1>4, <2>2, <3>1 DEF CallSteps
      <3> QED BY <2>4, <3>2 DEF GetState, bufferVars, Types, CallsTyped
    <2>5. CASE ChangeDelay(c)
      <3>1. Return(c) \/ Go(c, "mark", NoJob)
        BY <2>5 DEF ChangeDelay
      <3>2. call' \in [Callers -> Call]
        BY <1>3, <1>4, <3>1 DEF CallSteps
      <3> QED BY <2>5, <3>2 DEF ChangeDelay, bufferVars, Types, CallsTyped
    <2>6. CASE MarkDirty(c)
      <3>1. call' \in [Callers -> Call] /\ dirty' = TRUE
        BY <1>4, <2>6 DEF MarkDirty
      <3> QED BY <3>1 DEF CallsTyped
    <2>7. CASE AddJob(c)
      <3>1. PICK j \in Jobs : Go(c, "set", j)
        BY <2>7 DEF AddJob
      <3>2. call' \in [Callers -> Call]
        BY <1>3, <3>1 DEF CallSteps
      <3> QED BY <2>7, <3>2 DEF AddJob, bufferVars, Types, CallsTyped
    <2>8. CASE SetScheduledJob(c)
      <3>1. call' \in [Callers -> Call] /\ UNCHANGED dirty
        BY <1>4, <2>8 DEF SetScheduledJob
      <3> QED BY <3>1 DEF Types, CallsTyped
    <2> QED BY <1>7, <2>3, <2>4, <2>5, <2>6, <2>7, <2>8 DEF CallStep, SchedulerStep
  <1>8. ASSUME NEW c \in Callers, CallFails(c) PROVE CallsTyped'
    <2>1. call' \in [Callers -> Call] /\ UNCHANGED dirty
      BY <1>4, <1>8 DEF CallFails, bufferVars
    <2> QED BY <2>1 DEF Types, CallsTyped
  <1>9. ASSUME NEW j \in Jobs, TurnStep(j) PROVE CallsTyped'
    <2>1. CASE Pick(j)
      <3>1. UNCHANGED call \/ ScheduleTurn(Tu(j), FALSE, TRUE, FALSE)
        BY <2>1 DEF Pick
      <3>2. UNCHANGED dirty
        BY <2>1 DEF Pick, bufferVars
      <3> QED BY <1>1, <1>2, <3>1, <3>2, CallerKinds
    <2>2. CASE Reschedule(j)
      <3>1. ScheduleTurn(Tu(j), TRUE, FALSE, pendingDirect) /\ UNCHANGED dirty
        BY <2>2 DEF Reschedule, bufferVars
      <3>2. pendingDirect \in BOOLEAN
        BY DEF Types, MailTyped
      <3> QED BY <1>2, <3>1, <3>2, CallerKinds
    <2>3. CASE ClearDirty(j)
      <3>1. dirty' = FALSE /\ UNCHANGED call
        BY <2>3 DEF ClearDirty, schedulerVars
      <3> QED BY <3>1 DEF Types, CallsTyped
    <2>4. CASE \/ Drain(j) \/ TrackEntry(j) \/ RunCommand(j) \/ StartTalk(j) \/ TalkEnds(j)
               \/ TalkDeferred(j) \/ TalkPutBack(j) \/ TalkInterrupted(j) \/ TalkExhausted(j)
               \/ Replan(j) \/ ReadPointer(j) \/ Unset(j) \/ CountPending(j) \/ Release(j)
               \/ Complete(j)
      BY <1>1, <2>4 DEF Drain, TrackEntry, RunCommand, StartTalk, TalkEnds, TalkDeferred,
           TalkPutBack, TalkInterrupted, TalkExhausted, Replan, ReadPointer, Unset,
           CountPending, Release, Complete, bufferVars, schedulerVars
    <2> QED BY <1>9, <2>1, <2>2, <2>3, <2>4 DEF TurnStep
  <1>10. CASE UNCHANGED vars
    BY <1>1, <1>10 DEF vars, bufferVars, schedulerVars
  <1>11. ASSUME NEW m \in Msgs, Arrive(m) \/ ResumePick(m) \/ ResumeDone(m) \/ ResumeStalls(m)
        PROVE  CallsTyped'
    BY <1>1, <1>11 DEF Arrive, ResumePick, ResumeDone, ResumeStalls, bufferVars, schedulerVars
  <1>15. ASSUME NEW m \in Msgs, ResumeThrows(m) \/ ResumeFailStalled(m) PROVE CallsTyped'
    <2>1. Return(Re(m)) /\ UNCHANGED dirty
      BY <1>15 DEF ResumeThrows, ResumeFailStalled, ResumeGivenUp, bufferVars
    <2> QED BY <1>4, <2>1, CallerKinds DEF Types, CallsTyped
  <1>12. ASSUME NEW j \in Jobs, Clock(j) \/ Lapse(j) \/ Stall(j) \/ FailStalled(j) PROVE CallsTyped'
    BY <1>1, <1>12 DEF Clock, Promote, Lapse, Stall, FailStalled, bufferVars, schedulerVars
  <1>13. CASE Expire \/ Shutdown \/ CloseIntake
    BY <1>1, <1>13 DEF Expire, Shutdown, CloseIntake, bufferVars, schedulerVars
  <1>14. CASE Exit \/ Crash
    <2>1. call' = [c \in Callers |-> IdleCall] /\ UNCHANGED dirty
      BY <1>14 DEF Exit, Crash, Reboot, bufferVars
    <2> QED BY <2>1 DEF Types, CallsTyped, IdleCall, Call, CallSteps
  <1> QED BY <1>5, <1>6, <1>7, <1>8, <1>9, <1>10, <1>11, <1>12, <1>13, <1>14, <1>15
          DEF Next, ResumeStep, ResumeTrouble

LEMMA RegistryTypedStep ==
  ASSUME RegistryTypeOK, [Next]_vars
  PROVE  RegistryTypeOK'
  <1>1. ASSUME UNCHANGED registryVars PROVE RegistryTypeOK'
    BY <1>1 DEF RegistryTypeOK, registryVars
  <1>2. /\ streak \in Nat /\ streak <= MaxInterrupts /\ MaxInterrupts \in Nat
        /\ 0 \in 0..MaxInterrupts
    BY RegistryAssumption DEF RegistryTypeOK
  <1>3. CASE Interrupt
    <2>1. Interruptible => streak + 1 \in 0..MaxInterrupts /\ active \in Gens
      BY <1>2 DEF Interruptible, RegistryTypeOK
    <2> QED BY <1>3, <2>1 DEF Interrupt, RegistryTypeOK
  <1>4. ASSUME NEW j \in Jobs, Clear(j, FALSE) PROVE RegistryTypeOK'
    BY <1>2, <1>4, ActorAssumption DEF Clear, RegistryTypeOK
  <1>5. ASSUME NEW j \in Jobs, Register(j) PROVE RegistryTypeOK'
    BY <1>5, ActorAssumption DEF Register, RegistryTypeOK
  <1>6. CASE AbortAll
    BY <1>6 DEF AbortAll, RegistryTypeOK
  <1>7. CASE RegistryReset
    BY <1>2, <1>7 DEF RegistryReset, RegistryTypeOK
  <1>8. ASSUME NEW m \in Msgs, Arrive(m) \/ Store(m) \/ ResumeStep(m) \/ ResumeTrouble(m)
        PROVE  RegistryTypeOK'
    <2>1. Interrupt \/ UNCHANGED registryVars
      BY <1>8 DEF Arrive, Store, ResumeStep, ResumePick, ResumeFires, ResumeDone, ResumeTrouble,
             ResumeThrows, ResumeStalls, ResumeFailStalled
    <2> QED BY <1>1, <1>3, <2>1
  <1>9. ASSUME NEW j \in Jobs, TurnStep(j)
        PROVE  RegistryTypeOK'
    <2>1. CASE StartTalk(j)
      BY <1>5, <2>1 DEF StartTalk
    <2>2. CASE TalkEnds(j) \/ TalkDeferred(j) \/ TalkPutBack(j) \/ TalkExhausted(j)
      BY <1>4, <2>2 DEF TalkEnds, TalkDeferred, TalkPutBack, TalkExhausted
    <2>3. CASE \/ Pick(j) \/ Drain(j) \/ TrackEntry(j) \/ RunCommand(j) \/ TalkInterrupted(j)
               \/ Replan(j) \/ ReadPointer(j) \/ Unset(j) \/ ClearDirty(j)
               \/ CountPending(j) \/ Reschedule(j) \/ Release(j) \/ Complete(j)
      BY <1>1, <2>3 DEF Pick, Drain, TrackEntry, RunCommand, TalkInterrupted, Replan,
           ReadPointer, Unset, ClearDirty, CountPending, Reschedule, Release, Complete
    <2> QED BY <1>9, <2>1, <2>2, <2>3 DEF TurnStep
  <1>10. ASSUME NEW c \in Callers, CallStep(c) \/ CallFails(c) PROVE RegistryTypeOK'
    BY <1>1, <1>10 DEF CallStep, CallFails
  <1>11. ASSUME NEW j \in Jobs, Clock(j) \/ Lapse(j) \/ Stall(j) \/ FailStalled(j) PROVE RegistryTypeOK'
    BY <1>1, <1>11 DEF Clock, Lapse, Stall, FailStalled
  <1>12. CASE Expire \/ Shutdown \/ CloseIntake \/ Exit \/ Crash \/ UNCHANGED vars
    <2>1. UNCHANGED registryVars \/ AbortAll \/ RegistryReset
      BY <1>12 DEF Expire, Shutdown, CloseIntake, Exit, Crash, Reboot, vars
    <2> QED BY <1>1, <1>6, <1>7, <2>1
  <1> QED BY <1>8, <1>9, <1>10, <1>11, <1>12 DEF Next

\* Another step of a defer_resume job keeps its entry.
LEMMA ResumeGoesTyped ==
  ASSUME NEW r \in [at : ResumeSteps, entry : Entry], NEW step \in ResumeSteps, NEW s,
         s = [r EXCEPT !.at = step]
  PROVE  s \in [at : ResumeSteps, entry : Entry] /\ s.at = step /\ s.entry = r.entry
  OBVIOUS

LEMMA SpendTyped ==
  ASSUME FlowTyped, NEW kind, Spend(kind)
  PROVE  /\ spent' \in Seq(Troubles)
         /\ \A i \in DOMAIN spent : i \in DOMAIN spent' /\ spent'[i] = spent[i]
         /\ \E i \in DOMAIN spent' : spent'[i] = kind
  <1>1. kind \in Troubles /\ spent' = Append(spent, kind) /\ spent \in Seq(Troubles)
    BY DEF Spend, FlowTyped
  <1> QED BY <1>1, AppendIs

\* What a reboot does to the defer_resume jobs.
LEMMA ResumesOrphaned ==
  ASSUME FlowTyped, Reboot
  PROVE  /\ resume' \in [Msgs -> [at : ResumeSteps, entry : Entry]]
         /\ \A m \in Msgs : /\ resume'[m].entry = resume[m].entry
                            /\ \/ resume'[m].at = resume[m].at
                               \/ /\ resume'[m].at = "orphan"
                                  /\ resume[m].at \in {"picked", "call"}
  <1>1. /\ resume' = [m \in Msgs |-> resume'[m]]
        /\ \A m \in Msgs : \/ resume'[m] = resume[m]
                           \/ /\ resume'[m] = [resume[m] EXCEPT !.at = "orphan"]
                              /\ resume[m].at \in {"picked", "call"}
    BY Zenon DEF Reboot
  <1>2. ASSUME NEW m \in Msgs
        PROVE  /\ resume'[m] \in [at : ResumeSteps, entry : Entry]
               /\ resume'[m].entry = resume[m].entry
               /\ \/ resume'[m].at = resume[m].at
                  \/ resume'[m].at = "orphan" /\ resume[m].at \in {"picked", "call"}
    <2>1. resume[m] \in [at : ResumeSteps, entry : Entry] /\ "orphan" \in ResumeSteps
      BY DEF FlowTyped, ResumeSteps
    <2>2. CASE resume'[m] = resume[m]
      BY <2>1, <2>2
    <2>3. CASE /\ resume'[m] = [resume[m] EXCEPT !.at = "orphan"]
               /\ resume[m].at \in {"picked", "call"}
      BY <2>1, <2>3, ResumeGoesTyped
    <2> QED BY <1>1, <2>2, <2>3
  <1> QED BY <1>1, <1>2

\* What another step, or the end, does to one of them.
LEMMA ResumeStepTyped ==
  ASSUME FlowTyped, NEW m \in Msgs, NEW step \in ResumeSteps,
         resume' = [resume EXCEPT ![m].at = step]
  PROVE  /\ resume' \in [Msgs -> [at : ResumeSteps, entry : Entry]]
         /\ resume'[m].at = step /\ resume'[m].entry = resume[m].entry
         /\ \A n \in Msgs \ {m} : resume'[n] = resume[n]
  <1>1. resume[m] \in [at : ResumeSteps, entry : Entry]
    BY DEF FlowTyped
  <1>2. PICK r : r = [resume[m] EXCEPT !.at = step]
    OBVIOUS
  <1>3. r \in [at : ResumeSteps, entry : Entry] /\ r.at = step /\ r.entry = resume[m].entry
    BY <1>1, <1>2, ResumeGoesTyped
  <1>4. resume' = [resume EXCEPT ![m] = r]
    BY <1>2
  <1> QED BY <1>3, <1>4 DEF FlowTyped

LEMMA ResumeEndTyped ==
  ASSUME FlowTyped, NEW m \in Msgs, resume' = [resume EXCEPT ![m] = NoResume(m)]
  PROVE  /\ resume' \in [Msgs -> [at : ResumeSteps, entry : Entry]]
         /\ resume'[m].at = "none" /\ resume'[m].entry = FreshEntry(m)
         /\ \A n \in Msgs \ {m} : resume'[n] = resume[n]
  BY NoResumeTyped DEF FlowTyped, NoResume

LEMMA FlowTypedStep ==
  ASSUME Types, [Next]_vars
  PROVE  FlowTyped'
  <1>1. ASSUME UNCHANGED <<ingress, resume, cut, spent>> PROVE FlowTyped'
    BY <1>1 DEF Types, FlowTyped
  <1>2. ASSUME NEW m \in Msgs, Arrive(m) \/ Store(m) PROVE FlowTyped'
    BY <1>2 DEF Arrive, Store, Types, FlowTyped
  <1>3. ASSUME NEW m \in Msgs, ResumePick(m) \/ ResumeFires(m) \/ ResumeStalls(m)
        PROVE  FlowTyped'
    <2>1. PICK step \in ResumeSteps : resume' = [resume EXCEPT ![m].at = step]
      BY <1>3 DEF ResumePick, ResumeFires, ResumeStalls, ResumeSteps
    <2>2. UNCHANGED <<ingress, cut, spent>>
      BY <1>3 DEF ResumePick, ResumeFires, ResumeStalls
    <2> QED BY <2>1, <2>2, ResumeStepTyped DEF Types, FlowTyped
  <1>4. ASSUME NEW m \in Msgs, ResumeDone(m) PROVE FlowTyped'
    <2>1. resume' = [resume EXCEPT ![m] = NoResume(m)] /\ UNCHANGED <<ingress, cut, spent>>
      BY <1>4 DEF ResumeDone
    <2> QED BY <2>1, ResumeEndTyped DEF Types, FlowTyped
  <1>15. ASSUME NEW m \in Msgs, ResumeThrows(m) \/ ResumeFailStalled(m) PROVE FlowTyped'
    <2>1. resume[m].entry.msg \in Msgs /\ "delayed" \in ResumeSteps
      BY DEF Types, FlowTyped, Entry, ResumeSteps
    <2>2. /\ \/ resume' = [resume EXCEPT ![m].at = "delayed"] /\ cut' = cut
             \/ /\ resume' = [resume EXCEPT ![m] = NoResume(m)]
                /\ cut' = cut \cup {resume[m].entry.msg}
          /\ ingress' = ingress
      BY <1>15 DEF ResumeThrows, ResumeFailStalled, ResumeGivenUp
    <2>3. spent' \in Seq(Troubles)
      BY <1>15, SpendTyped DEF ResumeThrows, ResumeFailStalled, Types, FlowTyped
    <2>4. resume' \in [Msgs -> [at : ResumeSteps, entry : Entry]]
      BY <2>1, <2>2, ResumeStepTyped, ResumeEndTyped DEF Types
    <2> QED BY <2>1, <2>2, <2>3, <2>4 DEF Types, FlowTyped
  <1>5. ASSUME NEW j \in Jobs, TalkDeferred(j) PROVE FlowTyped'
    <2>1. run[j].work # <<>>
      BY <1>5 DEF TalkDeferred, Types, WorkInv
    <2>2. Current(j) \in Entry /\ HasDeferBudget(Current(j))
      BY <1>5, <2>1, CurrentIs DEF Types, TalkDeferred
    <2>3. PICK r : r = [at |-> "delayed", entry |-> DeferredEntry(Current(j))]
      OBVIOUS
    <2>4. r \in [at : ResumeSteps, entry : Entry]
      BY <2>2, <2>3, EntriesTyped DEF ResumeSteps
    <2>5. resume' = [resume EXCEPT ![Current(j).msg] = r] /\ UNCHANGED <<ingress, cut, spent>>
      BY <1>5, <2>3, SMTT(30) DEF TalkDeferred
    <2> QED BY <2>4, <2>5 DEF Types, FlowTyped
  <1>6. ASSUME NEW j \in Jobs, TurnStep(j), ~TalkDeferred(j) PROVE FlowTyped'
    BY <1>1, <1>6 DEF TurnStep, Pick, Drain, TrackEntry, RunCommand, StartTalk, TalkEnds,
         TalkPutBack, TalkInterrupted, TalkExhausted, Replan, ReadPointer, Unset,
         ClearDirty, CountPending, Reschedule, Release, Complete, flowVars
  <1>7. ASSUME NEW c \in Callers, CallFails(c) PROVE FlowTyped'
    <2>1. resume' \in [Msgs -> [at : ResumeSteps, entry : Entry]]
      BY <1>7 DEF CallFails, Types, FlowTyped
    <2>2. EntriesOf(pending) \subseteq Entry
      BY DEF Types, MailTyped, EntriesOf
    <2>3. Unwoken(c) \subseteq Msgs
      BY <2>2 DEF Unwoken, Entry
    <2>4. spent' \in Seq(Troubles) /\ ingress' = ingress /\ cut' = cut \cup Unwoken(c)
      BY <1>7, SpendTyped DEF CallFails, Types
    <2> QED BY <2>1, <2>3, <2>4 DEF Types, FlowTyped
  <1>8. ASSUME Reboot, spent' \in Seq(Troubles) PROVE FlowTyped'
    <2>1. resume' \in [Msgs -> [at : ResumeSteps, entry : Entry]]
      BY <1>8, ResumesOrphaned DEF Types
    <2>2. /\ ingress' = [m \in Msgs |-> IF InFlight(m) THEN "stored" ELSE ingress[m]]
          /\ cut' = cut \cup {m \in Msgs : InFlight(m)}
      BY <1>8 DEF Reboot
    <2> QED BY <1>8, <2>1, <2>2 DEF Types, FlowTyped
  <1>9. CASE Exit \/ Crash
    <2>1. spent' \in Seq(Troubles)
      BY <1>9, SpendTyped DEF Exit, Crash, Types, FlowTyped
    <2> QED BY <1>8, <1>9, <2>1 DEF Exit, Crash
  <1>10. ASSUME NEW j \in Jobs, Lapse(j) PROVE FlowTyped'
    <2>1. spent' \in Seq(Troubles) /\ UNCHANGED flowVars
      BY <1>10, SpendTyped DEF Lapse, Types
    <2> QED BY <2>1 DEF Types, FlowTyped, flowVars
  <1>11. CASE Shutdown
    <2>1. spent' \in Seq(Troubles) /\ UNCHANGED flowVars
      BY <1>11, SpendTyped DEF Shutdown, Types
    <2> QED BY <2>1 DEF Types, FlowTyped, flowVars
  <1>12. ASSUME NEW c \in Callers, CallStep(c) PROVE FlowTyped'
    BY <1>1, <1>12 DEF CallStep, flowVars
  <1>13. ASSUME NEW j \in Jobs, Clock(j) \/ Stall(j) PROVE FlowTyped'
    BY <1>1, <1>13 DEF Clock, Stall, flowVars
  <1>14. CASE Expire \/ CloseIntake \/ UNCHANGED vars
    BY <1>1, <1>14 DEF Expire, CloseIntake, vars, flowVars
  <1>16. ASSUME NEW j \in Jobs, FailStalled(j) PROVE FlowTyped'
    <2>1. EntriesOf(pending) \subseteq Entry
      BY DEF Types, MailTyped, EntriesOf
    <2>2. {e.msg : e \in EntriesOf(pending)} \subseteq Msgs
      BY <2>1 DEF Entry
    <2>3. /\ cut' = cut \cup {e.msg : e \in EntriesOf(pending)}
          /\ UNCHANGED <<ingress, resume, spent>>
      BY <1>16 DEF FailStalled
    <2> QED BY <2>2, <2>3 DEF Types, FlowTyped
  <1> QED BY <1>2, <1>3, <1>4, <1>5, <1>6, <1>7, <1>9, <1>10, <1>11, <1>12, <1>13, <1>14, <1>15,
             <1>16 DEF Next, ResumeStep, ResumeTrouble

\* How often a job was stalled or failed is counted from nought.
LEMMA CountersTypedStep ==
  ASSUME CountersTyped, [Next]_vars
  PROVE  CountersTyped'
  <1>1. ASSUME UNCHANGED <<stalls, tries>> PROVE CountersTyped'
    BY <1>1 DEF CountersTyped
  <1>2. ASSUME NEW m \in Msgs, Arrive(m) \/ Store(m) \/ ResumePick(m) \/ ResumeFires(m)
        PROVE  CountersTyped'
    BY <1>1, <1>2 DEF Arrive, Store, ResumePick, ResumeFires
  <1>3. ASSUME NEW m \in Msgs, ResumeDone(m) \/ ResumeTrouble(m)
        PROVE  CountersTyped'
    <2>1. tries[m] \in [stalls : Nat, fails : Nat] /\ NoTries \in [stalls : Nat, fails : Nat]
      BY DEF CountersTyped, NoTries
    <2>2. /\ [tries[m] EXCEPT !.stalls = @ + 1] \in [stalls : Nat, fails : Nat]
          /\ [tries[m] EXCEPT !.fails = @ + 1] \in [stalls : Nat, fails : Nat]
      BY <2>1
    <2>3. PICK t \in [stalls : Nat, fails : Nat] : tries' = [tries EXCEPT ![m] = t]
      <3>1. \/ tries' = [tries EXCEPT ![m] = NoTries]
            \/ tries' = [tries EXCEPT ![m] = [tries[m] EXCEPT !.stalls = @ + 1]]
            \/ tries' = [tries EXCEPT ![m] = [tries[m] EXCEPT !.fails = @ + 1]]
        BY <1>3 DEF ResumeDone, ResumeTrouble, ResumeThrows, ResumeStalls, ResumeFailStalled,
             ResumeGivenUp
      <3> QED BY <2>1, <2>2, <3>1
    <2>4. UNCHANGED stalls
      BY <1>3 DEF ResumeDone, ResumeTrouble, ResumeThrows, ResumeStalls, ResumeFailStalled
    <2> QED BY <2>3, <2>4 DEF CountersTyped
  <1>4. ASSUME NEW c \in Callers, CallStep(c) \/ CallFails(c) PROVE CountersTyped'
    BY <1>1, <1>4 DEF CallStep, CallFails, flowVars
  <1>5. ASSUME NEW j \in Jobs, Complete(j) \/ Stall(j) \/ FailStalled(j) PROVE CountersTyped'
    BY <1>5 DEF Complete, Stall, FailStalled, CountersTyped
  <1>6. ASSUME NEW j \in Jobs, TurnStep(j), ~Complete(j) PROVE CountersTyped'
    BY <1>1, <1>6 DEF TurnStep, Pick, Drain, TrackEntry, RunCommand, StartTalk, TalkEnds,
         TalkDeferred, TalkPutBack, TalkInterrupted, TalkExhausted, Replan, ReadPointer, Unset,
         ClearDirty, CountPending, Reschedule, Release, flowVars
  <1>7. ASSUME NEW j \in Jobs, Clock(j) \/ Lapse(j) PROVE CountersTyped'
    BY <1>1, <1>7 DEF Clock, Lapse, flowVars
  <1>8. CASE Expire \/ Shutdown \/ CloseIntake \/ Exit \/ Crash \/ UNCHANGED vars
    BY <1>1, <1>8 DEF Expire, Shutdown, CloseIntake, Exit, Crash, Reboot, vars, flowVars
  <1> QED BY <1>2, <1>3, <1>4, <1>5, <1>6, <1>7, <1>8 DEF Next, ResumeStep

\* Writing one run record.
LEMMA GotoRun ==
  ASSUME TurnTyped, NEW j \in Jobs, NEW step \in RunSteps, Goto(j, step)
  PROVE  /\ run' \in [Jobs -> Run]
         /\ run'[j].at = step /\ run'[j].work = run[j].work
         /\ \A i \in Jobs \ {j} : run'[i] = run[i]
  BY DEF TurnTyped, Goto, Run

LEMMA WorkRun ==
  ASSUME TurnTyped, NEW j \in Jobs, NEW step \in RunSteps, NEW w \in Seq(Item),
         run' = [run EXCEPT ![j].at = step, ![j].work = w]
  PROVE  /\ run' \in [Jobs -> Run]
         /\ run'[j].at = step /\ run'[j].work = w
         /\ \A i \in Jobs \ {j} : run'[i] = run[i]
  <1>1. run[j] \in Run
    BY DEF TurnTyped
  <1>2. PICK r : r = [run[j] EXCEPT !.at = step, !.work = w]
    OBVIOUS
  <1>3. r \in Run /\ r.at = step /\ r.work = w
    BY <1>1, <1>2 DEF Run
  <1>4. run' = [run EXCEPT ![j] = r]
    BY <1>2
  <1> QED BY <1>3, <1>4, ZenonT(90) DEF TurnTyped

LEMMA SkipRun ==
  ASSUME TurnTyped, NEW j \in Jobs, run[j].work # <<>>, Skip(j)
  PROVE  /\ run' \in [Jobs -> Run]
         /\ run'[j].at = run[j].at /\ run'[j].work = Tail(run[j].work)
         /\ \A i \in Jobs \ {j} : run'[i] = run[i]
  BY CurrentIs, ZenonT(30) DEF TurnTyped, Skip, Run

LEMMA TalkOverRun ==
  ASSUME TurnTyped, NEW j \in Jobs, run[j].work # <<>>, TalkOver(j)
  PROVE  /\ run' \in [Jobs -> Run]
         /\ run'[j].at = "work" /\ run'[j].work = Tail(run[j].work)
         /\ \A i \in Jobs \ {j} : run'[i] = run[i]
  BY CurrentIs DEF TurnTyped, TalkOver, Run, RunSteps

LEMMA InterruptedRun ==
  ASSUME TurnTyped, NEW j \in Jobs, TalkInterrupted(j)
  PROVE  /\ run' \in [Jobs -> Run]
         /\ run'[j].at = "quiet" /\ run'[j].work = run[j].work
         /\ \A i \in Jobs \ {j} : run'[i] = run[i]
  <1>1. run[j] \in Run /\ run[j].replans \in Nat
    BY DEF TurnTyped, Run
  <1>2. PICK n \in Nat : n = run[j].replans + 1
    BY <1>1
  <1>3. PICK r : r = [run[j] EXCEPT !.at = "quiet", !.replans = n]
    OBVIOUS
  <1>4. r \in Run /\ r.at = "quiet" /\ r.work = run[j].work
    BY <1>1, <1>3 DEF Run, RunSteps
  <1>5. run' = [run EXCEPT ![j] = r]
    BY <1>2, <1>3 DEF TalkInterrupted
  <1> QED BY <1>4, <1>5 DEF TurnTyped

\* A run at its start or its end.
LEMMA OffTyped ==
  \A step \in RunSteps :
      [OffRun EXCEPT !.at = step] \in Run /\ OffRun \in Run
  <1>1. <<>> \in Seq(Item)
    OBVIOUS
  <1> QED BY <1>1, ZenonT(30) DEF OffRun, Run, RunSteps

LEMMA PickRun ==
  ASSUME TurnTyped, NEW j \in Jobs, Pick(j)
  PROVE  /\ run' \in [Jobs -> Run]
         /\ run'[j].at \in {"drain", "lose"} /\ run'[j].work = <<>>
         /\ \A i \in Jobs \ {j} : run'[i] = run[i]
  <1>1. PICK step \in {"drain", "lose"} : run' = [run EXCEPT ![j] = [OffRun EXCEPT !.at = step]]
    BY DEF Pick
  <1>2. PICK r : r = [OffRun EXCEPT !.at = step]
    OBVIOUS
  <1>3. r \in Run /\ r.at = step /\ r.work = <<>>
    BY <1>2, OffTyped DEF OffRun, RunSteps
  <1>4. run' = [run EXCEPT ![j] = r]
    BY <1>1, <1>2
  <1> QED BY <1>3, <1>4 DEF TurnTyped

LEMMA NextWork ==
  ASSUME MailTyped, TurnTyped, NEW j \in Jobs, run[j].work # <<>>
  PROVE  /\ NewAnchor(j) \in Entry
         /\ Others \o <<[entry |-> NewAnchor(j), role |-> "judge"]>> \o Tail(run[j].work) \in Seq(Item)
         /\ Others \o <<[entry |-> NewAnchor(j), role |-> "judge"]>> \o Tail(run[j].work) # <<>>
  <1>1. NewAnchor(j) \in Entry
    <2>1. CASE ReplanAnchor(pending) = {}
      BY <2>1, CurrentIs DEF NewAnchor
    <2>2. CASE ReplanAnchor(pending) # {}
      <3>1. (CHOOSE i \in ReplanAnchor(pending) : TRUE) \in DOMAIN pending
        BY <2>2, AnchorInBox DEF MailTyped
      <3> QED BY <2>2, <3>1 DEF NewAnchor, MailTyped
    <2> QED BY <2>1, <2>2
  <1>2. [entry |-> NewAnchor(j), role |-> "judge"] \in Item
    BY <1>1 DEF Item, Roles
  <1>3. PICK it \in Item : it = [entry |-> NewAnchor(j), role |-> "judge"]
    BY <1>2
  <1>4. PICK os \in Seq(Item) : os = Others
    BY OthersAre DEF MailTyped
  <1>5. PICK rest \in Seq(Item) : rest = Tail(run[j].work)
    BY CurrentIs
  <1>6. PICK w : w = os \o <<it>> \o rest
    OBVIOUS
  <1>7. w \in Seq(Item) /\ w # <<>>
    <2>1. <<it>> \in Seq(Item) /\ Len(<<it>>) = 1
      OBVIOUS
    <2>2. os \o <<it>> \in Seq(Item) /\ Len(os \o <<it>>) = Len(os) + 1
      BY <2>1
    <2>3. w \in Seq(Item) /\ Len(w) = Len(os) + 1 + Len(rest)
      BY <1>6, <2>2
    <2>4. Len(w) > 0
      BY <2>3
    <2> QED BY <2>3, <2>4
  <1> QED BY <1>1, <1>3, <1>4, <1>5, <1>6, <1>7

LEMMA TurnTypedStep ==
  ASSUME Types, [Next]_vars
  PROVE  TurnTyped' /\ WorkInv'
  <1> DEFINE Good(j) == /\ run'[j].at \in {"gen", "quiet"} => run'[j].work # <<>>
                        /\ run'[j].at \notin {"work", "gen", "quiet"} => run'[j].work = <<>>
             Locks == /\ lock' \in Jobs \cup {NoJob, Orphan}
                      /\ lapsed' \subseteq Jobs /\ open' \in BOOLEAN
  <1>1. ASSUME NEW j \in Jobs, run' \in [Jobs -> Run], Good(j), Locks,
               \A i \in Jobs \ {j} : run'[i] = run[i]
        PROVE  TurnTyped' /\ WorkInv'
    BY <1>1 DEF Types, TurnTyped, WorkInv
  <1>2. ASSUME UNCHANGED run, Locks PROVE TurnTyped' /\ WorkInv'
    BY <1>2 DEF Types, TurnTyped, WorkInv
  <1>3. ASSUME UNCHANGED <<lock, lapsed, open>> PROVE Locks
    BY <1>3 DEF Types, TurnTyped
  <1>4. ASSUME NEW j \in Jobs, Pick(j) PROVE TurnTyped' /\ WorkInv'
    <2>1. run' \in [Jobs -> Run] /\ Good(j) /\ \A i \in Jobs \ {j} : run'[i] = run[i]
      BY <1>4, PickRun DEF Types
    <2>2. Locks
      BY <1>4 DEF Pick, Types, TurnTyped
    <2> QED BY <1>1, <2>1, <2>2
  <1>5. ASSUME NEW j \in Jobs, Drain(j) PROVE TurnTyped' /\ WorkInv'
    <2>1. Locks
      BY <1>3, <1>5 DEF Drain
    <2>2. CASE pending = <<>>
      <3>1. Goto(j, "exit") /\ run[j].work = <<>>
        BY <1>5, <2>2 DEF Drain, Types, WorkInv
      <3>2. run' \in [Jobs -> Run] /\ Good(j) /\ \A i \in Jobs \ {j} : run'[i] = run[i]
        BY <3>1, GotoRun DEF Types, RunSteps
      <3> QED BY <1>1, <2>1, <3>2
    <2>3. CASE pending # <<>>
      <3>1. PICK suppression \in SuppressionNow :
              run' = [run EXCEPT ![j].at = "work", ![j].work = Plan(pending, suppression)]
        BY <1>5, <2>3 DEF Drain
      <3>2. Plan(pending, suppression) \in Seq(Item)
        BY PlanTyped, SMTT(30) DEF Types, MailTyped
      <3>3. run' \in [Jobs -> Run] /\ Good(j) /\ \A i \in Jobs \ {j} : run'[i] = run[i]
        BY <3>1, <3>2, WorkRun, ZenonT(30) DEF Types, RunSteps
      <3> QED BY <1>1, <2>1, <3>3
    <2> QED BY <2>2, <2>3
  <1>6. ASSUME NEW j \in Jobs, TrackEntry(j) \/ RunCommand(j) PROVE TurnTyped' /\ WorkInv'
    <2>1. Locks
      BY <1>3, <1>6 DEF TrackEntry, RunCommand
    <2>2. Skip(j) /\ run[j].work # <<>> /\ run[j].at = "work"
      BY <1>6 DEF TrackEntry, RunCommand, AtItem
    <2>3. run' \in [Jobs -> Run] /\ Good(j) /\ \A i \in Jobs \ {j} : run'[i] = run[i]
      BY <2>2, SkipRun DEF Types
    <2> QED BY <1>1, <2>1, <2>3
  <1>7. ASSUME NEW j \in Jobs, TalkEnds(j) \/ TalkDeferred(j) \/ TalkPutBack(j) \/ TalkExhausted(j)
        PROVE  TurnTyped' /\ WorkInv'
    <2>1. Locks
      BY <1>3, <1>7 DEF TalkEnds, TalkDeferred, TalkPutBack, TalkExhausted
    <2>2. TalkOver(j) /\ run[j].at = "gen"
      BY <1>7 DEF TalkEnds, TalkDeferred, TalkPutBack, TalkExhausted
    <2>3. run[j].work # <<>>
      BY <2>2 DEF Types, WorkInv
    <2>4. run' \in [Jobs -> Run] /\ Good(j) /\ \A i \in Jobs \ {j} : run'[i] = run[i]
      BY <2>2, <2>3, TalkOverRun DEF Types
    <2> QED BY <1>1, <2>1, <2>4
  <1>8. ASSUME NEW j \in Jobs, TalkInterrupted(j) PROVE TurnTyped' /\ WorkInv'
    <2>1. Locks
      BY <1>3, <1>8 DEF TalkInterrupted
    <2>2. run[j].work # <<>>
      BY <1>8 DEF TalkInterrupted, Types, WorkInv
    <2>3. run' \in [Jobs -> Run] /\ Good(j) /\ \A i \in Jobs \ {j} : run'[i] = run[i]
      BY <1>8, <2>2, InterruptedRun DEF Types
    <2> QED BY <1>1, <2>1, <2>3
  <1>9. ASSUME NEW j \in Jobs, Replan(j) PROVE TurnTyped' /\ WorkInv'
    <2>1. Locks
      BY <1>3, <1>9 DEF Replan
    <2>2. run[j].work # <<>>
      BY <1>9 DEF Replan, Types, WorkInv
    <2>3. PICK w : w = Others \o <<[entry |-> NewAnchor(j), role |-> "judge"]>> \o Tail(run[j].work)
      OBVIOUS
    <2>4. w \in Seq(Item)
      BY <2>2, <2>3, NextWork DEF Types
    <2>5. run' = [run EXCEPT ![j].at = "work", ![j].work = w]
      BY <1>9, <2>3, ReplanIs, ZenonT(30)
    <2>6. run' \in [Jobs -> Run] /\ Good(j) /\ \A i \in Jobs \ {j} : run'[i] = run[i]
      BY <2>4, <2>5, WorkRun, ZenonT(30) DEF Types, RunSteps
    <2> QED BY <1>1, <2>1, <2>6
  <1>10. ASSUME NEW j \in Jobs, StartTalk(j) PROVE TurnTyped' /\ WorkInv'
    <2>1. Locks /\ Goto(j, "gen") /\ run[j].work # <<>>
      BY <1>3, <1>10 DEF StartTalk, AtItem
    <2>2. run' \in [Jobs -> Run] /\ Good(j) /\ \A i \in Jobs \ {j} : run'[i] = run[i]
      BY <2>1, GotoRun DEF Types, RunSteps
    <2> QED BY <1>1, <2>1, <2>2
  <1>11. ASSUME NEW j \in Jobs,
                ReadPointer(j) \/ Unset(j) \/ ClearDirty(j) \/ CountPending(j) \/ Reschedule(j)
                  \/ Release(j)
         PROVE  TurnTyped' /\ WorkInv'
    <2>1. PICK step \in {"unset", "recheck", "count", "resched", "release", "done"} : Goto(j, step)
      BY <1>11 DEF ReadPointer, Unset, ClearDirty, CountPending, Reschedule, Release
    <2>2. Locks
      BY <1>3, <1>11 DEF ReadPointer, Unset, ClearDirty, CountPending, Reschedule, Release,
                         Types, TurnTyped
    <2>3. run[j].work = <<>>
      BY <1>11 DEF ReadPointer, Unset, ClearDirty, CountPending, Reschedule, Release,
                   Types, WorkInv
    <2>4. run' \in [Jobs -> Run] /\ Good(j) /\ \A i \in Jobs \ {j} : run'[i] = run[i]
      BY <2>1, <2>3, GotoRun DEF Types, RunSteps
    <2> QED BY <1>1, <2>2, <2>4
  <1>12. ASSUME NEW j \in Jobs, Complete(j) PROVE TurnTyped' /\ WorkInv'
    <2>1. Locks /\ run' = [run EXCEPT ![j] = OffRun]
      BY <1>12 DEF Complete, Types, TurnTyped
    <2>2. OffRun \in Run /\ OffRun.at = "off" /\ OffRun.work = <<>>
      BY OffTyped DEF OffRun, RunSteps
    <2>3. run' \in [Jobs -> Run] /\ run'[j] = OffRun /\ \A i \in Jobs \ {j} : run'[i] = run[i]
      BY <2>1, <2>2 DEF Types, TurnTyped
    <2>4. Good(j)
      BY <2>2, <2>3
    <2> QED BY <1>1, <2>1, <2>3, <2>4
  <1>13. CASE Exit \/ Crash
    <2>1. /\ run' = [j \in Jobs |-> OffRun]
          /\ lock' = IF lock \in Jobs THEN Orphan ELSE lock
          /\ lapsed' = {} /\ open' = TRUE
      BY <1>13 DEF Exit, Crash, Reboot
    <2>2. OffRun \in Run /\ OffRun.at = "off" /\ OffRun.work = <<>>
      BY OffTyped DEF OffRun, RunSteps
    <2>3. lock' \in Jobs \cup {NoJob, Orphan}
      BY <2>1 DEF Types, TurnTyped
    <2>4. run' \in [Jobs -> Run] /\ \A j \in Jobs : run'[j].at = "off" /\ run'[j].work = <<>>
      BY <2>1, <2>2
    <2> QED BY <2>1, <2>3, <2>4 DEF TurnTyped, WorkInv
  <1>14. ASSUME NEW j \in Jobs, Lapse(j) PROVE TurnTyped' /\ WorkInv'
    BY <1>2, <1>14 DEF Lapse, Types, TurnTyped
  <1>15. CASE Expire \/ CloseIntake
    BY <1>2, <1>15 DEF Expire, CloseIntake, Types, TurnTyped
  <1>16. ASSUME UNCHANGED turnVars PROVE TurnTyped' /\ WorkInv'
    BY <1>2, <1>3, <1>16 DEF turnVars
  <1>17. ASSUME NEW m \in Msgs, Arrive(m) \/ Store(m) \/ ResumeStep(m) \/ ResumeTrouble(m)
         PROVE  UNCHANGED turnVars
    BY <1>17 DEF Arrive, Store, ResumeStep, ResumePick, ResumeFires, ResumeDone, ResumeTrouble,
                 ResumeThrows, ResumeStalls, ResumeFailStalled
  <1>18. ASSUME NEW c \in Callers, CallStep(c) \/ CallFails(c) PROVE UNCHANGED turnVars
    BY <1>18 DEF CallStep, CallFails
  <1>19. ASSUME NEW j \in Jobs, Clock(j) \/ Stall(j) \/ FailStalled(j)
         PROVE  UNCHANGED turnVars
    BY <1>19 DEF Clock, Stall, FailStalled
  <1>20. CASE Shutdown \/ UNCHANGED vars
    BY <1>16, <1>20 DEF Shutdown, vars
  <1>21. ASSUME NEW j \in Jobs, TurnStep(j) PROVE TurnTyped' /\ WorkInv'
    BY <1>4, <1>5, <1>6, <1>7, <1>8, <1>9, <1>10, <1>11, <1>12, <1>21 DEF TurnStep
  <1> QED BY <1>13, <1>14, <1>15, <1>16, <1>17, <1>18, <1>19, <1>20, <1>21 DEF Next

LEMMA TypesStep ==
  ASSUME Types, WakeInv, [Next]_vars
  PROVE  Types'
  BY MailTypedStep, CallsTypedStep, RegistryTypedStep, FlowTypedStep, CountersTypedStep,
     TurnTypedStep DEF Types

LEMMA InitTypes ==
  ASSUME Init
  PROVE  Types
  <1> USE DEF Init, BufferInit, SchedulerInit
  <1>1. MailTyped
    <2>1. <<>> \in Seq(Entry)
      OBVIOUS
    <2> QED BY <2>1 DEF MailTyped
  <1>2. CallsTyped
    BY DEF CallsTyped, IdleCall, Call, CallSteps
  <1>3. RegistryTypeOK
    <2>1. 0 \in 0..MaxInterrupts
      BY RegistryAssumption
    <2> QED BY <2>1 DEF RegistryInit, RegistryTypeOK
  <1>4. FlowTyped
    <2>1. <<>> \in Seq(Troubles)
      OBVIOUS
    <2> QED BY <2>1, NoResumeTyped DEF FlowTyped
  <1>5. TurnTyped /\ WorkInv
    <2>1. OffRun \in Run /\ OffRun.at = "off" /\ OffRun.work = <<>>
      BY OffTyped DEF OffRun, RunSteps
    <2> QED BY <2>1 DEF TurnTyped, WorkInv
  <1>6. CountersTyped
    BY DEF CountersTyped, NoTries
  <1> QED BY <1>1, <1>2, <1>3, <1>4, <1>5, <1>6 DEF Types

-----------------------------------------------------------------------------
(* Where a message is *)

\* The entries in the hands of a turn, in the order it takes them.
Entries(w) == [i \in DOMAIN w |-> w[i].entry]
Held(j) == Entries(run[j].work)

\* The mailbox, the hands of a turn, the defer_resume jobs that have yet to
\* inject their entry, the settled messages, and those not stored yet.
Box == MsgsOf(pending)
Hand(j) == MsgsOf(Held(j))
Off == {m \in Msgs : PutOff(m)}
Done == {m \in Msgs : settled[m] = 1}
New == {m \in Msgs : ingress[m] # "stored"}

Apart ==
    /\ \A j \in Jobs : Hand(j) \cap (Box \cup Off \cup Done \cup New) = {}
    /\ \A i, j \in Jobs : i # j => Hand(i) \cap Hand(j) = {}
    /\ Box \cap (Off \cup Done \cup New) = {}
    /\ Off \cap (Done \cup New) = {}
    /\ Done \cap New = {}

Singly == Once(pending) /\ \A j \in Jobs : Once(Held(j))

\* A job keeps the message it is for, remembers in Redis that it injected it,
\* and is there only for a message that was stored.
Resumes ==
    \A m \in Msgs :
        /\ resume[m].entry.msg = m
        /\ resume[m].at = "call" => <<m, resume[m].entry.defers>> \in tokens
        /\ m \in New => resume[m].at = "none" /\ \A n \in Nat : <<m, n>> \notin tokens

\* An entry in the mailbox, in the hands of a turn, or waiting in a job.
Copy(e) ==
    \/ e \in EntriesOf(pending)
    \/ \E j \in Jobs : e \in EntriesOf(Held(j))
    \/ \E m \in Off : e = resume[m].entry

\* A copy of a message has been put off at least as often as any injection of it
\* that was made: the token of its next one is new.
Grow == \A m \in Msgs, n \in Nat : <<m, n>> \in tokens =>
            \A e : Copy(e) /\ e.msg = m => e.defers >= n

\* That a message is handled once is not inductive: it is nowhere twice, and
\* what could put it somewhere again knows where it is.
Custody == settled \in [Msgs -> {0, 1}] /\ Singly /\ Apart /\ Resumes /\ Grow

Placed == Box \cup (UNION {Hand(j) : j \in Jobs}) \cup Off \cup Done

LEMMA HeldTyped ==
  ASSUME TurnTyped, NEW j \in Jobs
  PROVE  /\ Held(j) \in Seq(Entry) /\ DOMAIN Held(j) = DOMAIN run[j].work
         /\ \A i \in DOMAIN Held(j) : Held(j)[i] = run[j].work[i].entry
  <1>1. PICK w \in Seq(Item) : w = run[j].work
    BY DEF TurnTyped, Run
  <1>2. Entries(w) = [i \in 1..Len(w) |-> w[i].entry] /\ Len(w) \in Nat
    BY DEF Entries
  <1>3. \A i \in 1..Len(w) : w[i].entry \in Entry
    <2>1. \A i \in 1..Len(w) : w[i] \in Item
      OBVIOUS
    <2> QED BY <2>1 DEF Item
  <1>4. Entries(w) \in Seq(Entry) /\ DOMAIN Entries(w) = DOMAIN w
    BY <1>2, <1>3
  <1> QED BY <1>1, <1>2, <1>4 DEF Held

LEMMA EntriesTail ==
  ASSUME NEW w \in Seq(Item), w # <<>>
  PROVE  /\ Entries(w) \in Seq(Entry) /\ Entries(w) # <<>> /\ Head(Entries(w)) = Head(w).entry
         /\ Entries(Tail(w)) = Tail(Entries(w))
  <1>1. /\ Entries(w) = [i \in 1..Len(w) |-> w[i].entry] /\ Len(w) \in Nat /\ Len(w) > 0
    BY DEF Entries
  <1>2. \A i \in 1..Len(w) : w[i].entry \in Entry
    <2>1. \A i \in 1..Len(w) : w[i] \in Item
      OBVIOUS
    <2> QED BY <2>1 DEF Item
  <1>3. PICK es \in Seq(Entry) : es = Entries(w)
    BY <1>1, <1>2
  <1>4. Len(es) = Len(w) /\ es # <<>> /\ \A i \in 1..Len(w) : es[i] = w[i].entry
    BY <1>1, <1>3
  <1>5. Head(es) = Head(w).entry
    BY <1>1, <1>4
  <1>6. Tail(w) \in Seq(Item) /\ Len(Tail(w)) = Len(w) - 1
    BY <1>1
  <1>7. PICK t \in Seq(Item) : t = Tail(w)
    BY <1>6
  <1>8. Len(t) = Len(w) - 1 /\ \A i \in 1..Len(t) : t[i] = w[i + 1]
    BY <1>1, <1>7
  <1>9. PICK u \in Seq(Entry) : u = Tail(es)
    BY <1>4, TailIs
  <1>10. Len(u) = Len(w) - 1 /\ \A i \in 1..Len(u) : u[i] = es[i + 1] /\ i + 1 \in 1..Len(w)
    BY <1>1, <1>4, <1>9
  <1>11. u = [i \in 1..Len(t) |-> u[i]]
    BY <1>8, <1>10
  <1>12. \A i \in 1..Len(t) : u[i] = t[i].entry
    BY <1>4, <1>8, <1>10
  <1>13. Entries(t) = [i \in 1..Len(t) |-> t[i].entry]
    BY DEF Entries
  <1>14. Entries(t) = u
    BY <1>11, <1>12, <1>13
  <1> QED BY <1>3, <1>4, <1>5, <1>7, <1>9, <1>14

\* The head of the work list leaves the hands of the turn.
LEMMA HeadLeaves ==
  ASSUME TurnTyped, NEW j \in Jobs, run[j].work # <<>>, Once(Held(j)),
         run'[j].work = Tail(run[j].work)
  PROVE  /\ Current(j).msg \in Hand(j) /\ Hand(j)' = Hand(j) \ {Current(j).msg}
         /\ Once(Held(j))'
         /\ Current(j) \in EntriesOf(Held(j))
         /\ EntriesOf(Held(j))' \subseteq EntriesOf(Held(j))
  <1>1. run[j].work \in Seq(Item)
    BY CurrentIs
  <1>2. /\ Held(j) \in Seq(Entry) /\ Held(j) # <<>> /\ Head(Held(j)) = Current(j)
        /\ Held(j)' = Tail(Held(j))
    BY <1>1, EntriesTail DEF Held, Current
  <1> QED BY <1>2, TailOnce DEF Hand

LEMMA HandsSame ==
  ASSUME NEW j \in Jobs, run'[j].work = run[j].work
  PROVE  Held(j)' = Held(j) /\ Hand(j)' = Hand(j)
  BY DEF Held, Hand

LEMMA OffSame ==
  ASSUME UNCHANGED <<resume, tokens>>
  PROVE  Off' = Off
  BY DEF Off, PutOff

LEMMA SettleIs ==
  ASSUME settled \in [Msgs -> {0, 1}], NEW m \in Msgs, m \notin Done, Settle(m)
  PROVE  settled' \in [Msgs -> {0, 1}] /\ Done' = Done \cup {m}
  <1>1. settled[m] = 0
    BY DEF Done
  <1>2. settled' = [settled EXCEPT ![m] = 1]
    BY <1>1 DEF Settle
  <1> QED BY <1>2 DEF Done

LEMMA AppendBox ==
  ASSUME MailTyped, NEW e \in Entry, AppendPending(e), Once(pending), e.msg \notin Box
  PROVE  /\ Box' = Box \cup {e.msg} /\ Once(pending)'
         /\ EntriesOf(pending)' = EntriesOf(pending) \cup {e}
  BY AppendOnce DEF MailTyped, AppendPending, Box

\* Copies that changed hands, or were put off once more.
LEMMA GrowKept ==
  ASSUME Types, Grow, UNCHANGED tokens,
         \A e : Copy(e)' => \E d : /\ Copy(d) /\ d.msg = e.msg /\ d.defers \in Nat
                                   /\ e.defers \in Nat /\ d.defers <= e.defers
  PROVE  Grow'
  <1> SUFFICES ASSUME NEW m \in Msgs, NEW n \in Nat, <<m, n>> \in tokens,
                      NEW e, Copy(e)', e.msg = m
               PROVE  e.defers >= n
    BY DEF Grow
  <1>1. PICK d : /\ Copy(d) /\ d.msg = e.msg /\ d.defers \in Nat
                 /\ e.defers \in Nat /\ d.defers <= e.defers
    OBVIOUS
  <1>2. d.defers >= n
    BY <1>1 DEF Grow
  <1> QED BY <1>1, <1>2

LEMMA CopyTyped ==
  ASSUME Types, NEW e, Copy(e)
  PROVE  e \in Entry /\ e.defers \in Nat /\ e.msg \in Msgs
  <1>1. e \in Entry
    <2>1. CASE e \in EntriesOf(pending)
      BY <2>1 DEF Types, MailTyped, EntriesOf
    <2>2. ASSUME NEW j \in Jobs, e \in EntriesOf(Held(j)) PROVE e \in Entry
      BY <2>2, HeldTyped DEF Types, EntriesOf
    <2>3. ASSUME NEW m \in Off, e = resume[m].entry PROVE e \in Entry
      BY <2>3 DEF Types, FlowTyped, Off
    <2> QED BY <2>1, <2>2, <2>3 DEF Copy
  <1> QED BY <1>1 DEF Entry

LEMMA ResumesKept ==
  ASSUME Resumes, UNCHANGED <<resume, tokens>>, New' \subseteq New
  PROVE  Resumes'
  BY DEF Resumes, New

-----------------------------------------------------------------------------
(* One step after the other *)

\* What every step but a reboot does: nothing placed is lost, but for the
\* message of a defer_resume job that BullMQ gave up.
Safe == Custody' /\ Placed \subseteq Placed' \cup cut'

\* Nothing that custody is about changes.
LEMMA Unmoved ==
  ASSUME Types, Custody, UNCHANGED <<pending, tokens, resume, settled>>, New' = New,
         \A j \in Jobs : run'[j].work = run[j].work
  PROVE  Safe
  <1>1. /\ Box' = Box /\ Off' = Off /\ Done' = Done
        /\ \A j \in Jobs : Held(j)' = Held(j) /\ Hand(j)' = Hand(j)
    BY HandsSame, OffSame DEF Box, Done
  <1>2. Singly' /\ Apart'
    BY <1>1 DEF Custody, Singly, Apart
  <1>3. Resumes'
    BY ResumesKept DEF Custody
  <1>4. Grow'
    BY <1>1 DEF Custody, Grow, Copy
  <1>5. Placed' = Placed
    BY <1>1 DEF Placed
  <1> QED BY <1>2, <1>3, <1>4, <1>5 DEF Safe, Custody

LEMMA StoreSafe ==
  ASSUME Types, Custody, NEW m \in Msgs, Store(m)
  PROVE  Safe
  <1>1. /\ AppendPending(FreshEntry(m)) /\ ingress' = [ingress EXCEPT ![m] = "stored"]
        /\ ingress[m] = "append"
        /\ UNCHANGED <<tokens, resume, settled, run>>
    BY DEF Store, turnVars
  <1>2. m \in New /\ New' = New \ {m}
    BY <1>1, SMTT(30) DEF New, Types, FlowTyped
  <1>3. FreshEntry(m) \in Entry /\ FreshEntry(m).msg = m /\ m \notin Box
    BY <1>2, EntriesTyped DEF Custody, Apart
  <1>4. /\ Box' = Box \cup {m} /\ Once(pending)'
        /\ EntriesOf(pending)' = EntriesOf(pending) \cup {FreshEntry(m)}
    BY <1>1, <1>3, AppendBox DEF Types, Custody, Singly
  <1>5. /\ Off' = Off /\ Done' = Done
        /\ \A j \in Jobs : Held(j)' = Held(j) /\ Hand(j)' = Hand(j)
    BY <1>1, HandsSame, OffSame DEF Done
  <1>6. Singly' /\ Apart'
    BY <1>2, <1>4, <1>5 DEF Custody, Singly, Apart
  <1>7. Resumes'
    BY <1>1, <1>2, ResumesKept DEF Custody
  <1>8. Grow'
    <2> SUFFICES ASSUME NEW n \in Msgs, NEW k \in Nat, <<n, k>> \in tokens,
                        NEW e, Copy(e)', e.msg = n
                 PROVE  e.defers >= k
      BY <1>1 DEF Grow
    <2>1. CASE Copy(e)
      BY <2>1 DEF Custody, Grow
    <2>2. CASE ~Copy(e)
      <3>1. e = FreshEntry(m)
        BY <1>1, <1>4, <1>5, <2>2 DEF Copy
      <3>2. <<m, k>> \notin tokens
        BY <1>2 DEF Custody, Resumes
      <3> QED BY <1>3, <3>1, <3>2
    <2> QED BY <2>1, <2>2
  <1>9. Placed \subseteq Placed'
    BY <1>4, <1>5 DEF Placed
  <1> QED BY <1>1, <1>6, <1>7, <1>8, <1>9 DEF Safe, Custody

\* A job injects its entry unless it has done so before.
LEMMA ResumeFiresSafe ==
  ASSUME Types, Custody, NEW m \in Msgs, ResumeFires(m)
  PROVE  Safe
  <1> DEFINE e == resume[m].entry
             token == <<m, e.defers>>
  <1>1. /\ resume[m].at = "picked" /\ resume' = [resume EXCEPT ![m].at = "call"]
        /\ ReinjectDefer(token, e)
        /\ UNCHANGED <<ingress, settled, run>>
    BY DEF ResumeFires, turnVars
  <1>2. /\ e \in Entry /\ e.defers \in Nat /\ e.msg = m
        /\ resume'[m].at = "call" /\ resume'[m].entry = e
        /\ \A n \in Msgs \ {m} : resume'[n] = resume[n]
    <2>1. resume[m] \in [at : ResumeSteps, entry : Entry]
      BY DEF Types, FlowTyped
    <2>2. e.msg = m
      BY DEF Custody, Resumes
    <2> QED BY <1>1, <2>1, <2>2 DEF Types, FlowTyped, Entry
  <1> HIDE DEF e
  <1>3. /\ New' = New /\ Done' = Done
        /\ \A j \in Jobs : Held(j)' = Held(j) /\ Hand(j)' = Hand(j)
    BY <1>1, HandsSame DEF New, Done
  <1>4. m \notin New
    BY <1>1 DEF Custody, Resumes
  <1>5. CASE token \in tokens
    <2>1. UNCHANGED <<pending, tokens>>
      BY <1>1, <1>5 DEF ReinjectDefer
    <2>2. Off' = Off
      <3>1. ~PutOff(m)' /\ ~PutOff(m)
        BY <1>2, <1>5 DEF PutOff, e
      <3>2. \A n \in Msgs \ {m} : PutOff(n)' = PutOff(n)
        BY <1>2, <2>1 DEF PutOff
      <3> QED BY <3>1, <3>2 DEF Off
    <2>3. Box' = Box /\ EntriesOf(pending)' = EntriesOf(pending)
      BY <2>1 DEF Box, EntriesOf
    <2>4. Singly' /\ Apart'
      BY <1>3, <2>1, <2>2, <2>3 DEF Custody, Singly, Apart
    <2>5. Resumes'
      BY <1>2, <1>3, <1>4, <1>5, <2>1 DEF Custody, Resumes
    <2>6. Grow'
      <3>1. \A n \in Off : n \in Msgs \ {m}
        BY <1>2, <1>5 DEF Off, PutOff, e
      <3>2. \A d : Copy(d)' => Copy(d)
        BY <1>2, <1>3, <2>2, <2>3, <3>1 DEF Copy
      <3> QED BY <2>1, <3>2 DEF Custody, Grow
    <2> QED BY <1>1, <1>3, <2>2, <2>3, <2>4, <2>5, <2>6 DEF Safe, Custody, Placed
  <1>6. CASE token \notin tokens
    <2>1. AppendPending(e) /\ tokens' = tokens \cup {token}
      BY <1>1, <1>6 DEF ReinjectDefer
    <2>2. m \in Off /\ Off' = Off \ {m}
      <3>1. PutOff(m) /\ ~PutOff(m)'
        BY <1>1, <1>2, <1>6 DEF PutOff, e
      <3>2. ASSUME NEW n \in Msgs \ {m} PROVE PutOff(n)' = PutOff(n)
        <4>1. <<n, resume[n].entry.defers>> # token
          OBVIOUS
        <4>2. <<n, resume[n].entry.defers>> \in tokens' <=> <<n, resume[n].entry.defers>> \in tokens
          BY <2>1, <4>1
        <4> QED BY <1>2, <4>2 DEF PutOff
      <3> QED BY <3>1, <3>2 DEF Off
    <2>3. m \notin Box /\ \A j \in Jobs : m \notin Hand(j)
      BY <2>2 DEF Custody, Apart
    <2>4. /\ Box' = Box \cup {m} /\ Once(pending)'
          /\ EntriesOf(pending)' = EntriesOf(pending) \cup {e}
      BY <1>2, <2>1, <2>3, AppendBox DEF Types, Custody, Singly
    <2>5. Singly' /\ Apart'
      BY <1>3, <2>2, <2>4 DEF Custody, Singly, Apart
    <2>6. Resumes'
      <3>1. \A n \in Msgs : n \in New => n # m
        BY <1>4
      <3>2. \A n \in Msgs \ {m}, k \in Nat : <<n, k>> # token
        OBVIOUS
      <3> QED BY <1>2, <1>3, <2>1, <3>1, <3>2 DEF Custody, Resumes
    <2>7. Grow'
      <3> SUFFICES ASSUME NEW n \in Msgs, NEW k \in Nat, <<n, k>> \in tokens',
                          NEW d, Copy(d)', d.msg = n
                   PROVE  d.defers >= k
        BY DEF Grow
      <3>1. Copy(e)
        BY <2>2 DEF Copy, e
      <3>2. Copy(d) \/ d = e
        <4>1. \A x \in Off' : x \in Off /\ x \in Msgs \ {m}
          BY <2>2 DEF Off
        <4> QED BY <1>2, <1>3, <2>4, <4>1 DEF Copy
      <3>3. CASE n = m
        <4>1. d = e
          <5>1. d \notin EntriesOf(pending) /\ \A j \in Jobs : d \notin EntriesOf(Held(j))
            BY <2>3, <3>3 DEF Box, Hand, MsgsOf, EntriesOf
          <5>2. ASSUME NEW x \in Off, d = resume[x].entry PROVE x = m
            <6>1. resume[x].entry.msg = x
              BY <5>2 DEF Custody, Resumes, Off
            <6> QED BY <3>3, <5>2, <6>1
          <5> QED BY <3>2, <5>1, <5>2 DEF Copy, e
        <4>2. <<m, k>> \in tokens => e.defers >= k
          BY <1>2, <3>1 DEF Custody, Grow
        <4> QED BY <1>2, <2>1, <3>3, <4>1, <4>2
      <3>4. CASE n # m
        <4>1. Copy(d) /\ <<n, k>> \in tokens
          BY <1>2, <2>1, <3>2, <3>4
        <4> QED BY <4>1 DEF Custody, Grow
      <3> QED BY <3>3, <3>4
    <2> QED BY <1>1, <1>3, <2>2, <2>4, <2>5, <2>6, <2>7 DEF Safe, Custody, Placed
  <1> QED BY <1>5, <1>6

\* A job that is picked, fails or is given back keeps its entry; its token tells
\* whether it was injected.
LEMMA ResumeMovesSafe ==
  ASSUME Types, Custody, NEW m \in Msgs, resume[m].at # "none",
         NEW step \in {"picked", "delayed"}, resume' = [resume EXCEPT ![m].at = step],
         UNCHANGED <<pending, tokens, settled, run, ingress>>
  PROVE  Safe
  <1>1. /\ resume'[m].at = step /\ resume'[m].entry = resume[m].entry
        /\ \A n \in Msgs \ {m} : resume'[n] = resume[n]
    BY ResumeStepTyped DEF Types, ResumeSteps
  <1>2. Off' = Off
    <2>1. resume[m].at \in ResumeSteps
      BY DEF Types, FlowTyped
    <2>2. PutOff(m)' <=> PutOff(m)
      BY <1>1, <2>1 DEF PutOff, ResumeSteps, Custody, Resumes
    <2>3. ASSUME NEW n \in Msgs \ {m} PROVE PutOff(n)' <=> PutOff(n)
      BY <1>1 DEF PutOff
    <2> QED BY <2>2, <2>3 DEF Off
  <1>3. /\ Box' = Box /\ Done' = Done /\ New' = New /\ EntriesOf(pending)' = EntriesOf(pending)
        /\ \A j \in Jobs : Held(j)' = Held(j) /\ Hand(j)' = Hand(j)
    BY HandsSame DEF Box, Done, New, EntriesOf
  <1>4. Singly' /\ Apart' /\ Placed' = Placed
    BY <1>2, <1>3 DEF Custody, Singly, Apart, Placed
  <1>5. Resumes'
    BY <1>1, <1>3 DEF Custody, Resumes
  <1>6. Grow'
    <2>1. \A n \in Off : resume'[n].entry = resume[n].entry
      BY <1>1 DEF Off
    <2>2. \A d : Copy(d)' => Copy(d)
      BY <1>2, <1>3, <2>1 DEF Copy
    <2> QED BY <2>2 DEF Custody, Grow
  <1> QED BY <1>4, <1>5, <1>6 DEF Safe, Custody

\* What a job that ends has not injected is gone.
LEMMA ResumeEnds ==
  ASSUME Types, Custody, NEW m \in Msgs, resume' = [resume EXCEPT ![m] = NoResume(m)],
         UNCHANGED <<pending, tokens, settled, run, ingress>>
  PROVE  Custody' /\ Placed \subseteq Placed' \cup (Off \cap {m})
  <1>1. /\ resume'[m].at = "none" /\ resume'[m].entry.msg = m
        /\ \A n \in Msgs \ {m} : resume'[n] = resume[n]
    BY EntriesTyped DEF Types, FlowTyped, NoResume
  <1>2. Off' = Off \ {m}
    <2>1. ~PutOff(m)'
      BY <1>1 DEF PutOff
    <2>2. ASSUME NEW n \in Msgs \ {m} PROVE PutOff(n)' <=> PutOff(n)
      BY <1>1 DEF PutOff
    <2> QED BY <2>1, <2>2 DEF Off
  <1>3. /\ Box' = Box /\ Done' = Done /\ New' = New /\ EntriesOf(pending)' = EntriesOf(pending)
        /\ \A j \in Jobs : Held(j)' = Held(j) /\ Hand(j)' = Hand(j)
    BY HandsSame DEF Box, Done, New, EntriesOf
  <1>4. Singly' /\ Apart' /\ Placed \subseteq Placed' \cup (Off \cap {m})
    BY <1>2, <1>3 DEF Custody, Singly, Apart, Placed
  <1>5. Resumes'
    <2>1. ASSUME NEW n \in Msgs
          PROVE  /\ resume'[n].entry.msg = n
                 /\ resume'[n].at = "call" => <<n, resume'[n].entry.defers>> \in tokens'
                 /\ n \in New' => resume'[n].at = "none" /\ \A k \in Nat : <<n, k>> \notin tokens'
      <3>1. CASE n = m
        BY <1>1, <1>3, <3>1 DEF Custody, Resumes
      <3>2. CASE n # m
        BY <1>1, <1>3, <3>2 DEF Custody, Resumes
      <3> QED BY <3>1, <3>2
    <2> QED BY <2>1 DEF Resumes
  <1>6. Grow'
    <2>1. \A n \in Off' : n \in Off /\ resume'[n].entry = resume[n].entry
      BY <1>1, <1>2 DEF Off
    <2>2. \A d : Copy(d)' => Copy(d)
      BY <1>3, <2>1 DEF Copy
    <2> QED BY <2>2 DEF Custody, Grow
  <1> QED BY <1>4, <1>5, <1>6 DEF Custody

LEMMA ResumeDoneSafe ==
  ASSUME Types, Custody, NEW m \in Msgs, ResumeDone(m)
  PROVE  Safe
  <1>1. /\ resume[m].at = "call" /\ resume' = [resume EXCEPT ![m] = NoResume(m)]
        /\ UNCHANGED <<pending, tokens, settled, run, ingress>>
    BY DEF ResumeDone, bufferVars, turnVars
  <1>2. m \notin Off
    BY <1>1 DEF Off, PutOff
  <1> QED BY <1>1, <1>2, ResumeEnds DEF Safe

LEMMA ResumeGivenUpSafe ==
  ASSUME Types, Custody, NEW m \in Msgs, ResumeGivenUp(m),
         UNCHANGED <<pending, tokens, settled, run, ingress>>
  PROVE  Safe
  <1>1. resume' = [resume EXCEPT ![m] = NoResume(m)] /\ m \in cut'
    BY DEF ResumeGivenUp, Custody, Resumes
  <1> QED BY <1>1, ResumeEnds DEF Safe

LEMMA ResumeTroubleSafe ==
  ASSUME Types, WakeInv, Custody, NEW m \in Msgs, ResumePick(m) \/ ResumeTrouble(m)
  PROVE  Safe
  <1>1. UNCHANGED <<pending, tokens, settled, run, ingress>>
    BY DEF ResumePick, ResumeTrouble, ResumeThrows, ResumeStalls, ResumeFailStalled,
           bufferVars, turnVars
  <1>2. \/ ResumeGivenUp(m)
        \/ /\ resume[m].at # "none"
           /\ \E step \in {"picked", "delayed"} : resume' = [resume EXCEPT ![m].at = step]
    BY DEF ResumePick, ResumeTrouble, ResumeThrows, ResumeStalls, ResumeFailStalled,
           WakeInv, Aligned, ResumesAligned
  <1> QED BY <1>1, <1>2, ResumeGivenUpSafe, ResumeMovesSafe

\* A process that dies leaves its defer_resume jobs as they are.
LEMMA OrphansOff ==
  ASSUME Types, Custody, Reboot, New' \subseteq New
  PROVE  Off' = Off /\ Resumes' /\ \A m \in Off : m \in Msgs /\ resume'[m].entry = resume[m].entry
  <1>1. ASSUME NEW m \in Msgs
        PROVE  /\ resume'[m].entry = resume[m].entry
               /\ \/ resume'[m].at = resume[m].at
                  \/ resume'[m].at = "orphan" /\ resume[m].at \in {"picked", "call"}
    BY ResumesOrphaned DEF Types
  <1>2. tokens' = tokens
    BY DEF Reboot, bufferVars
  <1>3. ASSUME NEW m \in Msgs PROVE PutOff(m)' <=> PutOff(m)
    BY <1>1, <1>2 DEF PutOff, Custody, Resumes
  <1>4. Off' = Off
    BY <1>3 DEF Off
  <1>5. Resumes'
    BY <1>1, <1>2 DEF Custody, Resumes
  <1> QED BY <1>1, <1>4, <1>5 DEF Off

\* What a turn held dies with it.
LEMMA RebootCustody ==
  ASSUME Types, WakeInv, Custody, Reboot
  PROVE  /\ Custody'
         /\ Box' = Box /\ Off' = Off /\ Done' = Done
  <1>1. /\ UNCHANGED <<pending, tokens, settled>>
        /\ run' = [j \in Jobs |-> OffRun]
        /\ ingress' = [m \in Msgs |-> IF InFlight(m) THEN "stored" ELSE ingress[m]]
    BY DEF Reboot, bufferVars
  <1>2. \A j \in Jobs : Held(j)' = <<>> /\ Hand(j)' = {}
    <2>1. \A j \in Jobs : run'[j].work = <<>>
      BY <1>1 DEF OffRun
    <2>2. Entries(<<>>) = <<>>
      BY DEF Entries
    <2> QED BY <2>1, <2>2, EmptyOnce DEF Held, Hand
  <1>3. New' \subseteq New
    BY <1>1 DEF New, Types, FlowTyped
  <1>4. Box' = Box /\ Done' = Done /\ EntriesOf(pending)' = EntriesOf(pending)
    BY <1>1 DEF Box, Done, EntriesOf
  <1>5. /\ Off' = Off /\ Resumes'
        /\ \A m \in Off : resume'[m].entry = resume[m].entry
    BY <1>3, OrphansOff
  <1>6. Apart'
    BY <1>2, <1>3, <1>4, <1>5 DEF Custody, Apart
  <1>7. Singly'
    BY <1>1, <1>2, EmptyOnce DEF Custody, Singly
  <1>8. Grow'
    <2>1. \A d : Copy(d)' => Copy(d)
      BY <1>2, <1>4, <1>5, EmptyOnce DEF Copy
    <2> QED BY <1>1, <2>1 DEF Custody, Grow
  <1> QED BY <1>1, <1>4, <1>5, <1>6, <1>7, <1>8 DEF Custody

-----------------------------------------------------------------------------
(* What a turn does with the entry it is at *)

\* The head leaves the hands of the turn; everybody else's stay as they are.
HeadLeft(j) ==
    /\ run[j].work # <<>> /\ run'[j].work = Tail(run[j].work)
    /\ \A i \in Jobs \ {j} : run'[i] = run[i]
    /\ UNCHANGED ingress

LEMMA HeadLeftIs ==
  ASSUME Types, Custody, NEW j \in Jobs, HeadLeft(j)
  PROVE  /\ Current(j) \in Entry /\ Current(j).msg \in Msgs /\ Current(j).defers \in Nat
         /\ Current(j) \in EntriesOf(Held(j)) /\ Current(j).msg \in Hand(j)
         /\ Hand(j)' = Hand(j) \ {Current(j).msg} /\ Once(Held(j))'
         /\ EntriesOf(Held(j))' \subseteq EntriesOf(Held(j))
         /\ New' = New
         /\ \A i \in Jobs \ {j} : Held(i)' = Held(i) /\ Hand(i)' = Hand(i)
         /\ \A i \in Jobs : Once(Held(i))' /\ EntriesOf(Held(i))' \subseteq EntriesOf(Held(i))
  <1>1. /\ Current(j).msg \in Hand(j) /\ Hand(j)' = Hand(j) \ {Current(j).msg}
        /\ Once(Held(j))' /\ Current(j) \in EntriesOf(Held(j))
        /\ EntriesOf(Held(j))' \subseteq EntriesOf(Held(j))
    BY HeadLeaves DEF HeadLeft, Types, Custody, Singly
  <1>2. Current(j) \in Entry /\ Current(j).msg \in Msgs /\ Current(j).defers \in Nat
    BY CurrentIs DEF HeadLeft, Types, Entry
  <1>3. \A i \in Jobs \ {j} : Held(i)' = Held(i) /\ Hand(i)' = Hand(i)
    BY HandsSame DEF HeadLeft
  <1>4. New' = New
    BY DEF HeadLeft, New
  <1>5. ASSUME NEW i \in Jobs
        PROVE  Once(Held(i))' /\ EntriesOf(Held(i))' \subseteq EntriesOf(Held(i))
    <2>1. CASE i = j
      BY <1>1, <2>1
    <2>2. CASE i # j
      <3>1. Held(i)' = Held(i) /\ Once(Held(i))
        BY <1>3, <2>2 DEF Custody, Singly
      <3> QED BY <3>1 DEF EntriesOf, Once
    <2> QED BY <2>1, <2>2
  <1> QED BY <1>1, <1>2, <1>3, <1>4, <1>5

LEMMA HeadSettled ==
  ASSUME Types, Custody, NEW j \in Jobs, HeadLeft(j), Settle(Current(j).msg),
         UNCHANGED <<pending, tokens, resume>>
  PROVE  Safe
  <1> DEFINE m == Current(j).msg
  <1>1. /\ m \in Msgs /\ m \in Hand(j) /\ Hand(j)' = Hand(j) \ {m} /\ New' = New
        /\ \A i \in Jobs \ {j} : Hand(i)' = Hand(i)
        /\ \A i \in Jobs : Once(Held(i))' /\ EntriesOf(Held(i))' \subseteq EntriesOf(Held(i))
    BY HeadLeftIs
  <1>2. m \notin Done
    BY <1>1 DEF Custody, Apart
  <1>3. settled' \in [Msgs -> {0, 1}] /\ Done' = Done \cup {m}
    BY <1>1, <1>2, SettleIs DEF Custody
  <1>4. Box' = Box /\ Off' = Off /\ EntriesOf(pending)' = EntriesOf(pending)
    BY OffSame DEF Box, EntriesOf
  <1> HIDE DEF m
  <1>5. Apart'
    BY <1>1, <1>3, <1>4 DEF Custody, Apart
  <1>6. Singly'
    BY <1>1 DEF Custody, Singly
  <1>7. Resumes'
    BY <1>1, ResumesKept DEF Custody
  <1>8. Grow'
    <2>1. \A d : Copy(d)' => Copy(d)
      BY <1>1, <1>4 DEF Copy
    <2> QED BY <2>1 DEF Custody, Grow
  <1>9. Placed \subseteq Placed'
    BY <1>1, <1>3, <1>4 DEF Placed
  <1> QED BY <1>3, <1>5, <1>6, <1>7, <1>8, <1>9 DEF Safe, Custody

LEMMA HeadPutBack ==
  ASSUME Types, Custody, NEW j \in Jobs, HeadLeft(j), NEW e \in Entry, AppendPending(e),
         e.msg = Current(j).msg, e.defers >= Current(j).defers,
         UNCHANGED <<tokens, resume, settled>>
  PROVE  Safe
  <1> DEFINE m == Current(j).msg
  <1>1. /\ m \in Msgs /\ m \in Hand(j) /\ Hand(j)' = Hand(j) \ {m} /\ New' = New
        /\ Current(j) \in EntriesOf(Held(j)) /\ Current(j).defers \in Nat
        /\ \A i \in Jobs \ {j} : Hand(i)' = Hand(i)
        /\ \A i \in Jobs : Once(Held(i))' /\ EntriesOf(Held(i))' \subseteq EntriesOf(Held(i))
    BY HeadLeftIs
  <1>2. m \notin Box
    BY <1>1 DEF Custody, Apart
  <1>3. Box' = Box \cup {m} /\ Once(pending)' /\ EntriesOf(pending)' = EntriesOf(pending) \cup {e}
    BY <1>2, AppendBox DEF Types, Custody, Singly
  <1>4. Done' = Done /\ Off' = Off
    BY OffSame DEF Done
  <1>5. e.defers \in Nat
    BY DEF Entry
  <1> HIDE DEF m
  <1>6. Apart'
    BY <1>1, <1>3, <1>4 DEF Custody, Apart
  <1>7. Singly'
    BY <1>1, <1>3 DEF Custody, Singly
  <1>8. Resumes'
    BY <1>1, ResumesKept DEF Custody
  <1>9. Grow'
    <2>1. ASSUME NEW d, Copy(d)'
          PROVE  \E f : /\ Copy(f) /\ f.msg = d.msg /\ f.defers \in Nat
                        /\ d.defers \in Nat /\ f.defers <= d.defers
      <3>1. Copy(d) \/ d = e
        BY <1>1, <1>3, <1>4, <2>1 DEF Copy
      <3>2. CASE Copy(d)
        <4>1. d.defers \in Nat
          BY <3>2, CopyTyped
        <4> QED BY <3>2, <4>1
      <3>3. CASE d = e
        <4>1. Copy(Current(j))
          BY <1>1 DEF Copy
        <4> QED BY <1>1, <1>5, <3>3, <4>1
      <3> QED BY <3>1, <3>2, <3>3
    <2> QED BY <2>1, GrowKept DEF Custody
  <1>10. Placed \subseteq Placed'
    BY <1>1, <1>3, <1>4 DEF Placed
  <1> QED BY <1>6, <1>7, <1>8, <1>9, <1>10 DEF Safe, Custody

LEMMA HeadDeferred ==
  ASSUME Types, Custody, NEW j \in Jobs, HeadLeft(j), HasDeferBudget(Current(j)),
         resume' = [resume EXCEPT ![Current(j).msg] =
                      [at |-> "delayed", entry |-> DeferredEntry(Current(j))]],
         UNCHANGED <<pending, tokens, settled>>
  PROVE  Safe
  <1> DEFINE e == DeferredEntry(Current(j))
  <1>0. PICK m \in Msgs : m = Current(j).msg
    BY HeadLeftIs
  <1>1. /\ m \in Hand(j) /\ Hand(j)' = Hand(j) \ {m} /\ New' = New
        /\ Current(j) \in Entry /\ Current(j) \in EntriesOf(Held(j)) /\ Current(j).defers \in Nat
        /\ \A i \in Jobs \ {j} : Hand(i)' = Hand(i)
        /\ \A i \in Jobs : Once(Held(i))' /\ EntriesOf(Held(i))' \subseteq EntriesOf(Held(i))
    BY <1>0, HeadLeftIs
  <1>2. e \in Entry /\ e.msg = m /\ e.defers = Current(j).defers + 1
    BY <1>0, <1>1, EntriesTyped
  <1>3. m \notin New /\ m \notin Off
    BY <1>1 DEF Custody, Apart
  <1>4. /\ resume'[m].at = "delayed" /\ resume'[m].entry = e
        /\ \A n \in Msgs \ {m} : resume'[n] = resume[n]
    BY <1>0 DEF Types, FlowTyped
  <1>5. Copy(Current(j))
    BY <1>1 DEF Copy
  <1>6. <<m, e.defers>> \notin tokens
    <2> SUFFICES ASSUME <<m, e.defers>> \in tokens PROVE FALSE
      OBVIOUS
    <2>1. e.defers \in Nat
      BY <1>1, <1>2
    <2>2. Current(j).defers >= e.defers
      BY <1>0, <1>5, <2>1 DEF Custody, Grow
    <2> QED BY <1>1, <1>2, <2>2
  <1> HIDE DEF e
  <1>7. Off' = Off \cup {m}
    <2>1. PutOff(m)'
      BY <1>4, <1>6 DEF PutOff
    <2>2. \A n \in Msgs \ {m} : PutOff(n)' = PutOff(n)
      BY <1>4 DEF PutOff
    <2> QED BY <1>1, <2>1, <2>2 DEF Off
  <1>8. Box' = Box /\ Done' = Done /\ EntriesOf(pending)' = EntriesOf(pending)
    BY DEF Box, Done, EntriesOf
  <1>9. Apart'
    BY <1>1, <1>7, <1>8 DEF Custody, Apart
  <1>10. Singly'
    BY <1>1 DEF Custody, Singly
  <1>11. Resumes'
    BY <1>1, <1>2, <1>3, <1>4 DEF Custody, Resumes
  <1>12. Grow'
    <2>1. ASSUME NEW d, Copy(d)'
          PROVE  \E f : /\ Copy(f) /\ f.msg = d.msg /\ f.defers \in Nat
                        /\ d.defers \in Nat /\ f.defers <= d.defers
      <3>1. Copy(d) \/ d = e
        <4>1. ASSUME NEW n \in Off', d = resume'[n].entry PROVE Copy(d) \/ d = e
          <5>1. n = m \/ (n \in Off /\ n \in Msgs \ {m})
            BY <1>7, <4>1 DEF Off
          <5> QED BY <1>4, <4>1, <5>1 DEF Copy
        <4> QED BY <1>1, <1>8, <2>1, <4>1 DEF Copy
      <3>2. CASE Copy(d)
        <4>1. d.defers \in Nat
          BY <3>2, CopyTyped
        <4> QED BY <3>2, <4>1
      <3>3. CASE d = e
        BY <1>0, <1>1, <1>2, <1>5, <3>3
      <3> QED BY <3>1, <3>2, <3>3
    <2> QED BY <2>1, GrowKept DEF Custody
  <1>13. Placed \subseteq Placed'
    BY <1>1, <1>7, <1>8 DEF Placed
  <1> QED BY <1>9, <1>10, <1>11, <1>12, <1>13 DEF Safe, Custody

-----------------------------------------------------------------------------
(* Taking the mailbox *)

LEMMA MsgsOfEntries ==
  ASSUME NEW s
  PROVE  /\ \A e \in EntriesOf(s) : e.msg \in MsgsOf(s)
         /\ \A m \in MsgsOf(s) : \E e \in EntriesOf(s) : e.msg = m
         /\ Once(s) => \A d, e \in EntriesOf(s) : d.msg = e.msg => d = e
  BY DEF EntriesOf, MsgsOf, Once

\* Of an entry that is digested away there is one copy, and it counts once.
LEMMA GoneCounted ==
  ASSUME NEW m, NEW gone, \A d, e \in gone : d.msg = e.msg => d = e
  PROVE  /\ (\E e \in gone : e.msg = m) => Cardinality({e \in gone : e.msg = m}) = 1
         /\ ~(\E e \in gone : e.msg = m) => Cardinality({e \in gone : e.msg = m}) = 0
  <1> DEFINE mine == {e \in gone : e.msg = m}
  <1>1. CASE \E e \in gone : e.msg = m
    <2>1. PICK e \in gone : e.msg = m
      BY <1>1
    <2>2. mine = {e}
      BY <2>1
    <2>3. Cardinality({e}) = 1
      BY FS_Singleton
    <2>4. Cardinality(mine) = 1
      BY <2>2, <2>3, Zenon
    <2> QED BY <1>1, <2>4
  <1>2. CASE ~(\E e \in gone : e.msg = m)
    <2>1. mine = {}
      BY <1>2
    <2>2. Cardinality({}) = 0
      BY FS_EmptySet
    <2>3. Cardinality(mine) = 0
      BY <2>1, <2>2, Zenon
    <2> QED BY <1>2, <2>3
  <1> QED BY <1>1, <1>2

\* What is digested is in the hands of the turn, what is not is settled.
LEMMA DrainSafe ==
  ASSUME Types, Custody, NEW j \in Jobs, Drain(j), pending # <<>>
  PROVE  Safe
  <1> DEFINE es == Digested(pending)
             gone == EntriesOf(pending) \ EntriesOf(es)
  <1>1. PICK suppression \in SuppressionNow :
          run' = [run EXCEPT ![j].at = "work", ![j].work = Plan(pending, suppression)]
    BY DEF Drain
  <1>2. /\ pending' = <<>> /\ run[j].work = <<>>
        /\ UNCHANGED <<tokens, resume, ingress>>
        /\ settled' = [m \in Msgs |-> settled[m] + Cardinality({e \in gone : e.msg = m})]
    BY DEF Drain, DrainPending, flowVars, Types, WorkInv
  <1>3. /\ es \in Seq(Entry) /\ Once(es)
        /\ EntriesOf(es) \subseteq EntriesOf(pending) /\ MsgsOf(es) \subseteq Box
        /\ \A i \in DOMAIN pending : pending[i].msg \in MsgsOf(es) => pending[i] \in EntriesOf(es)
    <2>1. es \in Seq(Entry) /\ Thins(es, pending)
      BY DigestedThins DEF Types, MailTyped
    <2> HIDE DEF es
    <2> QED BY <2>1, ThinsOnce DEF Types, MailTyped, Custody, Singly, Box
  <1>4. PICK w : w = Plan(pending, suppression)
    OBVIOUS
  <1>5. /\ w \in Seq(Item) /\ DOMAIN w = DOMAIN es
        /\ \A i \in DOMAIN es : w[i].entry = es[i]
    BY <1>4, PlanTyped, SMTT(30) DEF Types, MailTyped
  <1> HIDE DEF es
  <1>6. /\ run'[j].work = w /\ \A i \in Jobs \ {j} : run'[i] = run[i]
    BY <1>1, <1>4, <1>5, WorkRun, ZenonT(30) DEF Types, RunSteps
  <1>7. Entries(w) = es
    <2>1. DOMAIN es = 1..Len(es) /\ Len(es) \in Nat /\ es = [i \in 1..Len(es) |-> es[i]]
      BY <1>3
    <2>2. Entries(w) = [i \in 1..Len(es) |-> w[i].entry]
      BY <1>5, <2>1 DEF Entries
    <2>3. \A i \in 1..Len(es) : w[i].entry = es[i]
      BY <1>5, <2>1
    <2> HIDE DEF es
    <2> QED BY <2>1, <2>2, <2>3
  <1>8. /\ Held(j)' = es /\ Hand(j)' = MsgsOf(es) /\ Hand(j) = {}
        /\ \A i \in Jobs \ {j} : Held(i)' = Held(i) /\ Hand(i)' = Hand(i)
    <2>1. Held(j)' = es /\ Hand(j)' = MsgsOf(es)
      BY <1>6, <1>7 DEF Held, Hand
    <2>2. Entries(<<>>) = <<>>
      BY DEF Entries
    <2>3. Hand(j) = {}
      BY <1>2, <2>2, EmptyOnce DEF Held, Hand
    <2> QED BY <1>6, <2>1, <2>3, HandsSame
  <1>9. Box' = {} /\ Once(pending)' /\ EntriesOf(pending)' = {} /\ Off' = Off /\ New' = New
    BY <1>2, EmptyOnce, OffSame DEF Box, New
  <1>10. /\ \A d, e \in EntriesOf(pending) : d.msg = e.msg => d = e
         /\ Box \subseteq Msgs
         /\ \A m \in Box : \E e \in EntriesOf(pending) : e.msg = m
         /\ \A e \in EntriesOf(pending) : e.msg \in Box
         /\ \A m \in MsgsOf(es) : \E e \in EntriesOf(es) : e.msg = m
         /\ \A e \in EntriesOf(es) : e.msg \in MsgsOf(es)
    <2>1. \A i \in DOMAIN pending : pending[i] \in Entry
      BY DEF Types, MailTyped
    <2>2. Box \subseteq Msgs
      BY <2>1 DEF Box, MsgsOf, Entry
    <2> QED BY <2>2, MsgsOfEntries DEF Custody, Singly, Box
  <1>11. ASSUME NEW m \in Msgs
         PROVE  settled'[m] = settled[m] + (IF m \in Box \ MsgsOf(es) THEN 1 ELSE 0)
    <2>1. /\ (\E e \in gone : e.msg = m) => Cardinality({e \in gone : e.msg = m}) = 1
          /\ ~(\E e \in gone : e.msg = m) => Cardinality({e \in gone : e.msg = m}) = 0
      <3>1. \A d, e \in gone : d.msg = e.msg => d = e
        BY <1>10
      <3> HIDE DEF gone
      <3> QED BY <3>1, GoneCounted
    <2>2. (\E e \in gone : e.msg = m) <=> m \in Box \ MsgsOf(es)
      BY <1>3, <1>10
    <2>3. settled'[m] = settled[m] + Cardinality({e \in gone : e.msg = m})
      BY <1>2, Zenon
    <2> HIDE DEF gone
    <2> QED BY <2>1, <2>2, <2>3
  <1>12. settled' \in [Msgs -> {0, 1}] /\ Done' = Done \cup (Box \ MsgsOf(es))
    <2>1. ASSUME NEW m \in Msgs PROVE settled[m] \in {0, 1} /\ (m \in Done <=> settled[m] = 1)
      BY DEF Custody, Done
    <2>2. Box \cap Done = {}
      BY DEF Custody, Apart
    <2>3. ASSUME NEW m \in Msgs
          PROVE  /\ settled'[m] \in {0, 1}
                 /\ settled'[m] = 1 <=> m \in Done \cup (Box \ MsgsOf(es))
      BY <1>11, <2>1, <2>2
    <2>4. settled' = [m \in Msgs |-> settled'[m]]
      BY <1>2, Zenon
    <2>5. Done \cup (Box \ MsgsOf(es)) \subseteq Msgs
      BY <1>10 DEF Done
    <2>6. Done' = {m \in Msgs : settled'[m] = 1}
      BY DEF Done
    <2> QED BY <2>3, <2>4, <2>5, <2>6
  <1>13. Apart'
    BY <1>3, <1>8, <1>9, <1>12 DEF Custody, Apart
  <1>14. Singly'
    BY <1>3, <1>8, <1>9 DEF Custody, Singly
  <1>15. Resumes'
    BY <1>2, <1>9, ResumesKept DEF Custody
  <1>16. Grow'
    <2>1. EntriesOf(Held(j))' = EntriesOf(es)
      BY <1>8 DEF EntriesOf
    <2>2. \A d : Copy(d)' => Copy(d)
      BY <1>2, <1>3, <1>8, <1>9, <2>1 DEF Copy
    <2> QED BY <1>2, <2>2 DEF Custody, Grow
  <1>17. Placed \subseteq Placed'
    BY <1>8, <1>9, <1>12 DEF Placed
  <1> QED BY <1>12, <1>13, <1>14, <1>15, <1>16, <1>17 DEF Safe, Custody

\* A list followed by another.
LEMMA Followed ==
  ASSUME NEW u \in Seq(Item), NEW v \in Seq(Item), NEW w, w = u \o v
  PROVE  /\ w \in Seq(Item) /\ Len(w) = Len(u) + Len(v) /\ DOMAIN w = 1..Len(w)
         /\ \A i \in 1..Len(u) : w[i] = u[i]
         /\ \A i \in DOMAIN v : w[Len(u) + i] = v[i]
  <1>1. w \in Seq(Item)
    BY SMTT(30)
  <1>2. /\ Len(w) = Len(u) + Len(v)
        /\ \A i \in 1..Len(u) : w[i] = u[i]
    BY SMTT(30)
  <1>3. Len(u) \in Nat /\ Len(v) \in Nat /\ DOMAIN v = 1..Len(v)
    OBVIOUS
  <1>4. ASSUME NEW i \in DOMAIN v
        PROVE  w[Len(u) + i] = v[i]
    <2>1. /\ i \in Nat /\ 1 <= i /\ i <= Len(v)
          /\ Len(u) + i \in 1..(Len(u) + Len(v)) /\ ~(Len(u) + i <= Len(u)) /\ (Len(u) + i) - Len(u) = i
      BY <1>3
    <2> QED BY <2>1, SMTT(30)
  <1>5. DOMAIN w = 1..Len(w)
    BY <1>1
  <1> QED BY <1>1, <1>2, <1>4, <1>5

\* A list holds what two lists and one more entry hold, in whatever order.
Around(v, p, e, q) ==
    /\ \E k \in DOMAIN v : v[k] = e
    /\ \A i \in DOMAIN p : \E k \in DOMAIN v : v[k] = p[i]
    /\ \A i \in DOMAIN q : \E k \in DOMAIN v : v[k] = q[i]
    /\ \A k \in DOMAIN v : \/ \E i \in DOMAIN p : v[k] = p[i]
                           \/ v[k] = e
                           \/ \E i \in DOMAIN q : v[k] = q[i]

LEMMA MiddleSets ==
  ASSUME NEW p, NEW q, NEW v, NEW e, Around(v, p, e, q)
  PROVE  /\ EntriesOf(v) = EntriesOf(p) \cup {e} \cup EntriesOf(q)
         /\ MsgsOf(v) = MsgsOf(p) \cup {e.msg} \cup MsgsOf(q)
  <1>1. EntriesOf(v) = EntriesOf(p) \cup {e} \cup EntriesOf(q)
    <2>1. ASSUME NEW k \in DOMAIN v PROVE v[k] \in EntriesOf(p) \cup {e} \cup EntriesOf(q)
      BY SMTT(30) DEF EntriesOf, Around
    <2>2. ASSUME NEW i \in DOMAIN p PROVE p[i] \in EntriesOf(v)
      BY SMTT(30) DEF EntriesOf, Around
    <2>3. ASSUME NEW i \in DOMAIN q PROVE q[i] \in EntriesOf(v)
      BY SMTT(30) DEF EntriesOf, Around
    <2>4. e \in EntriesOf(v)
      BY SMTT(30) DEF EntriesOf, Around
    <2> QED BY <2>1, <2>2, <2>3, <2>4, SMTT(30) DEF EntriesOf, Around
  <1>2. ASSUME NEW s PROVE MsgsOf(s) = {d.msg : d \in EntriesOf(s)}
    BY SMTT(30) DEF MsgsOf, EntriesOf
  <1>3. /\ MsgsOf(v) = {d.msg : d \in EntriesOf(v)}
        /\ MsgsOf(p) = {d.msg : d \in EntriesOf(p)}
        /\ MsgsOf(q) = {d.msg : d \in EntriesOf(q)}
    BY <1>2, Zenon
  <1>4. PICK V, P, Q : V = EntriesOf(v) /\ P = EntriesOf(p) /\ Q = EntriesOf(q)
    OBVIOUS
  <1>5. {d.msg : d \in P \cup {e} \cup Q} = {d.msg : d \in P} \cup {e.msg} \cup {d.msg : d \in Q}
    BY SMTT(30)
  <1> QED BY <1>1, <1>3, <1>4, <1>5

\* A list with an item in the middle.
LEMMA MiddleOnce ==
  ASSUME NEW os \in Seq(Item), NEW it \in Item, NEW rest \in Seq(Item),
         Once(Entries(os)), Once(Entries(rest)),
         MsgsOf(Entries(os)) \cap MsgsOf(Entries(rest)) = {},
         it.entry.msg \notin MsgsOf(Entries(os)) \cup MsgsOf(Entries(rest))
  PROVE  /\ Once(Entries(os \o <<it>> \o rest))
         /\ MsgsOf(Entries(os \o <<it>> \o rest)) =
               MsgsOf(Entries(os)) \cup {it.entry.msg} \cup MsgsOf(Entries(rest))
         /\ EntriesOf(Entries(os \o <<it>> \o rest)) =
               EntriesOf(Entries(os)) \cup {it.entry} \cup EntriesOf(Entries(rest))
  <1> SUFFICES ASSUME NEW w, w = os \o <<it>> \o rest
               PROVE  /\ Once(Entries(w))
                      /\ MsgsOf(Entries(w)) =
                            MsgsOf(Entries(os)) \cup {it.entry.msg} \cup MsgsOf(Entries(rest))
                      /\ EntriesOf(Entries(w)) =
                            EntriesOf(Entries(os)) \cup {it.entry} \cup EntriesOf(Entries(rest))
    OBVIOUS
  <1>1. ASSUME NEW s \in Seq(Item)
        PROVE  /\ DOMAIN Entries(s) = DOMAIN s
               /\ \A i \in DOMAIN s : Entries(s)[i] = s[i].entry
    BY DEF Entries
  <1>2. PICK n : n = Len(os) + 1
    OBVIOUS
  <1>3. /\ n \in DOMAIN w /\ w[n] = it /\ n \in Nat /\ n \notin DOMAIN os
        /\ \A i \in DOMAIN os : i \in DOMAIN w /\ w[i] = os[i] /\ i \in Nat
        /\ \A i \in DOMAIN rest : n + i \in DOMAIN w /\ w[n + i] = rest[i] /\ i \in Nat
        /\ \A i \in DOMAIN w : i \in DOMAIN os \/ i = n \/ \E k \in DOMAIN rest : i = n + k
        /\ w \in Seq(Item)
    <2>1. Len(os) \in Nat /\ Len(rest) \in Nat /\ DOMAIN os = 1..Len(os) /\ DOMAIN rest = 1..Len(rest)
      OBVIOUS
    <2>2. PICK u \in Seq(Item) : u = os \o <<it>>
      <3>1. <<it>> \in Seq(Item)
        OBVIOUS
      <3>2. os \o <<it>> \in Seq(Item)
        BY <3>1
      <3> QED BY <3>2
    <2>3. Len(u) = n /\ u[n] = it /\ \A i \in DOMAIN os : u[i] = os[i]
      BY <1>2, <2>1, <2>2
    <2>4. w = u \o rest
      BY <2>2
    <2>5. /\ w \in Seq(Item) /\ Len(w) = n + Len(rest) /\ DOMAIN w = 1..Len(w)
          /\ \A i \in 1..n : w[i] = u[i]
          /\ \A i \in DOMAIN rest : w[n + i] = rest[i]
      <3>1. /\ w \in Seq(Item) /\ Len(w) = Len(u) + Len(rest) /\ DOMAIN w = 1..Len(w)
            /\ \A i \in 1..Len(u) : w[i] = u[i]
            /\ \A i \in DOMAIN rest : w[Len(u) + i] = rest[i]
        <4>1. \A x : x = u \o rest =>
                 /\ x \in Seq(Item) /\ Len(x) = Len(u) + Len(rest) /\ DOMAIN x = 1..Len(x)
                 /\ \A i \in 1..Len(u) : x[i] = u[i]
                 /\ \A i \in DOMAIN rest : x[Len(u) + i] = rest[i]
          BY Followed, ZenonT(30)
        <4> QED BY <2>4, <4>1, ZenonT(30)
      <3>2. Len(u) = n
        BY <2>3
      <3> QED BY <3>1, <3>2, ZenonT(30)
    <2>6. n \in Nat /\ n = Len(os) + 1
      BY <1>2, <2>1
    <2>7. ASSUME NEW i \in DOMAIN w, i \notin DOMAIN os, i # n
          PROVE  \E k \in DOMAIN rest : i = n + k
      <3>1. i - n \in DOMAIN rest /\ i = n + (i - n)
        BY <2>1, <2>5, <2>6, <2>7
      <3> QED BY <3>1
    <2>8. /\ n \in DOMAIN w /\ w[n] = it /\ n \notin DOMAIN os
          /\ \A i \in DOMAIN os : i \in DOMAIN w /\ w[i] = os[i] /\ i \in Nat
          /\ \A i \in DOMAIN rest : n + i \in DOMAIN w /\ w[n + i] = rest[i] /\ i \in Nat
      BY <2>1, <2>3, <2>5, <2>6, SMTT(30)
    <2> QED BY <2>5, <2>6, <2>7, <2>8
  <1>4. PICK p : p = Entries(os)
    OBVIOUS
  <1>5. PICK q : q = Entries(rest)
    OBVIOUS
  <1>6. PICK v : v = Entries(w)
    OBVIOUS
  <1>7. PICK e : e = it.entry
    OBVIOUS
  <1>8. /\ n \in DOMAIN v /\ v[n] = e
        /\ \A i \in DOMAIN p : i \in DOMAIN v /\ v[i] = p[i]
        /\ \A i \in DOMAIN q : n + i \in DOMAIN v /\ v[n + i] = q[i]
        /\ \A i \in DOMAIN v : i \in DOMAIN p \/ i = n \/ \E k \in DOMAIN q : i = n + k
    <2>1. DOMAIN p = DOMAIN os /\ \A i \in DOMAIN os : p[i] = os[i].entry
      BY <1>1, <1>4
    <2>2. DOMAIN q = DOMAIN rest /\ \A i \in DOMAIN rest : q[i] = rest[i].entry
      BY <1>1, <1>5
    <2>3. DOMAIN v = DOMAIN w /\ \A i \in DOMAIN w : v[i] = w[i].entry
      BY <1>1, <1>3, <1>6, ZenonT(30)
    <2>4. n \in DOMAIN v /\ v[n] = e
      BY <1>3, <1>7, <2>3
    <2>5. \A i \in DOMAIN p : i \in DOMAIN v /\ v[i] = p[i]
      BY <1>3, <2>1, <2>3, ZenonT(90)
    <2>6. \A i \in DOMAIN q : n + i \in DOMAIN v /\ v[n + i] = q[i]
      BY <1>3, <2>2, <2>3, SMTT(90)
    <2>7. \A i \in DOMAIN v : i \in DOMAIN p \/ i = n \/ \E k \in DOMAIN q : i = n + k
      <3> SUFFICES ASSUME NEW i \in DOMAIN v, i \notin DOMAIN p, i # n
                   PROVE  \E k \in DOMAIN q : i = n + k
        OBVIOUS
      <3>1. i \in DOMAIN w /\ i \notin DOMAIN os
        BY <2>1, <2>3
      <3>2. PICK k \in DOMAIN rest : i = n + k
        BY <1>3, <3>1
      <3> QED BY <2>2, <3>2
    <2> QED BY <2>4, <2>5, <2>6, <2>7
  <1>9. /\ \A i \in DOMAIN p : p[i].msg \in MsgsOf(p)
        /\ \A i \in DOMAIN q : q[i].msg \in MsgsOf(q)
    BY DEF MsgsOf
  <1>10. Once(v)
    <2> SUFFICES ASSUME NEW i \in DOMAIN v, NEW k \in DOMAIN v, v[i].msg = v[k].msg
                 PROVE  i = k
      BY DEF Once
    <2>1. ASSUME NEW x \in DOMAIN v
          PROVE  \/ x \in DOMAIN p /\ v[x] = p[x]
                 \/ x = n /\ v[x] = e
                 \/ \E y \in DOMAIN q : x = n + y /\ v[x] = q[y]
      BY <1>8
    <2>2. MsgsOf(p) \cap MsgsOf(q) = {} /\ e.msg \notin MsgsOf(p) \cup MsgsOf(q)
      BY <1>4, <1>5, <1>7
    <2>3. CASE i \in DOMAIN p /\ v[i] = p[i]
      <3>1. v[i].msg \in MsgsOf(p)
        BY <1>9, <2>3
      <3>2. k \in DOMAIN p /\ v[k] = p[k]
        BY <1>9, <2>1, <2>2, <3>1
      <3> QED BY <1>4, <2>3, <3>2 DEF Once
    <2>4. CASE i = n /\ v[i] = e
      BY <1>9, <2>1, <2>2, <2>4
    <2>5. ASSUME NEW x \in DOMAIN q, i = n + x, v[i] = q[x]
          PROVE  i = k
      <3>1. v[k].msg \in MsgsOf(q)
        BY <1>9, <2>5
      <3>2. PICK y \in DOMAIN q : k = n + y /\ v[k] = q[y]
        BY <1>9, <2>1, <2>2, <3>1
      <3>3. x = y
        BY <1>5, <2>5, <3>2 DEF Once
      <3> QED BY <2>5, <3>2, <3>3
    <2> QED BY <2>1, <2>3, <2>4, <2>5
  <1>11. Around(v, p, e, q)
    <2>1. ASSUME NEW k \in DOMAIN v
          PROVE  \/ \E i \in DOMAIN p : v[k] = p[i]
                 \/ v[k] = e
                 \/ \E i \in DOMAIN q : v[k] = q[i]
      <3>1. CASE k \in DOMAIN p
        BY <1>8, <3>1, Zenon
      <3>2. CASE k = n
        BY <1>8, <3>2, Zenon
      <3>3. ASSUME NEW i \in DOMAIN q, k = n + i
            PROVE  v[k] = q[i]
        BY <1>8, <3>3, Zenon
      <3> QED BY <1>8, <3>1, <3>2, <3>3, Zenon
    <2> QED BY <1>8, <2>1, Zenon DEF Around
  <1>12. /\ EntriesOf(v) = EntriesOf(p) \cup {e} \cup EntriesOf(q)
         /\ MsgsOf(v) = MsgsOf(p) \cup {e.msg} \cup MsgsOf(q)
    BY <1>11, MiddleSets, SMTT(30)
  <1> QED BY <1>4, <1>5, <1>6, <1>7, <1>10, <1>12

\* All of the mailbox but the new anchor goes before what a replan starts over.
LEMMA OthersHeld ==
  ASSUME pending \in Seq(Entry), Once(pending)
  PROVE  /\ Others \in Seq(Item) /\ Once(Entries(Others))
         /\ EntriesOf(Entries(Others)) \subseteq EntriesOf(pending)
         /\ MsgsOf(Entries(Others)) = Box \ {pending[i].msg : i \in ReplanAnchor(pending)}
  <1>1. PICK K : K = DOMAIN pending \ ReplanAnchor(pending)
    OBVIOUS
  <1>2. PICK os : os = Others
    OBVIOUS
  <1>3. /\ os \in Seq(Item)
        /\ \E g : /\ g \in [DOMAIN os -> K]
                  /\ \A i, k \in DOMAIN os : g[i] = g[k] => i = k
                  /\ \A i \in DOMAIN os : os[i].entry = pending[g[i]]
                  /\ \A k \in K : \E i \in DOMAIN os : g[i] = k
    BY <1>1, <1>2, OthersAre
  <1>4. PICK g : /\ g \in [DOMAIN os -> K]
                 /\ \A i, k \in DOMAIN os : g[i] = g[k] => i = k
                 /\ \A i \in DOMAIN os : os[i].entry = pending[g[i]]
                 /\ \A k \in K : \E i \in DOMAIN os : g[i] = k
    BY <1>3
  <1>5. PICK es : es = Entries(os)
    OBVIOUS
  <1>6. DOMAIN es = DOMAIN os /\ \A i \in DOMAIN os : es[i] = pending[g[i]]
    BY <1>4, <1>5 DEF Entries
  <1>7. K \subseteq DOMAIN pending /\ \A i \in DOMAIN es : g[i] \in K
    BY <1>1, <1>4, <1>6
  <1>8. Once(es)
    BY <1>4, <1>6, <1>7 DEF Once
  <1>9. EntriesOf(es) \subseteq EntriesOf(pending)
    BY <1>6, <1>7 DEF EntriesOf
  <1>10. MsgsOf(es) = {pending[k].msg : k \in K}
    <2>1. ASSUME NEW m \in MsgsOf(es) PROVE m \in {pending[k].msg : k \in K}
      BY <1>6, <1>7, <2>1 DEF MsgsOf
    <2>2. ASSUME NEW k \in K PROVE pending[k].msg \in MsgsOf(es)
      <3>1. PICK i \in DOMAIN os : g[i] = k
        BY <1>4, <2>2
      <3> QED BY <1>6, <3>1 DEF MsgsOf
    <2> QED BY <2>1, <2>2
  <1>11. {pending[k].msg : k \in K} = Box \ {pending[i].msg : i \in ReplanAnchor(pending)}
    <2>1. ReplanAnchor(pending) \subseteq DOMAIN pending
      BY AnchorInBox
    <2> QED BY <1>1, <2>1 DEF Box, MsgsOf, Once
  <1> QED BY <1>2, <1>3, <1>5, <1>8, <1>9, <1>10, <1>11

\* A turn that takes the mailbox and settles some of what it held.
LEMMA TakenSafe ==
  ASSUME Types, Custody, NEW j \in Jobs, NEW gone \in SUBSET Hand(j),
         pending' = <<>>, UNCHANGED <<tokens, resume, ingress>>,
         \A i \in Jobs \ {j} : run'[i] = run[i],
         settled' \in [Msgs -> {0, 1}], Done' = Done \cup gone,
         Once(Held(j))', Hand(j)' = Box \cup (Hand(j) \ gone),
         EntriesOf(Held(j))' \subseteq EntriesOf(pending) \cup EntriesOf(Held(j))
  PROVE  Safe
  <1>1. \A i \in Jobs \ {j} : Held(i)' = Held(i) /\ Hand(i)' = Hand(i)
    BY HandsSame
  <1>2. Box' = {} /\ Once(pending)' /\ EntriesOf(pending)' = {} /\ Off' = Off /\ New' = New
    BY EmptyOnce, OffSame DEF Box, New
  <1>3. Apart'
    BY <1>1, <1>2 DEF Custody, Apart
  <1>4. Singly'
    BY <1>1, <1>2 DEF Custody, Singly
  <1>5. Resumes'
    BY <1>2, ResumesKept DEF Custody
  <1>6. Grow'
    <2>1. \A d : Copy(d)' => Copy(d)
      BY <1>1, <1>2 DEF Copy
    <2> QED BY <2>1 DEF Custody, Grow
  <1>7. Placed \subseteq Placed'
    BY <1>1, <1>2 DEF Placed
  <1> QED BY <1>3, <1>4, <1>5, <1>6, <1>7 DEF Safe, Custody

LEMMA ReplanSafe ==
  ASSUME Types, Custody, NEW j \in Jobs, Replan(j)
  PROVE  Safe
  <1>1. /\ run[j].work # <<>> /\ pending' = <<>> /\ UNCHANGED <<tokens, resume, ingress>>
        /\ pending \in Seq(Entry) /\ Once(pending) /\ Once(Held(j))
    BY ReplanIs DEF Replan, Types, WorkInv, MailTyped, Custody, Singly
  <1>2. PICK rest \in Seq(Item) : rest = Tail(run[j].work)
    BY <1>1, CurrentIs DEF Types
  <1>3. PICK cur \in Entry : cur = Current(j)
    BY <1>1, CurrentIs DEF Types
  <1>4. /\ Once(Entries(rest)) /\ MsgsOf(Entries(rest)) = Hand(j) \ {cur.msg}
        /\ EntriesOf(Entries(rest)) \subseteq EntriesOf(Held(j))
        /\ cur \in EntriesOf(Held(j)) /\ cur.msg \in Hand(j) /\ cur.msg \in Msgs
    <2>1. run[j].work \in Seq(Item)
      BY <1>1, CurrentIs DEF Types
    <2>2. /\ Held(j) \in Seq(Entry) /\ Held(j) # <<>> /\ Head(Held(j)) = cur
          /\ Entries(rest) = Tail(Held(j))
      BY <1>1, <1>2, <1>3, <2>1, EntriesTail DEF Held, Current
    <2> QED BY <1>1, <1>3, <2>2, TailOnce, SMTT(90) DEF Hand, Entry
  <1>5. PICK os \in Seq(Item) : os = Others
    BY <1>1, OthersHeld
  <1>6. /\ Once(Entries(os)) /\ EntriesOf(Entries(os)) \subseteq EntriesOf(pending)
        /\ MsgsOf(Entries(os)) = Box \ {pending[i].msg : i \in ReplanAnchor(pending)}
    BY <1>1, <1>5, OthersHeld
  <1>7. Box \cap Hand(j) = {} /\ cur.msg \notin Box
    BY <1>4 DEF Custody, Apart
  <1>8. /\ NewAnchor(j) \in Entry
        /\ \/ /\ ReplanAnchor(pending) = {} /\ NewAnchor(j) = cur
           \/ /\ ReplanAnchor(pending) # {} /\ NewAnchor(j) \in EntriesOf(pending)
              /\ {pending[i].msg : i \in ReplanAnchor(pending)} = {NewAnchor(j).msg}
              /\ NewAnchor(j).msg \in Box
    <2>1. CASE ReplanAnchor(pending) = {}
      BY <1>3, <2>1 DEF NewAnchor
    <2>2. CASE ReplanAnchor(pending) # {}
      <3>1. PICK a \in ReplanAnchor(pending) : a = CHOOSE i \in ReplanAnchor(pending) : TRUE
        BY <2>2
      <3>2. a \in DOMAIN pending /\ ReplanAnchor(pending) = {a}
        BY <1>1, <3>1, AnchorInBox
      <3>3. NewAnchor(j) = pending[a]
        BY <2>2, <3>1 DEF NewAnchor
      <3>4. {pending[i].msg : i \in {a}} = {pending[a].msg}
        OBVIOUS
      <3> QED BY <1>1, <2>2, <3>2, <3>3, <3>4 DEF EntriesOf, Box, MsgsOf
    <2> QED BY <2>1, <2>2
  <1>9. PICK it \in Item : it = [entry |-> NewAnchor(j), role |-> "judge"]
    BY <1>8 DEF Item, Roles
  <1>10. PICK w : w = os \o <<it>> \o rest
    OBVIOUS
  <1>11. it.entry = NewAnchor(j)
    BY <1>9
  <1>12. it.entry.msg \notin MsgsOf(Entries(os)) \cup MsgsOf(Entries(rest))
    BY <1>4, <1>6, <1>7, <1>8, <1>11
  <1>13. MsgsOf(Entries(os)) \cap MsgsOf(Entries(rest)) = {}
    BY <1>4, <1>6, <1>7
  <1>14. /\ Once(Entries(w))
         /\ MsgsOf(Entries(w)) =
               MsgsOf(Entries(os)) \cup {it.entry.msg} \cup MsgsOf(Entries(rest))
         /\ EntriesOf(Entries(w)) =
               EntriesOf(Entries(os)) \cup {it.entry} \cup EntriesOf(Entries(rest))
    <2>1. /\ Once(Entries(os \o <<it>> \o rest))
          /\ MsgsOf(Entries(os \o <<it>> \o rest)) =
                MsgsOf(Entries(os)) \cup {it.entry.msg} \cup MsgsOf(Entries(rest))
          /\ EntriesOf(Entries(os \o <<it>> \o rest)) =
                EntriesOf(Entries(os)) \cup {it.entry} \cup EntriesOf(Entries(rest))
      BY <1>4, <1>6, <1>12, <1>13, MiddleOnce
    <2> QED BY <1>10, <2>1
  <1>15. w \in Seq(Item)
    <2>1. <<it>> \in Seq(Item)
      OBVIOUS
    <2>2. os \o <<it>> \in Seq(Item)
      BY <2>1
    <2> QED BY <1>10, <2>2
  <1>16. run' = [run EXCEPT ![j].at = "work", ![j].work = w]
    BY <1>2, <1>5, <1>9, <1>10, ReplanIs, ZenonT(30)
  <1>17. run'[j].work = w /\ \A i \in Jobs \ {j} : run'[i] = run[i]
    BY <1>15, <1>16, WorkRun, ZenonT(30) DEF Types, RunSteps
  <1>18. /\ Once(Held(j))' /\ Hand(j)' = MsgsOf(Entries(w))
         /\ EntriesOf(Held(j))' \subseteq EntriesOf(pending) \cup EntriesOf(Held(j))
    <2>1. EntriesOf(Entries(w)) \subseteq EntriesOf(pending) \cup EntriesOf(Held(j))
      BY <1>4, <1>6, <1>8, <1>11, <1>14
    <2> QED BY <1>14, <1>17, <2>1 DEF Held, Hand
  <1>19. CASE ReplanAnchor(pending) = {}
    <2>1. settled' = settled
      BY <1>19, ReplanIs
    <2>2. Done' = Done /\ settled' \in [Msgs -> {0, 1}]
      BY <2>1 DEF Custody, Done
    <2>3. {pending[i].msg : i \in ReplanAnchor(pending)} = {}
      BY <1>19
    <2>4. Hand(j)' = Box \cup Hand(j)
      BY <1>4, <1>6, <1>8, <1>11, <1>14, <1>18, <1>19, <2>3
    <2>5. {} \in SUBSET Hand(j) /\ Done' = Done \cup {} /\ Hand(j)' = Box \cup (Hand(j) \ {})
      BY <2>2, <2>4
    <2> QED BY <1>1, <1>17, <1>18, <2>2, <2>5, TakenSafe
  <1>20. CASE ReplanAnchor(pending) # {}
    <2>1. Settle(cur.msg)
      BY <1>3, <1>20, ReplanIs
    <2>2. settled' \in [Msgs -> {0, 1}] /\ Done' = Done \cup {cur.msg}
      <3>1. cur.msg \notin Done
        BY <1>4 DEF Custody, Apart
      <3> QED BY <1>4, <2>1, <3>1, SettleIs DEF Custody
    <2>3. Hand(j)' = Box \cup (Hand(j) \ {cur.msg})
      BY <1>4, <1>6, <1>8, <1>11, <1>14, <1>18, <1>20
    <2>4. {cur.msg} \in SUBSET Hand(j)
      BY <1>4
    <2> QED BY <1>1, <1>17, <1>18, <2>2, <2>3, <2>4, TakenSafe
  <1> QED BY <1>19, <1>20, SMTT(30)

-----------------------------------------------------------------------------
(* Every step *)

LEMMA WorkSafe ==
  ASSUME Types, Custody, NEW j \in Jobs,
         TrackEntry(j) \/ RunCommand(j) \/ TalkEnds(j) \/ TalkDeferred(j) \/ TalkPutBack(j)
           \/ TalkExhausted(j)
  PROVE  Safe
  <1>1. ASSUME UNCHANGED ingress, Skip(j) \/ TalkOver(j), run[j].work # <<>>
        PROVE  HeadLeft(j)
    BY <1>1, SkipRun, TalkOverRun DEF Types, HeadLeft
  <1>2. run[j].work # <<>> /\ Current(j) \in Entry /\ Current(j).defers \in Nat
    <2>1. run[j].work # <<>>
      BY DEF TrackEntry, RunCommand, TalkEnds, TalkDeferred, TalkPutBack, TalkExhausted, AtItem,
             Types, WorkInv
    <2> QED BY <2>1, CurrentIs DEF Types, Entry
  <1>3. HeadLeft(j)
    BY <1>1, <1>2 DEF TrackEntry, RunCommand, TalkEnds, TalkDeferred, TalkPutBack,
                      TalkExhausted, flowVars
  <1>4. ASSUME Settle(Current(j).msg), UNCHANGED <<pending, tokens, resume>> PROVE Safe
    BY <1>3, <1>4, HeadSettled
  <1>5. ASSUME AppendPending([Current(j) EXCEPT !.replay = TRUE]),
               UNCHANGED <<tokens, resume, settled>>
        PROVE  Safe
    <2>1. PICK e \in Entry : e = [Current(j) EXCEPT !.replay = TRUE]
      BY <1>2, EntriesTyped
    <2>2. e.msg = Current(j).msg /\ e.defers = Current(j).defers
      BY <1>2, <2>1, EntriesTyped
    <2>3. Current(j).defers <= e.defers
      BY <1>2, <2>2
    <2> QED BY <1>3, <1>5, <2>1, <2>2, <2>3, HeadPutBack
  <1>6. ASSUME HasDeferBudget(Current(j)),
               AppendPending([Current(j) EXCEPT !.replay = TRUE, !.defers = @ + 1]),
               UNCHANGED <<tokens, resume, settled>>
        PROVE  Safe
    <2>1. PICK e \in Entry : e = [Current(j) EXCEPT !.replay = TRUE, !.defers = @ + 1]
      BY <1>2, <1>6, EntriesTyped
    <2>2. e.msg = Current(j).msg /\ e.defers = Current(j).defers + 1
      BY <1>2, <1>6, <2>1, EntriesTyped
    <2>3. Current(j).defers <= e.defers
      BY <1>2, <2>2
    <2> QED BY <1>3, <1>6, <2>1, <2>2, <2>3, HeadPutBack
  <1>7. CASE TrackEntry(j) \/ TalkEnds(j)
    BY <1>4, <1>7 DEF TrackEntry, TalkEnds, bufferVars, flowVars
  <1>8. CASE RunCommand(j)
    BY <1>4, <1>5, <1>8 DEF RunCommand, flowVars
  <1>9. CASE TalkDeferred(j)
    BY <1>3, <1>9, HeadDeferred DEF TalkDeferred, bufferVars
  <1>10. CASE TalkPutBack(j)
    BY <1>5, <1>10 DEF TalkPutBack, flowVars
  <1>11. CASE TalkExhausted(j)
    BY <1>4, <1>6, <1>11 DEF TalkExhausted, flowVars
  <1> QED BY <1>7, <1>8, <1>9, <1>10, <1>11

LEMMA TurnSafe ==
  ASSUME Types, WakeInv, Custody, NEW j \in Jobs, TurnStep(j)
  PROVE  Safe
  <1>1. ASSUME UNCHANGED <<pending, tokens, resume, settled, ingress>>,
               \A i \in Jobs \ {j} : run'[i] = run[i], run'[j].work = run[j].work
        PROVE  Safe
    <2>1. New' = New /\ \A i \in Jobs : run'[i].work = run[i].work
      BY <1>1 DEF New
    <2> QED BY <1>1, <2>1, Unmoved
  <1>2. ASSUME UNCHANGED <<pending, tokens, resume, settled, ingress>>,
               NEW step \in RunSteps, Goto(j, step)
        PROVE  Safe
    BY <1>1, <1>2, GotoRun DEF Types
  <1>3. CASE Pick(j)
    <2>1. run[j].at = "off"
      BY <1>3 DEF Pick, WakeInv, Aligned, RunsAligned
    <2>2. run[j].work = <<>>
      BY <2>1 DEF Types, WorkInv
    <2>3. UNCHANGED <<pending, tokens, resume, settled, ingress>>
      BY <1>3 DEF Pick, bufferVars, flowVars
    <2> QED BY <1>1, <1>3, <2>2, <2>3, PickRun DEF Types
  <1>4. CASE Drain(j)
    <2>1. CASE pending = <<>>
      <3>1. UNCHANGED <<pending, tokens, resume, settled, ingress>> /\ Goto(j, "exit")
        BY <1>4, <2>1 DEF Drain, DrainPending, flowVars
      <3> QED BY <1>2, <3>1 DEF RunSteps
    <2>2. CASE pending # <<>>
      BY <1>4, <2>2, DrainSafe
    <2> QED BY <2>1, <2>2
  <1>5. CASE TalkInterrupted(j)
    <2>1. UNCHANGED <<pending, tokens, resume, settled, ingress>>
      BY <1>5 DEF TalkInterrupted, bufferVars, flowVars
    <2> QED BY <1>1, <1>5, <2>1, InterruptedRun DEF Types
  <1>6. CASE \/ StartTalk(j) \/ ReadPointer(j) \/ Unset(j) \/ ClearDirty(j) \/ CountPending(j)
             \/ Reschedule(j) \/ Release(j)
    <2>1. PICK step \in {"gen", "unset", "recheck", "count", "resched", "release", "done"} :
            Goto(j, step)
      BY <1>6 DEF StartTalk, ReadPointer, Unset, ClearDirty, CountPending, Reschedule, Release
    <2>2. UNCHANGED <<pending, tokens, resume, settled, ingress>>
      BY <1>6 DEF StartTalk, ReadPointer, Unset, ClearDirty, CountPending, Reschedule, Release,
                  bufferVars, flowVars
    <2> QED BY <1>2, <2>1, <2>2 DEF RunSteps
  <1>7. CASE Complete(j)
    <2>1. run' = [run EXCEPT ![j] = OffRun] /\ run[j].at \in {"done", "lose"}
      BY <1>7 DEF Complete
    <2>2. run[j].work = <<>>
      BY <2>1 DEF Types, WorkInv
    <2>3. UNCHANGED <<pending, tokens, resume, settled, ingress>>
      BY <1>7 DEF Complete, bufferVars, flowVars
    <2>4. run'[j].work = <<>> /\ \A i \in Jobs \ {j} : run'[i] = run[i]
      BY <2>1 DEF Types, TurnTyped, OffRun
    <2> QED BY <1>1, <2>2, <2>3, <2>4
  <1>8. CASE Replan(j)
    BY <1>8, ReplanSafe
  <1>9. CASE \/ TrackEntry(j) \/ RunCommand(j) \/ TalkEnds(j) \/ TalkDeferred(j)
             \/ TalkPutBack(j) \/ TalkExhausted(j)
    BY <1>9, WorkSafe
  <1> QED BY <1>3, <1>4, <1>5, <1>6, <1>7, <1>8, <1>9 DEF TurnStep

\* Nothing is lost by any step but the end of a process or of a job.
LEMMA StepSafe ==
  ASSUME Types, WakeInv, Custody, [Next]_vars, ~Exit, ~Crash
  PROVE  Safe
  <1>1. ASSUME UNCHANGED <<pending, tokens, resume, settled, run>>, New' = New
        PROVE  Safe
    BY <1>1, Unmoved
  <1>2. ASSUME NEW m \in Msgs, Arrive(m) PROVE Safe
    <2>1. UNCHANGED <<pending, tokens, resume, settled, run>>
      BY <1>2 DEF Arrive, bufferVars, turnVars
    <2>2. ingress[m] = "unsent" /\ ingress' = [ingress EXCEPT ![m] = "append"]
      BY <1>2 DEF Arrive
    <2>3. New' = New
      BY <2>2 DEF New, Types, FlowTyped
    <2> QED BY <1>1, <2>1, <2>3
  <1>3. ASSUME NEW m \in Msgs, Store(m) \/ ResumeStep(m) \/ ResumeTrouble(m) PROVE Safe
    BY <1>3, StoreSafe, ResumeFiresSafe, ResumeDoneSafe, ResumeTroubleSafe DEF ResumeStep
  <1>4. ASSUME NEW c \in Callers, CallStep(c) PROVE Safe
    <2>1. UNCHANGED <<pending, tokens, resume, settled, run, ingress>>
      BY <1>4 DEF CallStep, SchedulerStep, ReadMeta, GetState, ChangeDelay, MarkDirty, AddJob,
                  SetScheduledJob, bufferVars, turnVars, flowVars
    <2> QED BY <1>1, <2>1 DEF New
  <1>5. ASSUME NEW c \in Callers, CallFails(c) PROVE Safe
    <2>1. UNCHANGED <<pending, tokens, resume, settled, run, ingress>>
      BY <1>5 DEF CallFails, bufferVars, turnVars
    <2> QED BY <1>1, <2>1 DEF New
  <1>6. ASSUME NEW j \in Jobs, TurnStep(j) PROVE Safe
    BY <1>6, TurnSafe
  <1>7. ASSUME NEW j \in Jobs, Clock(j) \/ Lapse(j) \/ Stall(j) \/ FailStalled(j) PROVE Safe
    <2>1. UNCHANGED <<pending, tokens, resume, settled, run, ingress>>
      BY <1>7 DEF Clock, Promote, Lapse, Stall, FailStalled, bufferVars, turnVars, flowVars
    <2> QED BY <1>1, <2>1 DEF New
  <1>8. CASE Expire \/ Shutdown \/ CloseIntake \/ UNCHANGED vars
    <2>1. UNCHANGED <<pending, tokens, resume, settled, run, ingress>>
      BY <1>8 DEF Expire, Shutdown, CloseIntake, vars, bufferVars, turnVars, flowVars
    <2> QED BY <1>1, <2>1 DEF New
  <1> QED BY <1>2, <1>3, <1>4, <1>5, <1>6, <1>7, <1>8 DEF Next

LEMMA StepCustody ==
  ASSUME Types, WakeInv, Custody, [Next]_vars
  PROVE  Custody'
  <1>1. CASE Exit \/ Crash
    BY <1>1, RebootCustody DEF Exit, Crash
  <1>2. CASE ~Exit /\ ~Crash
    BY <1>2, StepSafe DEF Safe
  <1> QED BY <1>1, <1>2

LEMMA InitCustody ==
  ASSUME Init
  PROVE  Custody /\ Placed = {} /\ New = Msgs
  <1> USE DEF Init, BufferInit
  <1>1. settled \in [Msgs -> {0, 1}] /\ Done = {} /\ New = Msgs
    BY DEF Done, New
  <1>2. \A j \in Jobs : Held(j) = <<>> /\ Hand(j) = {}
    <2>1. \A j \in Jobs : run[j].work = <<>>
      BY DEF OffRun
    <2>2. Entries(<<>>) = <<>>
      BY DEF Entries
    <2> QED BY <2>1, <2>2, EmptyOnce DEF Held, Hand
  <1>3. Box = {} /\ Once(pending) /\ EntriesOf(pending) = {}
    BY EmptyOnce DEF Box
  <1>4. Off = {} /\ Resumes
    <2>1. \A m \in Msgs : resume[m].at = "none" /\ resume[m].entry.msg = m
      BY EntriesTyped DEF NoResume, ResumeSteps
    <2> QED BY <2>1 DEF Off, PutOff, Resumes
  <1>5. Grow
    BY DEF Grow
  <1>6. Apart
    BY <1>1, <1>2, <1>3, <1>4 DEF Apart
  <1>7. Singly
    BY <1>2, <1>3, EmptyOnce DEF Singly
  <1>8. Placed = {}
    BY <1>1, <1>2, <1>3, <1>4 DEF Placed
  <1> QED BY <1>1, <1>4, <1>5, <1>6, <1>7, <1>8 DEF Custody

-----------------------------------------------------------------------------
(* Counting *)

LEMMA InBoxCounted ==
  ASSUME Custody, NEW m \in Msgs
  PROVE  Cardinality(InPending(m)) = IF m \in Box THEN 1 ELSE 0
  <1>1. CASE m \in Box
    <2>1. PICK i \in DOMAIN pending : pending[i].msg = m
      BY <1>1 DEF Box, MsgsOf
    <2>2. InPending(m) = {i}
      BY <2>1 DEF InPending, Custody, Singly, Once
    <2>3. Cardinality({i}) = 1
      BY FS_Singleton
    <2>4. Cardinality(InPending(m)) = 1
      BY <2>2, <2>3, Zenon
    <2> QED BY <1>1, <2>4
  <1>2. CASE m \notin Box
    <2>1. InPending(m) = {}
      BY <1>2 DEF InPending, Box, MsgsOf
    <2>2. Cardinality({}) = 0
      BY FS_EmptySet
    <2>3. Cardinality(InPending(m)) = 0
      BY <2>1, <2>2, Zenon
    <2> QED BY <1>2, <2>3
  <1> QED BY <1>1, <1>2

LEMMA InHandCounted ==
  ASSUME Types, Custody, NEW m \in Msgs
  PROVE  Cardinality(InHand(m)) = IF m \in UNION {Hand(j) : j \in Jobs} THEN 1 ELSE 0
  <1>1. ASSUME NEW j \in Jobs
        PROVE  /\ DOMAIN Held(j) = DOMAIN run[j].work
               /\ \A i \in DOMAIN Held(j) : Held(j)[i].msg = run[j].work[i].entry.msg
    BY <1>1, HeldTyped DEF Types
  <1>2. \A at : at \in InHand(m) <=> \E j \in Jobs : \E i \in DOMAIN Held(j) :
                   at = <<j, i>> /\ Held(j)[i].msg = m
    <2>1. ASSUME NEW at \in InHand(m)
          PROVE  \E j \in Jobs : \E i \in DOMAIN Held(j) : at = <<j, i>> /\ Held(j)[i].msg = m
      <3>1. PICK j \in Jobs : at \in {j} \X DOMAIN run[j].work
        BY <2>1 DEF InHand
      <3>2. PICK i \in DOMAIN run[j].work : at = <<j, i>>
        BY <3>1
      <3>3. run[j].work[i].entry.msg = m
        BY <2>1, <3>2 DEF InHand
      <3> QED BY <1>1, <3>2, <3>3
    <2>2. ASSUME NEW j \in Jobs, NEW i \in DOMAIN Held(j), Held(j)[i].msg = m
          PROVE  <<j, i>> \in InHand(m)
      <3>1. i \in DOMAIN run[j].work /\ run[j].work[i].entry.msg = m
        BY <1>1, <2>2
      <3> QED BY <3>1 DEF InHand
    <2> QED BY <2>1, <2>2
  <1>3. CASE m \in UNION {Hand(j) : j \in Jobs}
    <2>1. PICK j \in Jobs : m \in Hand(j)
      BY <1>3
    <2>2. PICK i \in DOMAIN Held(j) : Held(j)[i].msg = m
      BY <2>1 DEF Hand, MsgsOf
    <2>3. ASSUME NEW k \in Jobs, NEW l \in DOMAIN Held(k), Held(k)[l].msg = m
          PROVE  k = j /\ l = i
      <3>1. m \in Hand(k)
        BY <2>3 DEF Hand, MsgsOf
      <3>2. k = j
        BY <2>1, <3>1 DEF Custody, Apart
      <3> QED BY <2>2, <2>3, <3>2 DEF Custody, Singly, Once
    <2>4. InHand(m) = {<<j, i>>}
      BY <1>2, <2>2, <2>3
    <2>5. Cardinality({<<j, i>>}) = 1
      BY FS_Singleton
    <2>6. Cardinality(InHand(m)) = 1
      BY <2>4, <2>5, Zenon
    <2> QED BY <1>3, <2>6
  <1>4. CASE m \notin UNION {Hand(j) : j \in Jobs}
    <2>1. InHand(m) = {}
      BY <1>2, <1>4 DEF Hand, MsgsOf
    <2>2. Cardinality({}) = 0
      BY FS_EmptySet
    <2>3. Cardinality(InHand(m)) = 0
      BY <2>1, <2>2, Zenon
    <2> QED BY <1>4, <2>3
  <1> QED BY <1>3, <1>4

LEMMA CopiesAre ==
  ASSUME Types, Custody, NEW m \in Msgs
  PROVE  Copies(m) = IF m \in Placed THEN 1 ELSE 0
  <1>1. PICK hands : hands = UNION {Hand(j) : j \in Jobs}
    OBVIOUS
  <1>2. /\ Cardinality(InPending(m)) = IF m \in Box THEN 1 ELSE 0
        /\ Cardinality(InHand(m)) = IF m \in hands THEN 1 ELSE 0
    BY <1>1, InBoxCounted, InHandCounted
  <1>3. PutOff(m) <=> m \in Off
    BY DEF Off
  <1>4. settled[m] = IF m \in Done THEN 1 ELSE 0
    BY DEF Custody, Done
  <1>5. /\ m \in hands => m \notin Box \cup Off \cup Done
        /\ m \in Box => m \notin Off \cup Done
        /\ m \in Off => m \notin Done
    BY <1>1 DEF Custody, Apart
  <1>6. m \in Placed <=> m \in Box \/ m \in hands \/ m \in Off \/ m \in Done
    BY <1>1 DEF Placed
  <1>7. Copies(m) = Cardinality(InPending(m)) + Cardinality(InHand(m))
                      + (IF m \in Off THEN 1 ELSE 0) + settled[m]
    BY <1>3 DEF Copies
  <1> QED BY <1>2, <1>4, <1>5, <1>6, <1>7

-----------------------------------------------------------------------------
(* Without a crash *)

Calm == \A i \in DOMAIN spent : spent[i] # "crash"
NoneLost == Calm => \A m \in Msgs : Accepted(m) => m \in Placed

\* Troubles are never forgotten.
LEMMA CalmBefore ==
  ASSUME Types, [Next]_vars, Calm'
  PROVE  Calm /\ ~Crash
  <1>1. ASSUME NEW kind, Spend(kind) PROVE Calm /\ kind # "crash"
    BY <1>1, SpendTyped DEF Types, Calm
  <1>2. ~Crash
    BY <1>1 DEF Crash
  <1>3. ASSUME UNCHANGED spent PROVE Calm
    BY <1>3 DEF Calm
  <1>4. UNCHANGED spent \/ \E kind : Spend(kind)
    <2>1. ASSUME NEW m \in Msgs, Arrive(m) \/ Store(m) \/ ResumeStep(m) \/ ResumeTrouble(m)
          PROVE  UNCHANGED spent \/ \E kind : Spend(kind)
      BY <2>1 DEF Arrive, Store, ResumeStep, ResumePick, ResumeFires, ResumeDone, ResumeTrouble,
                  ResumeThrows, ResumeStalls, ResumeFailStalled
    <2>2. ASSUME NEW c \in Callers, CallStep(c) \/ CallFails(c)
          PROVE  UNCHANGED spent \/ \E kind : Spend(kind)
      BY <2>2 DEF CallStep, CallFails
    <2>3. ASSUME NEW j \in Jobs, TurnStep(j) PROVE UNCHANGED spent
      BY <2>3 DEF TurnStep, Pick, Drain, TrackEntry, RunCommand, StartTalk, TalkEnds,
                  TalkDeferred, TalkPutBack, TalkInterrupted, TalkExhausted, Replan, ReadPointer,
                  Unset, ClearDirty, CountPending, Reschedule, Release, Complete
    <2>4. ASSUME NEW j \in Jobs, Clock(j) \/ Lapse(j) \/ Stall(j) \/ FailStalled(j)
          PROVE  UNCHANGED spent \/ \E kind : Spend(kind)
      BY <2>4 DEF Clock, Lapse, Stall, FailStalled
    <2>5. CASE Expire \/ Shutdown \/ CloseIntake \/ Exit \/ UNCHANGED vars
      BY <2>5 DEF Expire, Shutdown, CloseIntake, Exit, vars
    <2> QED BY <1>2, <2>1, <2>2, <2>3, <2>4, <2>5 DEF Next
  <1> QED BY <1>1, <1>2, <1>3, <1>4

\* What is accepted after a step was accepted before it, or has just been stored.
LEMMA AcceptedBefore ==
  ASSUME Types, [Next]_vars, NEW m \in Msgs, Accepted(m)'
  PROVE  Accepted(m) \/ Store(m)
  <1>1. ASSUME UNCHANGED ingress, cut \subseteq cut' PROVE Accepted(m)
    BY <1>1 DEF Accepted
  <1>2. ASSUME NEW n \in Msgs, Arrive(n) PROVE Accepted(m)
    BY <1>2 DEF Arrive, Accepted, Types, FlowTyped
  <1>3. ASSUME NEW n \in Msgs, Store(n) PROVE Accepted(m) \/ Store(m)
    BY <1>3 DEF Store, Accepted, Types, FlowTyped
  <1>4. ASSUME NEW c \in Callers, CallFails(c) PROVE Accepted(m)
    BY <1>1, <1>4 DEF CallFails
  <1>5. CASE Exit \/ Crash
    <2>1. /\ ingress' = [n \in Msgs |-> IF InFlight(n) THEN "stored" ELSE ingress[n]]
          /\ cut' = cut \cup {n \in Msgs : InFlight(n)}
      BY <1>5 DEF Exit, Crash, Reboot
    <2>2. m \notin cut /\ ~InFlight(m) /\ ingress'[m] = "stored"
      BY <2>1 DEF Accepted
    <2> QED BY <2>1, <2>2 DEF Accepted
  <1>6. ASSUME NEW n \in Msgs, ResumeStep(n) \/ ResumeTrouble(n) PROVE Accepted(m)
    BY <1>1, <1>6 DEF ResumeStep, ResumePick, ResumeFires, ResumeDone, ResumeTrouble, ResumeThrows,
                      ResumeStalls, ResumeFailStalled, ResumeGivenUp
  <1>7. ASSUME NEW c \in Callers, CallStep(c) PROVE Accepted(m)
    BY <1>1, <1>7 DEF CallStep, flowVars
  <1>8. ASSUME NEW j \in Jobs, TurnStep(j) PROVE Accepted(m)
    BY <1>1, <1>8 DEF TurnStep, Pick, Drain, TrackEntry, RunCommand, StartTalk, TalkEnds,
                      TalkDeferred, TalkPutBack, TalkInterrupted, TalkExhausted, Replan,
                      ReadPointer, Unset, ClearDirty, CountPending, Reschedule, Release, Complete,
                      flowVars
  <1>9. ASSUME NEW j \in Jobs, Clock(j) \/ Lapse(j) \/ Stall(j) \/ FailStalled(j) PROVE Accepted(m)
    BY <1>1, <1>9 DEF Clock, Lapse, Stall, FailStalled, flowVars
  <1>10. CASE Expire \/ Shutdown \/ CloseIntake \/ UNCHANGED vars
    BY <1>1, <1>10 DEF Expire, Shutdown, CloseIntake, vars, flowVars
  <1> QED BY <1>2, <1>3, <1>4, <1>5, <1>6, <1>7, <1>8, <1>9, <1>10 DEF Next

\* A process that exits in order has no turn under way: it holds nothing.
LEMMA ExitLosesNothing ==
  ASSUME Types, WakeInv, Custody, Exit
  PROVE  Placed \subseteq Placed'
  <1>1. Box' = Box /\ Off' = Off /\ Done' = Done
    BY RebootCustody DEF Exit
  <1>2. ASSUME NEW j \in Jobs PROVE Hand(j) = {}
    <2>1. run[j].work = <<>>
      BY DEF Exit, Types, WorkInv
    <2>2. Entries(<<>>) = <<>>
      BY DEF Entries
    <2> QED BY <2>1, <2>2, EmptyOnce DEF Hand, Held
  <1> QED BY <1>1, <1>2 DEF Placed

LEMMA StepNoneLost ==
  ASSUME Types, WakeInv, Custody, NoneLost, [Next]_vars
  PROVE  NoneLost'
  <1> SUFFICES ASSUME Calm', NEW m \in Msgs, Accepted(m)'
               PROVE  m \in Placed'
    BY DEF NoneLost
  <1>1. Calm /\ ~Crash
    BY CalmBefore
  <1>2. Placed \subseteq Placed' \cup cut' /\ m \notin cut'
    BY <1>1, ExitLosesNothing, StepSafe DEF Safe, Accepted
  <1>3. CASE Accepted(m)
    BY <1>1, <1>2, <1>3 DEF NoneLost
  <1>4. CASE Store(m)
    <2>1. AppendPending(FreshEntry(m)) /\ m \in New
      BY <1>4, SMTT(30) DEF Store, New
    <2>2. FreshEntry(m) \in Entry /\ FreshEntry(m).msg = m /\ m \notin Box
      BY <2>1, EntriesTyped DEF Custody, Apart
    <2>3. m \in Box'
      BY <2>1, <2>2, AppendBox DEF Types, Custody, Singly
    <2> QED BY <2>3 DEF Placed
  <1> QED BY <1>3, <1>4, AcceptedBefore

-----------------------------------------------------------------------------
(* The theorems *)

MessageInv == Types /\ WakeInv /\ Custody /\ NoneLost

LEMMA InitMessageInv == Init => MessageInv
  <1> SUFFICES ASSUME Init PROVE MessageInv
    OBVIOUS
  <1>1. NoneLost
    <2>1. New = Msgs
      BY InitCustody
    <2> QED BY <2>1 DEF NoneLost, Accepted, New
  <1> QED BY <1>1, InitTypes, InitWakeInv, InitCustody DEF MessageInv

LEMMA StepMessageInv == MessageInv /\ [Next]_vars => MessageInv'
  BY TypesStep, StepWakeInv, StepCustody, StepNoneLost DEF MessageInv

LEMMA MessageInvAlways == Spec => []MessageInv
  BY InitMessageInv, StepMessageInv, PTL DEF Spec

\* Every variable keeps its type: no entry is put off more often than its budget
\* (actor.ts:311-317), no call of scheduleTurn waits for a job without an id.
THEOREM TurnTypes == Spec => []TypeOK
  <1>1. MessageInv => TypeOK
    <2> SUFFICES ASSUME MessageInv PROVE TypeOK
      OBVIOUS
    <2>1. scheduledJobId \in Jobs \cup {NoJob} /\ job \in [Jobs -> JobStates]
      BY DEF MessageInv, WakeInv, Records, Ids
    <2>2. settled \in [Msgs -> Nat]
      BY DEF MessageInv, Custody
    <2> QED BY <2>1, <2>2 DEF MessageInv, Types, MailTyped, CallsTyped, FlowTyped, TurnTyped,
                              CountersTyped, TypeOK
  <1> QED BY <1>1, MessageInvAlways, PTL

\* No message is handled twice, whatever overlaps, fails, is retried or is run
\* again after a crash (buffer.ts:59-65, actor.ts:424-426): for any number of
\* messages, jobs and troubles and any limits on stalls and attempts.
THEOREM HandledOnce == Spec => []HandledAtMostOnce
  <1>1. MessageInv => HandledAtMostOnce
    <2> SUFFICES ASSUME MessageInv, NEW m \in Msgs PROVE Copies(m) <= 1
      BY DEF HandledAtMostOnce
    <2>1. Copies(m) = 0 \/ Copies(m) = 1
      BY CopiesAre DEF MessageInv
    <2> QED BY <2>1
  <1> QED BY <1>1, MessageInvAlways, PTL

\* Without a crash an accepted message is always in exactly one place: an
\* interrupt, a put-off, a graceful restart or a failing command may delay it and
\* never loses it (actor.ts:317, 327-331), unless its defer_resume job failed at
\* every attempt (producer.ts:110).
THEOREM NothingLost == Spec => []Conserved
  <1>1. MessageInv => Conserved
    BY CopiesAre DEF MessageInv, Conserved, NoneLost, Calm
  <1> QED BY <1>1, MessageInvAlways, PTL
=============================================================================
