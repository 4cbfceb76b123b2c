--------------------------- MODULE TurnActorProps ---------------------------
(***************************************************************************)
(* What the cognition turn promises about the messages of its chat.        *)
(***************************************************************************)
EXTENDS TurnActor, FiniteSets

\* The variables hold what the code can put there.
TypeOK ==
    /\ pending \in Seq(Entry)
    /\ pendingDirect \in BOOLEAN
    /\ scheduledJobId \in Jobs \cup {NoJob}
    /\ dirty \in BOOLEAN
    /\ tokens \subseteq Msgs \X Nat
    /\ job \in [Jobs -> JobStates]
    /\ call \in [Callers -> Call]
    /\ RegistryTypeOK
    /\ ingress \in [Msgs -> {"unsent", "append", "stored"}]
    /\ resume \in [Msgs -> [at : ResumeSteps, entry : Entry]]
    /\ stalls \in [Jobs -> Nat]
    /\ tries \in [Msgs -> [stalls : Nat, fails : Nat]]
    /\ run \in [Jobs -> Run]
    /\ lock \in Jobs \cup {NoJob, Orphan}
    /\ lapsed \subseteq Jobs
    /\ open \in BOOLEAN
    /\ settled \in [Msgs -> Nat]
    /\ cut \subseteq Msgs
    /\ spent \in Seq(Troubles)

-----------------------------------------------------------------------------
(* The execution lock *)

\* The run is between its successful acquireTurnLock and its release.
Section(j) ==
    run[j].at \in {"drain", "work", "gen", "quiet", "unset", "recheck", "count",
                   "resched", "release", "exit"}

\* Two turns of a chat run at the same time only if one of them outlived its
\* lease (actor.ts:457-458): losers, releases of an expired lock, crashes and
\* stalled jobs never let a second turn in (turn-lock.ts:20-48).
MutualExclusion ==
    \A i, j \in Jobs \ lapsed : Section(i) /\ Section(j) => i = j

\* The same as a specification: who is in the section with a lease that holds.
Lease == INSTANCE LeaseLock WITH inside <- {j \in Jobs \ lapsed : Section(j)}

-----------------------------------------------------------------------------
(* Conservation of messages *)

InPending(m) == {i \in DOMAIN pending : pending[i].msg = m}
InHand(m) ==
    {at \in UNION {{j} \X DOMAIN run[j].work : j \in Jobs} :
        run[at[1]].work[at[2]].entry.msg = m}

\* The defer_resume job that holds the message has not injected it yet.
PutOff(m) ==
    /\ resume[m].at \in {"delayed", "picked", "orphan"}
    /\ <<m, resume[m].entry.defers>> \notin tokens

Copies(m) ==
    Cardinality(InPending(m)) + Cardinality(InHand(m))
        + (IF PutOff(m) THEN 1 ELSE 0) + settled[m]

\* No message is handled twice, whatever overlaps, fails, is retried, or is
\* run again after a crash (buffer.ts:59-65: "append, then scheduleTurn" of a
\* retried defer_resume job must not append twice; actor.ts:424-426).
HandledAtMostOnce == \A m \in Msgs : Copies(m) <= 1

\* The handler of the message stored it (and was not killed half-way).
Accepted(m) == ingress[m] = "stored" /\ m \notin cut

\* Without a crash an accepted message is always in exactly one place: the
\* mailbox, the hands of one turn, a defer_resume job, or settled
\* (actor.ts:317, 327-331: an interrupt puts off and never cancels).  A message
\* whose defer_resume job failed for good (producer.ts:110) is cut off.
Conserved ==
    (\A i \in DOMAIN spent : spent[i] # "crash") => \A m \in Msgs : Accepted(m) => Copies(m) = 1

-----------------------------------------------------------------------------
(* Wake-ups *)

\* No process of the chat is under way or due: only a new message can start one.
Quiescent ==
    /\ \A j \in Jobs : ~Live(j)
    /\ \A c \in Callers : Idle(c)
    /\ \A m \in Msgs : ~InFlight(m) /\ resume[m].at = "none"

\* A mailbox is left without a turn only in the one way the code accounts for,
\* a dirty mark nobody read, or because the process or the Redis command that
\* would have woken it died, or the worker gave the job up that would have: a
\* chat_turn job that stalled twice (worker.ts:76-84), a defer_resume job out of
\* attempts (producer.ts:110).  Pointer, dirty mark and recheck otherwise close
\* every race between a message and the end of a turn (actor.ts:750-765,
\* turn-scheduler.ts:126-146).
NoSilentStranding ==
    Quiescent /\ pending # <<>> =>
        dirty \/ \E e \in EntriesOf(pending) : e.msg \in cut

\* Something besides the run of j will still bring the chat a turn.
Driven(j) ==
    \/ \E k \in Jobs \ {j} : Live(k)
    \/ \E c \in Callers : ~Idle(c)
    \/ \E m \in Msgs : resume[m].at # "none"

\* "Messages arriving while the turn runs are marked dirty and the tail of the
\* turn schedules again" (turn-scheduler.ts:142): so also when the turn found an
\* empty mailbox ("a duplicate turn drains an empty buffer and exits",
\* actor.ts:425-426) and is the only one left to read the mark.
EmptyTurnReadsTheMark ==
    [][\A j \in Jobs :
          Release(j) /\ run[j].at = "exit" /\ dirty /\ pending # <<>> => Driven(j)]_vars

-----------------------------------------------------------------------------
(* Progress *)

\* Every process of the running program keeps taking its next step; jobs of the
\* queue are promoted, taken and, after a crash, given back.
Fairness ==
    /\ \A m \in Msgs : WF_vars(Store(m)) /\ WF_vars(ResumeStep(m))
                       /\ WF_vars(ResumeStalls(m)) /\ WF_vars(ResumeFailStalled(m))
    /\ \A c \in Callers : WF_vars(CallStep(c))
    /\ \A j \in Jobs : WF_vars(TurnStep(j)) /\ WF_vars(Clock(j)) /\ WF_vars(Stall(j))
                       /\ WF_vars(FailStalled(j))
    /\ WF_vars(Expire) /\ WF_vars(CloseIntake) /\ WF_vars(Exit)

LiveSpec == Spec /\ Fairness

\* An accepted message is settled, or it is in a mailbox that waits, marked
\* dirty, for the next message: no chain of interrupts, put-offs, lost locks
\* and reschedulings goes on for ever, or ends without it.
Progress ==
    \A m \in Msgs :
        Accepted(m) ~> (settled[m] > 0 \/ m \in cut \/ (Quiescent /\ dirty))
=============================================================================
