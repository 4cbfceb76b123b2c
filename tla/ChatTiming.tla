----------------------------- MODULE ChatTiming -----------------------------
(***************************************************************************)
(* The timing state of one chat (pipeline/timing/state-store.ts,           *)
(* chat-runtime.ts): RUNNING, WAIT ("let them finish") or STOP.            *)
(*                                                                         *)
(* A turn (pipeline/turn/actor.ts) reads the state, silences the people    *)
(* the WAIT is about and judges the rest; the gate (post-judge.ts) or the  *)
(* heart (heart.ts) may answer WAIT, which keeps the entry as the wait     *)
(* anchor, schedules a delayed wait_resume job and only then writes the    *)
(* state.  The job reads the state, writes RUNNING, takes the anchor and   *)
(* puts it back into the mailbox.  Turns are serialised by the execution   *)
(* lock; wait_resume jobs run next to them, and every Redis call is an     *)
(* await between which the other side and the clock move.                  *)
(*                                                                         *)
(* Time is a bounded clock in seconds (of some size); WAITs of Secs, the   *)
(* tolerance, the clamp and the STOP of a denied send keep their order.    *)
(***************************************************************************)
EXTENDS TurnPlan

CONSTANTS Msgs,          \* messages, each arrives once
          Sender,        \* [Msgs -> people]
          Direct,        \* the messages that address the bot
          None,          \* no anchor
          Secs,          \* lengths of a WAIT, bounded by the code to MIN..MAX
          Tolerance,     \* 2 s: a job further off belongs to another WAIT
          Clamp,         \* 60 s: a WAIT whose job could not be scheduled
          StopTtl,       \* 20 min: a STOP after a denied send
          MaxClock,      \* bound: the clock; no WAIT is begun that ends after it
          MaxLatency,    \* bound: how long the calls of one WAIT take together
          MaxFaults,     \* bound: failed enqueues, denied sends, failed replays
          Faults         \* the kinds of fault the run looks at

ASSUME TimingAssumption ==
    /\ Sender \in [Msgs -> Nat]
    /\ Direct \subseteq Msgs
    /\ None \notin Msgs
    /\ Secs \subseteq Nat \ {0}
    /\ {Tolerance, Clamp, StopTtl, MaxClock, MaxLatency, MaxFaults} \subseteq Nat
    /\ Faults \subseteq {"enqueue", "denied", "replay"}

VARIABLES clock,
          chat,      \* the hash xxb:timing:state, with its EXPIRE
          anchor,    \* the message under xxb:turn:waitanchor, or None
          jobs,      \* wait_resume jobs, delayed or running
          box,       \* the chat's pending entries
          turn,      \* the running turn
          arrived,   \* messages seen so far
          replays,   \* ghost: how often a message came back
          excused,   \* ghost: something ended the anchor's WAIT out of order
          faults     \* faults so far

vars == <<clock, chat, anchor, jobs, box, turn, arrived, replays, excused, faults>>
ghosts == <<replays, excused>>

-----------------------------------------------------------------------------
(* The hash *)

Never == MaxClock + 1       \* TIMING_STATE_TTL_SEC: beyond the horizon

Fresh == [state |-> "RUNNING", until |-> 0, uids |-> {}, expires |-> Never]

Stored == IF clock < chat.expires THEN chat ELSE Fresh

Expiry(ttl) == IF clock + ttl < Never THEN clock + ttl ELSE Never

\* A WAIT that is over reads as RUNNING; nothing is written.
GetChatState ==
    IF Stored.state = "WAIT" /\ Stored.until <= clock
    THEN [Stored EXCEPT !.state = "RUNNING"] ELSE Stored

EnterRunning == chat' = Fresh

\* Any other write: the fields stay, the key lives on for the full TTL.
Touch == chat' = [Stored EXCEPT !.expires = Never]

EnterStop(ttl) == chat' = [Fresh EXCEPT !.state = "STOP", !.expires = Expiry(ttl)]

EnterWait(until, uids) ==
    chat' = [state |-> "WAIT", until |-> until, uids |-> uids, expires |-> Never]

Suppression(s) ==
    IF s.state = "RUNNING" THEN [kind |-> "none"]
    ELSE IF s.state = "STOP" THEN [kind |-> "all"]
    ELSE [kind |-> "some", uids |-> s.uids]

-----------------------------------------------------------------------------
(* Messages and time *)

Entry(m, replay) ==
    [msg |-> m, uid |-> Sender[m], direct |-> m \in Direct, isEdit |-> FALSE,
     cmd |-> FALSE, replay |-> replay, ts |-> 0]

Arrive(m) ==
    /\ m \notin arrived
    /\ arrived' = arrived \cup {m}
    /\ box' = Append(box, Entry(m, FALSE))
    /\ UNCHANGED <<clock, chat, anchor, jobs, turn, ghosts, faults>>

Tick ==
    /\ clock < MaxClock
    /\ turn.at \in {"enqueue", "enter"} => clock - turn.since < MaxLatency
    /\ clock' = clock + 1
    /\ UNCHANGED <<chat, anchor, jobs, box, turn, arrived, ghosts, faults>>

Fault(kind) ==
    /\ kind \in Faults
    /\ faults < MaxFaults
    /\ faults' = faults + 1

-----------------------------------------------------------------------------
(* A turn *)

Idle == [at |-> "idle", todo |-> <<>>, since |-> 0, sec |-> 0, until |-> 0, uids |-> {}]

Judge(todo) ==
    turn' = IF todo = <<>> THEN Idle ELSE [Idle EXCEPT !.at = "judge", !.todo = todo]

Now == Head(turn.todo)

NextEntry == Judge(Tail(turn.todo))

\* Drain, read the state, decide whom to silence; a direct entry wakes first.
\* Every fresh entry goes through bookkeeping, judged or not, which counts it
\* (bumpGatePendingCount) and so renews the key.
Start ==
    /\ turn.at = "idle"
    /\ box # <<>>
    /\ LET es   == Digested(box)
           now  == GetChatState
           mode == Effective(es, Suppression(now))
           wake == HasDirect(es) /\ now.state # "RUNNING"
       IN  /\ Judge(Kept(es, Judged(es, mode)))
           /\ IF wake THEN EnterRunning
              ELSE IF \E i \in DOMAIN es : ~es[i].replay THEN Touch
              ELSE UNCHANGED chat
           /\ excused' = (excused \/ wake)
    /\ box' = <<>>
    /\ UNCHANGED <<clock, anchor, jobs, arrived, replays, faults>>

\* continue: the gate's verdict ends whatever WAIT or STOP is on.
Continue ==
    /\ turn.at = "judge"
    /\ ~Now.replay
    /\ EnterRunning
    /\ excused' = TRUE
    /\ turn' = [turn EXCEPT !.at = "send"]
    /\ UNCHANGED <<clock, anchor, jobs, box, arrived, replays, faults>>

\* A replay, the heart or the continuation window: no gate, no write.
Bypass ==
    /\ turn.at = "judge"
    /\ ~Now.direct
    /\ turn' = [turn EXCEPT !.at = "send"]
    /\ UNCHANGED <<clock, chat, anchor, jobs, box, arrived, ghosts, faults>>

\* no_action: the entry is dropped, the chat goes on.
NoAction ==
    /\ turn.at = "judge"
    /\ ~Now.direct /\ ~Now.replay
    /\ Touch
    /\ NextEntry
    /\ UNCHANGED <<clock, anchor, jobs, box, arrived, ghosts, faults>>

\* The reply is sent and recorded.
Sent ==
    /\ turn.at = "send"
    /\ Touch
    /\ NextEntry
    /\ UNCHANGED <<clock, anchor, jobs, box, arrived, ghosts, faults>>

\* The group denies the send: STOP, for a while.
Denied ==
    /\ turn.at = "send"
    /\ Fault("denied")
    /\ EnterStop(StopTtl)
    /\ NextEntry
    /\ excused' = TRUE
    /\ UNCHANGED <<clock, anchor, jobs, box, arrived, replays>>

-----------------------------------------------------------------------------
(* WAIT: the anchor, the job, the set of people, the state *)

\* wait: one anchor per chat, a later one replaces it.
SetWaitAnchor(sec) ==
    /\ turn.at = "judge"
    /\ ~Now.direct /\ ~Now.replay
    /\ clock + sec <= MaxClock
    /\ anchor' = Now.msg
    /\ excused' = FALSE
    /\ turn' = [turn EXCEPT !.at = "enqueue", !.since = clock, !.sec = sec]
    /\ UNCHANGED <<clock, chat, jobs, box, arrived, replays, faults>>

\* Mutant: one job id per chat, so a second job is refused silently.
EnqueueOncePerChat ==
    /\ turn.at = "enqueue"
    /\ jobs' = IF jobs # {} THEN jobs
               ELSE {[msg |-> Now.msg, due |-> turn.since + turn.sec, at |-> "delayed", got |-> None]}
    /\ turn' = [turn EXCEPT !.at = "enter", !.until = clock + turn.sec, !.uids = Stored.uids]
    /\ excused' = (excused \/ clock - turn.since > Tolerance)
    /\ UNCHANGED <<clock, chat, anchor, box, arrived, replays, faults>>

\* The job is due sec after the call began; when it is in, enterWait takes a
\* later now for the end of the WAIT and reads the people it already names.
EnqueueWaitResume ==
    /\ turn.at = "enqueue"
    /\ jobs' = jobs \cup {[msg |-> Now.msg, due |-> turn.since + turn.sec, at |-> "delayed", got |-> None]}
    /\ turn' = [turn EXCEPT !.at = "enter", !.until = clock + turn.sec, !.uids = Stored.uids]
    /\ excused' = (excused \/ clock - turn.since > Tolerance)
    /\ UNCHANGED <<clock, chat, anchor, box, arrived, replays, faults>>

\* Twice refused: a WAIT without a job, which ends by itself.
EnqueueFails ==
    /\ turn.at = "enqueue"
    /\ Fault("enqueue")
    /\ turn' = [turn EXCEPT !.at = "enter", !.until = clock + Clamp, !.uids = Stored.uids]
    /\ excused' = TRUE
    /\ UNCHANGED <<clock, chat, anchor, jobs, box, arrived, replays>>

WriteWait ==
    /\ turn.at = "enter"
    /\ EnterWait(turn.until, turn.uids \cup {Now.uid})
    /\ NextEntry
    /\ UNCHANGED <<clock, anchor, jobs, box, arrived, ghosts, faults>>

-----------------------------------------------------------------------------
(* handleWaitResume *)

Becomes(j, at, got) == jobs' = (jobs \ {j}) \cup {[j EXCEPT !.at = at, !.got = got]}

Apart(a, b) == IF a < b THEN b - a ELSE a - b

\* Mutant: the job has to be due exactly at the end of the WAIT.
ResumeExactly(j) ==
    /\ j.at = "delayed"
    /\ j.due <= clock
    /\ LET now == GetChatState
           mine == now.state = "WAIT" /\ j.due = now.until
       IN  /\ IF mine THEN Becomes(j, "wake", None) ELSE jobs' = jobs \ {j}
           /\ excused' = (excused \/ (~mine /\ (now.until <= clock \/ turn.at = "enter")))
    /\ UNCHANGED <<clock, chat, anchor, box, turn, arrived, replays, faults>>

\* Read the state: a job of another WAIT, or of none, is dropped.
ResumeReads(j) ==
    /\ j.at = "delayed"
    /\ j.due <= clock
    /\ LET now == GetChatState
           mine == now.state = "WAIT" /\ Apart(j.due, now.until) <= Tolerance
       IN  /\ IF mine THEN Becomes(j, "wake", None) ELSE jobs' = jobs \ {j}
           /\ excused' = (excused \/ (~mine /\ (now.until <= clock \/ turn.at = "enter")))
    /\ UNCHANGED <<clock, chat, anchor, box, turn, arrived, replays, faults>>

ResumeWakes(j) ==
    /\ j.at = "wake"
    /\ EnterRunning
    /\ Becomes(j, "take", None)
    /\ UNCHANGED <<clock, anchor, box, turn, arrived, ghosts, faults>>

\* Mutant: nobody looks whether there was an anchor.
ResumeTakesAny(j) ==
    /\ j.at = "take"
    /\ anchor' = None
    /\ Becomes(j, "replay", anchor)
    /\ UNCHANGED <<clock, chat, box, turn, arrived, ghosts, faults>>

\* Mutant: GET without DEL.
ResumeCopies(j) ==
    /\ j.at = "take"
    /\ IF anchor = None THEN jobs' = jobs \ {j} ELSE Becomes(j, "replay", anchor)
    /\ UNCHANGED <<clock, chat, anchor, box, turn, arrived, ghosts, faults>>

\* GETDEL: whatever anchor is there now.
ResumeTakes(j) ==
    /\ j.at = "take"
    /\ anchor' = None
    /\ IF anchor = None THEN jobs' = jobs \ {j} ELSE Becomes(j, "replay", anchor)
    /\ UNCHANGED <<clock, chat, box, turn, arrived, ghosts, faults>>

\* Back into the mailbox, and a turn at once.
ResumeReplays(j) ==
    /\ j.at = "replay"
    /\ box' = Append(box, Entry(j.got, TRUE))
    /\ jobs' = jobs \ {j}
    /\ replays' = [replays EXCEPT ![j.got] = @ + 1]
    /\ UNCHANGED <<clock, chat, anchor, turn, arrived, excused, faults>>

\* The mailbox refuses: the chat is unblocked, the anchor is gone.
ReplayFails(j) ==
    /\ j.at = "replay"
    /\ Fault("replay")
    /\ jobs' = jobs \ {j}
    /\ UNCHANGED <<clock, chat, anchor, box, turn, arrived, ghosts>>

-----------------------------------------------------------------------------
Init ==
    /\ clock = 0
    /\ chat = Fresh
    /\ anchor = None
    /\ jobs = {}
    /\ box = <<>>
    /\ turn = Idle
    /\ arrived = {}
    /\ replays = [m \in Msgs |-> 0]
    /\ excused = FALSE
    /\ faults = 0

TurnStep ==
    \/ Start \/ Continue \/ Bypass \/ NoAction \/ Sent \/ Denied
    \/ \E sec \in Secs : SetWaitAnchor(sec)
    \/ EnqueueWaitResume \/ EnqueueFails \/ WriteWait

ResumeStep(j) ==
    \/ ResumeReads(j) \/ ResumeWakes(j) \/ ResumeTakes(j)
    \/ ResumeReplays(j) \/ ReplayFails(j)

Next ==
    \/ \E m \in Msgs : Arrive(m)
    \/ Tick
    \/ TurnStep
    \/ \E j \in jobs : ResumeStep(j)

Spec == Init /\ [][Next]_vars

\* Time passes, a started turn goes on, the worker runs the jobs that are due.
LiveSpec ==
    /\ Spec
    /\ WF_vars(Tick)
    /\ WF_vars(TurnStep)
    /\ WF_vars(\E j \in jobs : ResumeStep(j))

-----------------------------------------------------------------------------
(* Properties *)

Jobs == [msg : Msgs, due : Nat, at : {"delayed", "wake", "take", "replay"}, got : Msgs \cup {None}]

\* The variables hold what the code can put there.
TypeOK ==
    /\ clock \in 0..MaxClock
    /\ chat.state \in {"RUNNING", "WAIT", "STOP"}
    /\ chat.uids \subseteq {Sender[m] : m \in Msgs}
    /\ chat.expires \in 0..Never
    /\ anchor \in Msgs \cup {None}
    /\ jobs \subseteq Jobs
    /\ \A j \in jobs : j.at = "replay" <=> j.got # None
    /\ turn.at \in {"idle", "judge", "send", "enqueue", "enter"}
    /\ faults \in 0..MaxFaults

\* Several wait_resume jobs may run at once and the anchor is one per chat, yet
\* a message that was told to wait comes back at most once, so it is never
\* answered twice (chat-runtime.ts:258-288, turn/buffer.ts:213-228).
ReplayedOnce ==
    \A m \in Msgs :
        replays[m] + Cardinality({j \in jobs : j.at = "replay" /\ j.got = m}) <= 1

\* An anchor with no job left to bring it back was given up for a reason: the
\* chat was woken or stopped by somebody else, the job could not be scheduled,
\* it was scheduled slowly, or it read the state before its WAIT was written or
\* at its end (chat-runtime.ts:217-241).  Nothing else forgets a message.
ForgottenForAReason ==
    anchor # None /\ jobs = {} /\ turn.at # "enqueue" => excused

\* A message that was told to wait always has a wait_resume job on its way, so
\* "wait a moment" does not become silence (chat-runtime.ts:255-258).
NothingForgotten == anchor # None /\ turn.at # "enqueue" => jobs # {}

\* A message that waits is brought back, unless something ended its WAIT out of
\* order: a delayed job is neither stuck nor put off for ever.
VisitFollows == \A m \in Msgs : anchor = m ~> (anchor # m \/ excused)

=============================================================================
