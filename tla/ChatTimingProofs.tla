-------------------------- MODULE ChatTimingProofs --------------------------
(***************************************************************************)
(* A message that was told to wait is not forgotten without a reason and   *)
(* comes back at most once: for any number of messages, people and WAITs,  *)
(* any lengths, and any clock.                                             *)
(***************************************************************************)
EXTENDS ChatTiming, BurstProofs

\* What the records hold, as far as it matters here.
TurnShape ==
    /\ DOMAIN turn = {"at", "todo", "since", "sec", "until", "uids"}
    /\ turn.at = "enqueue" => turn.since \in 0..clock /\ turn.sec \in Nat
ChatShape == DOMAIN chat = {"state", "until", "uids", "expires"}
JobsShape == \A j \in jobs : DOMAIN j = {"msg", "due", "at", "got"}
Shapes ==
    /\ clock \in 0..MaxClock
    /\ TurnShape /\ ChatShape /\ JobsShape

\* The WAIT the job will find: the one about to be written, or the one written,
\* which nothing but a turn or another job ends before its time.
FindsItsWait(j) ==
    /\ j.at = "delayed"
    /\ IF turn.at = "enter" THEN Apart(j.due, turn.until) <= Tolerance
       ELSE /\ chat.state = "WAIT"
            /\ chat.expires = Never
            /\ Apart(j.due, chat.until) <= Tolerance

\* The job will take the anchor, whosever it is.
BringsBack(j) == j.at \in {"wake", "take"} \/ FindsItsWait(j)

\* That some job is left is not inductive: it must also find its own WAIT.
AnchorKept ==
    anchor # None /\ ~excused /\ turn.at # "enqueue" => \E j \in jobs : BringsBack(j)

TimingInv == Shapes /\ AnchorKept

LEMMA TimingInvSuffices == TimingInv => ForgottenForAReason
  BY DEF TimingInv, AnchorKept, Shapes, ForgottenForAReason

LEMMA InitTimingInv == Init => TimingInv
  <1> SUFFICES ASSUME Init PROVE TimingInv
    OBVIOUS
  <1>1. clock \in 0..MaxClock
    BY TimingAssumption DEF Init
  <1>2. TurnShape /\ turn.at = "idle"
    BY DEF Init, TurnShape, Idle
  <1>3. ChatShape
    BY DEF Init, ChatShape, Fresh
  <1>4. JobsShape
    BY DEF Init, JobsShape
  <1>5. AnchorKept
    BY DEF Init, AnchorKept
  <1> QED BY <1>1, <1>2, <1>3, <1>4, <1>5 DEF TimingInv, Shapes

-----------------------------------------------------------------------------
(* The hash and the turn record *)

\* A key that is kept for the full TTL is there.
LEMMA StoredIsChat ==
  ASSUME clock \in 0..MaxClock, chat.expires = Never
  PROVE  Stored = chat
  BY TimingAssumption DEF Stored, Never

LEMMA TouchEffect ==
  ASSUME clock \in 0..MaxClock, ChatShape, Touch
  PROVE  /\ ChatShape'
         /\ chat.expires = Never => chat' = [chat EXCEPT !.expires = Never]
  <1>1. DOMAIN Stored = {"state", "until", "uids", "expires"}
    BY DEF Stored, ChatShape, Fresh
  <1>2. ChatShape'
    BY <1>1 DEF Touch, ChatShape
  <1>3. chat.expires = Never => chat' = [chat EXCEPT !.expires = Never]
    BY StoredIsChat DEF Touch
  <1> QED BY <1>2, <1>3

LEMMA JudgeEffect ==
  ASSUME NEW todo, Judge(todo)
  PROVE  TurnShape' /\ turn'.at \in {"idle", "judge"}
  BY DEF Judge, TurnShape, Idle

\* A job that finds its WAIT still does after a step that leaves both alone.
LEMMA StillFinds ==
  ASSUME ChatShape, NEW j, BringsBack(j),
         \/ turn'.at = turn.at /\ turn'.until = turn.until
         \/ turn.at # "enter" /\ turn'.at # "enter",
         chat' = chat \/ (clock \in 0..MaxClock /\ Touch)
  PROVE  BringsBack(j)'
  <1>1. CASE chat' = chat
    BY <1>1 DEF BringsBack, FindsItsWait
  <1>2. CASE clock \in 0..MaxClock /\ Touch
    <2>1. chat.expires = Never => chat' = [chat EXCEPT !.expires = Never]
      BY <1>2, TouchEffect
    <2>2. chat.expires = Never =>
            chat'.state = chat.state /\ chat'.until = chat.until /\ chat'.expires = Never
      BY <2>1 DEF ChatShape
    <2> QED BY <2>2 DEF BringsBack, FindsItsWait
  <1> QED BY <1>1, <1>2

-----------------------------------------------------------------------------
(* The steps of a turn *)

\* A turn that neither waits nor ends a WAIT.
LEMMA PassingBy ==
  ASSUME TimingInv,
         UNCHANGED <<clock, anchor, jobs>>,
         chat' = chat \/ Touch,
         ~excused' => ~excused,
         TurnShape',
         turn.at \notin {"enqueue", "enter"},
         turn'.at \notin {"enqueue", "enter"}
  PROVE  TimingInv'
  <1>1. Shapes'
    BY TouchEffect DEF TimingInv, Shapes, JobsShape, ChatShape
  <1>2. AnchorKept'
    <2> SUFFICES ASSUME anchor # None, ~excused'
                 PROVE  \E j \in jobs : BringsBack(j)'
      BY DEF AnchorKept
    <2>1. PICK j \in jobs : BringsBack(j)
      BY DEF TimingInv, AnchorKept
    <2> QED BY <2>1, StillFinds DEF TimingInv, Shapes
  <1> QED BY <1>1, <1>2 DEF TimingInv
LEMMA StartKeeps ==
  ASSUME TimingInv, Start
  PROVE  TimingInv'
  <1>1. UNCHANGED <<clock, anchor, jobs>> /\ turn.at = "idle"
    BY DEF Start
  <1>2. PICK wake, todo :
          /\ Judge(todo)
          /\ IF wake THEN EnterRunning ELSE Touch \/ UNCHANGED chat
          /\ excused' = (excused \/ wake)
    <2> DEFINE wakes == HasDirect(Digested(box)) /\ GetChatState.state # "RUNNING"
    <2>1. \E todo : Judge(todo)
      BY DEF Start
    <2>2. /\ IF wakes THEN EnterRunning ELSE Touch \/ UNCHANGED chat
          /\ excused' = (excused \/ wakes)
      BY DEF Start
    <2> HIDE DEF wakes
    <2> QED BY <2>1, <2>2
  <1>3. TurnShape' /\ turn'.at \in {"idle", "judge"}
    BY <1>2, JudgeEffect
  <1>4. CASE wake
    <2>1. chat' = Fresh /\ excused'
      BY <1>2, <1>4 DEF EnterRunning
    <2> QED BY <1>1, <1>3, <2>1
            DEF TimingInv, Shapes, AnchorKept, ChatShape, JobsShape, Fresh
  <1>5. CASE ~wake
    <2>1. chat' = chat \/ Touch
      BY <1>2, <1>5
    <2>2. ~excused' => ~excused
      BY <1>2, Zenon
    <2> QED BY <1>1, <1>3, <2>1, <2>2, PassingBy
  <1> QED BY <1>4, <1>5

LEMMA GoneOutOfOrder ==
  ASSUME TimingInv, Continue \/ Denied \/ EnqueueFails
  PROVE  TimingInv'
  <1>1. UNCHANGED <<clock, anchor, jobs>> /\ excused'
    BY DEF Continue, Denied, EnqueueFails
  <1>2. ChatShape'
    BY DEF Continue, Denied, EnqueueFails, EnterRunning, EnterStop, ChatShape, Fresh,
           TimingInv, Shapes
  <1>3. TurnShape'
    <2>1. CASE Continue \/ EnqueueFails
      BY <1>1, <2>1 DEF Continue, EnqueueFails, TurnShape, TimingInv, Shapes
    <2>2. CASE Denied
      <3>1. Judge(Tail(turn.todo))
        BY <2>2 DEF Denied, NextEntry
      <3> QED BY <3>1, JudgeEffect
    <2> QED BY <2>1, <2>2
  <1> QED BY <1>1, <1>2, <1>3 DEF TimingInv, Shapes, AnchorKept, JobsShape

LEMMA GateKeeps ==
  ASSUME TimingInv, Bypass \/ NoAction \/ Sent
  PROVE  TimingInv'
  <1>1. /\ UNCHANGED <<clock, anchor, jobs, excused>>
        /\ chat' = chat \/ Touch
        /\ turn.at \in {"judge", "send"}
    BY DEF Bypass, NoAction, Sent, ghosts
  <1>2. TurnShape' /\ turn'.at \notin {"enqueue", "enter"}
    <2>1. CASE Bypass
      BY <2>1 DEF Bypass, TurnShape, TimingInv, Shapes
    <2>2. CASE NoAction \/ Sent
      <3>1. Judge(Tail(turn.todo))
        BY <2>2 DEF NoAction, Sent, NextEntry
      <3> QED BY <3>1, JudgeEffect
    <2> QED BY <2>1, <2>2
  <1> QED BY <1>1, <1>2, PassingBy

LEMMA SetWaitAnchorKeeps ==
  ASSUME TimingInv, NEW sec \in Secs, SetWaitAnchor(sec)
  PROVE  TimingInv'
  <1>1. /\ UNCHANGED <<clock, chat, jobs>>
        /\ turn' = [turn EXCEPT !.at = "enqueue", !.since = clock, !.sec = sec]
    BY DEF SetWaitAnchor
  <1>2. /\ DOMAIN turn' = {"at", "todo", "since", "sec", "until", "uids"}
        /\ turn'.at = "enqueue" /\ turn'.since = clock /\ turn'.sec = sec
    BY <1>1 DEF TimingInv, Shapes, TurnShape
  <1>3. clock \in 0..clock /\ sec \in Nat
    BY TimingAssumption DEF TimingInv, Shapes
  <1>4. TurnShape'
    BY <1>1, <1>2, <1>3 DEF TurnShape
  <1> QED BY <1>1, <1>2, <1>4 DEF TimingInv, Shapes, ChatShape, JobsShape, AnchorKept

\* The job is due when the WAIT will end, give or take what the calls took.
LEMMA EnqueueKeeps ==
  ASSUME TimingInv, EnqueueWaitResume
  PROVE  TimingInv'
  <1>1. PICK j :
        /\ j = [msg |-> Now.msg, due |-> turn.since + turn.sec, at |-> "delayed", got |-> None]
        /\ UNCHANGED <<clock, chat, anchor>>
        /\ turn.at = "enqueue"
        /\ jobs' = jobs \cup {j}
        /\ turn' = [turn EXCEPT !.at = "enter", !.until = clock + turn.sec, !.uids = Stored.uids]
        /\ excused' = (excused \/ clock - turn.since > Tolerance)
    BY DEF EnqueueWaitResume
  <1>2. /\ DOMAIN turn' = {"at", "todo", "since", "sec", "until", "uids"}
        /\ turn'.at = "enter" /\ turn'.until = clock + turn.sec
    BY <1>1 DEF TimingInv, Shapes, TurnShape
  <1>3. Shapes'
    <2>1. JobsShape'
      BY <1>1 DEF TimingInv, Shapes, JobsShape
    <2> QED BY <1>1, <1>2, <2>1 DEF TimingInv, Shapes, TurnShape, ChatShape
  <1>4. ~excused' => BringsBack(j)'
    <2>1. turn.since \in 0..clock /\ turn.sec \in Nat /\ clock \in Nat
      BY <1>1 DEF TimingInv, Shapes, TurnShape
    <2>2. clock - turn.since <= Tolerance => Apart(j.due, turn'.until) <= Tolerance
      BY <1>1, <1>2, <2>1 DEF Apart
    <2>3. ~excused' => ~(clock - turn.since > Tolerance)
      BY <1>1, Zenon
    <2>4. ~excused' => clock - turn.since <= Tolerance
      BY <2>1, <2>3, TimingAssumption
    <2> QED BY <1>1, <1>2, <2>2, <2>4 DEF BringsBack, FindsItsWait
  <1>5. j \in jobs'
    BY <1>1
  <1> QED BY <1>3, <1>4, <1>5 DEF TimingInv, AnchorKept

LEMMA WriteWaitKeeps ==
  ASSUME TimingInv, WriteWait
  PROVE  TimingInv'
  <1>1. /\ UNCHANGED <<clock, anchor, jobs, excused>>
        /\ turn.at = "enter"
        /\ EnterWait(turn.until, turn.uids \cup {Now.uid})
        /\ Judge(Tail(turn.todo))
    BY DEF WriteWait, NextEntry, ghosts
  <1>2. TurnShape' /\ turn'.at \in {"idle", "judge"}
    BY <1>1, JudgeEffect
  <1>3. ChatShape' /\ chat'.state = "WAIT" /\ chat'.until = turn.until /\ chat'.expires = Never
    BY <1>1 DEF EnterWait, ChatShape
  <1>4. \A j : BringsBack(j) => BringsBack(j)'
    BY <1>1, <1>2, <1>3 DEF BringsBack, FindsItsWait, Never
  <1> QED BY <1>1, <1>2, <1>3, <1>4 DEF TimingInv, Shapes, JobsShape, AnchorKept

-----------------------------------------------------------------------------
(* wait_resume jobs, messages and time *)

LEMMA BecomesEffect ==
  ASSUME JobsShape, NEW j \in jobs, NEW at, NEW got, Becomes(j, at, got)
  PROVE  /\ JobsShape'
         /\ \E k \in jobs' : k.at = at
         /\ jobs \ {j} \subseteq jobs'
  <1>1. PICK k : k = [j EXCEPT !.at = at, !.got = got] /\ jobs' = (jobs \ {j}) \cup {k}
    BY DEF Becomes
  <1>2. DOMAIN k = {"msg", "due", "at", "got"} /\ k.at = at
    BY <1>1 DEF JobsShape
  <1> QED BY <1>1, <1>2 DEF JobsShape

\* A job that finds its WAIT over, or another one, does so for a reason.
LEMMA ResumeReadsKeeps ==
  ASSUME TimingInv, NEW j \in jobs, ResumeReads(j)
  PROVE  TimingInv'
  <1> DEFINE now == GetChatState
             mine == now.state = "WAIT" /\ Apart(j.due, now.until) <= Tolerance
  <1>1. /\ UNCHANGED <<clock, chat, anchor, turn>>
        /\ j.at = "delayed"
        /\ IF mine THEN Becomes(j, "wake", None) ELSE jobs' = jobs \ {j}
        /\ excused' = (excused \/ (~mine /\ (now.until <= clock \/ turn.at = "enter")))
    BY DEF ResumeReads
  <1>2. ~excused' => ~excused /\ (mine \/ ~(now.until <= clock \/ turn.at = "enter"))
    <2> HIDE DEF mine, now
    <2> QED BY <1>1, Zenon
  <1>3. Shapes'
    <2>1. JobsShape'
      BY <1>1, BecomesEffect DEF TimingInv, Shapes, JobsShape
    <2> QED BY <1>1, <2>1 DEF TimingInv, Shapes, TurnShape, ChatShape
  <1>4. AnchorKept'
    <2> SUFFICES ASSUME anchor # None, ~excused', turn.at # "enqueue"
                 PROVE  \E k \in jobs' : BringsBack(k)'
      BY <1>1 DEF AnchorKept
    <2>1. PICK k \in jobs : BringsBack(k)
      BY <1>2 DEF TimingInv, AnchorKept
    <2>2. BringsBack(k)'
      BY <1>1, <2>1 DEF BringsBack, FindsItsWait
    <2>3. CASE k # j
      BY <1>1, <2>2, <2>3, BecomesEffect DEF TimingInv, Shapes
    <2>4. CASE mine
      <3>1. \E i \in jobs' : i.at = "wake"
        BY <1>1, <2>4, BecomesEffect DEF TimingInv, Shapes
      <3> QED BY <3>1 DEF BringsBack
    <2>5. CASE k = j /\ ~mine
      <3>1. turn.at # "enter" /\ ~(now.until <= clock)
        BY <1>2, <2>5
      <3>2. chat.state = "WAIT" /\ chat.expires = Never /\ Apart(j.due, chat.until) <= Tolerance
        BY <1>1, <2>1, <2>5, <3>1 DEF BringsBack, FindsItsWait
      <3>3. Stored = chat
        BY <3>2, StoredIsChat DEF TimingInv, Shapes
      <3>4. now.until = chat.until
        BY <3>3 DEF GetChatState, TimingInv, Shapes, ChatShape
      <3>5. now = chat
        BY <3>1, <3>3, <3>4 DEF GetChatState
      <3> QED BY <2>5, <3>2, <3>5
    <2> QED BY <2>3, <2>4, <2>5
  <1> QED BY <1>3, <1>4 DEF TimingInv

\* Waking the chat ends its WAIT, and the job goes on to take the anchor.
LEMMA ResumeWakesKeeps ==
  ASSUME TimingInv, NEW j \in jobs, ResumeWakes(j)
  PROVE  TimingInv'
  <1>1. /\ UNCHANGED <<clock, anchor, turn, excused>>
        /\ chat' = Fresh
        /\ Becomes(j, "take", None)
    BY DEF ResumeWakes, EnterRunning, ghosts
  <1>2. JobsShape' /\ \E k \in jobs' : k.at = "take"
    BY <1>1, BecomesEffect DEF TimingInv, Shapes
  <1>3. Shapes'
    BY <1>1, <1>2 DEF TimingInv, Shapes, TurnShape, ChatShape, Fresh
  <1> QED BY <1>2, <1>3 DEF TimingInv, AnchorKept, BringsBack

LEMMA ResumeTakesKeeps ==
  ASSUME TimingInv, NEW j \in jobs, ResumeTakes(j)
  PROVE  TimingInv'
  <1>1. /\ UNCHANGED <<clock, chat, turn>>
        /\ anchor' = None
        /\ jobs' = jobs \ {j} \/ Becomes(j, "replay", anchor)
    BY DEF ResumeTakes
  <1>2. JobsShape'
    BY <1>1, BecomesEffect DEF TimingInv, Shapes, JobsShape
  <1> QED BY <1>1, <1>2 DEF TimingInv, Shapes, TurnShape, ChatShape, AnchorKept

\* The job that goes no longer was the one to take the anchor.
LEMMA ResumeEndsKeeps ==
  ASSUME TimingInv, NEW j \in jobs, ResumeReplays(j) \/ ReplayFails(j)
  PROVE  TimingInv'
  <1>1. /\ UNCHANGED <<clock, chat, anchor, turn, excused>>
        /\ j.at = "replay"
        /\ jobs' = jobs \ {j}
    BY DEF ResumeReplays, ReplayFails, ghosts
  <1>2. \A k : BringsBack(k) => BringsBack(k)' /\ k # j
    BY <1>1 DEF BringsBack, FindsItsWait
  <1> QED BY <1>1, <1>2 DEF TimingInv, Shapes, TurnShape, ChatShape, JobsShape, AnchorKept

LEMMA TimePasses ==
  ASSUME TimingInv, Tick \/ UNCHANGED vars \/ \E m \in Msgs : Arrive(m)
  PROVE  TimingInv'
  <1>1. /\ UNCHANGED <<chat, anchor, jobs, turn, excused>>
        /\ clock' = clock \/ (clock < MaxClock /\ clock' = clock + 1)
    BY DEF Tick, Arrive, vars, ghosts
  <1>2. Shapes'
    <2>1. clock \in 0..MaxClock /\ MaxClock \in Nat
      BY TimingAssumption DEF TimingInv, Shapes
    <2>2. clock' \in 0..MaxClock
      BY <1>1, <2>1
    <2>3. TurnShape'
      BY <1>1, <2>1 DEF TimingInv, Shapes, TurnShape
    <2> QED BY <1>1, <2>2, <2>3 DEF TimingInv, Shapes, ChatShape, JobsShape
  <1>3. \A k : BringsBack(k) => BringsBack(k)'
    BY <1>1 DEF BringsBack, FindsItsWait
  <1> QED BY <1>1, <1>2, <1>3 DEF TimingInv, AnchorKept

-----------------------------------------------------------------------------
\* An anchor with no job left to bring it back was given up for one of the
\* reasons the ghost excused records (chat-runtime.ts:217-241,
\* state-store.ts:224-251): for any messages, people, lengths of WAITs and
\* latencies, and however far the clock goes.
THEOREM NoneForgotten == Spec => []ForgottenForAReason
  <1>1. TimingInv /\ [Next]_vars => TimingInv'
    <2> SUFFICES ASSUME TimingInv, [Next]_vars PROVE TimingInv'
      OBVIOUS
    <2>1. CASE Tick \/ UNCHANGED vars \/ \E m \in Msgs : Arrive(m)
      BY <2>1, TimePasses
    <2>2. CASE TurnStep
      BY <2>2, StartKeeps, GoneOutOfOrder, GateKeeps, SetWaitAnchorKeeps, EnqueueKeeps,
         WriteWaitKeeps DEF TurnStep
    <2>3. ASSUME NEW j \in jobs, ResumeStep(j) PROVE TimingInv'
      BY <2>3, ResumeReadsKeeps, ResumeWakesKeeps, ResumeTakesKeeps, ResumeEndsKeeps
         DEF ResumeStep
    <2> QED BY <2>1, <2>2, <2>3 DEF Next
  <1> QED BY InitTimingInv, TimingInvSuffices, <1>1, PTL DEF Spec

-----------------------------------------------------------------------------
(* Types *)

People == {Sender[m] : m \in Msgs}
BoxEntry ==
    [msg : Msgs, uid : People, direct : BOOLEAN, isEdit : BOOLEAN, cmd : BOOLEAN,
     replay : BOOLEAN, ts : Nat]
TurnRecord ==
    [at : {"idle", "judge", "send", "enqueue", "enter"}, todo : Seq(BoxEntry), since : Nat,
     sec : Nat, until : Nat, uids : SUBSET People]
ChatRecord ==
    [state : {"RUNNING", "WAIT", "STOP"}, until : Nat, uids : SUBSET People, expires : 0..Never]

\* A turn that is under way is at an entry.
TurnTyped == turn \in TurnRecord /\ (turn.at # "idle" => turn.todo # <<>>)
JobsTyped == jobs \subseteq Jobs /\ \A j \in jobs : j.at = "replay" <=> j.got # None
RestTyped ==
    /\ clock \in 0..MaxClock
    /\ anchor \in Msgs \cup {None}
    /\ box \in Seq(BoxEntry)
    /\ arrived \subseteq Msgs
    /\ replays \in [Msgs -> Nat]
    /\ faults \in 0..MaxFaults
Typed == chat \in ChatRecord /\ TurnTyped /\ JobsTyped /\ RestTyped

LEMMA EntryTyped ==
  ASSUME NEW m \in Msgs, NEW replay \in BOOLEAN
  PROVE  /\ Entry(m, replay) \in BoxEntry
         /\ Entry(m, replay).msg = m /\ Entry(m, replay).replay = replay
  BY DEF Entry, BoxEntry, People

\* The entry a turn is at, and those after it.
LEMMA NowTyped ==
  ASSUME TurnTyped, turn.at # "idle"
  PROVE  /\ turn.todo \in Seq(BoxEntry) /\ turn.todo # <<>>
         /\ Now \in BoxEntry /\ Tail(turn.todo) \in Seq(BoxEntry)
  <1>1. turn.todo \in Seq(BoxEntry) /\ turn.todo # <<>>
    BY DEF TurnTyped, TurnRecord
  <1>2. Head(turn.todo) \in BoxEntry /\ Tail(turn.todo) \in Seq(BoxEntry)
    BY <1>1
  <1> QED BY <1>1, <1>2 DEF Now

LEMMA JudgeTyped ==
  ASSUME NEW todo \in Seq(BoxEntry), Judge(todo)
  PROVE  TurnTyped'
  <1>1. <<>> \in Seq(BoxEntry)
    OBVIOUS
  <1> QED BY <1>1 DEF Judge, Idle, TurnTyped, TurnRecord

LEMMA ChatTypedStep ==
  ASSUME Typed, [Next]_vars
  PROVE  chat' \in ChatRecord
  <1>1. clock \in Nat /\ Never \in Nat /\ clock < Never
    BY TimingAssumption, SMTT(30) DEF Typed, RestTyped, Never
  <1>2. Fresh \in ChatRecord
    BY <1>1 DEF Fresh, ChatRecord
  <1>3. Stored \in ChatRecord
    BY <1>2 DEF Stored, Typed
  <1>4. ASSUME EnterRunning PROVE chat' \in ChatRecord
    BY <1>2, <1>4 DEF EnterRunning
  <1>5. ASSUME Touch PROVE chat' \in ChatRecord
    BY <1>1, <1>3, <1>5 DEF Touch, ChatRecord
  <1>6. ASSUME EnterStop(StopTtl) PROVE chat' \in ChatRecord
    <2>1. Expiry(StopTtl) \in 0..Never
      BY <1>1, TimingAssumption DEF Expiry
    <2> QED BY <1>2, <1>6, <2>1 DEF EnterStop, ChatRecord
  <1>7. ASSUME turn.at = "enter", EnterWait(turn.until, turn.uids \cup {Now.uid})
        PROVE  chat' \in ChatRecord
    <2>1. Now.uid \in People /\ turn.until \in Nat /\ turn.uids \in SUBSET People
      BY <1>7, NowTyped DEF Typed, TurnTyped, TurnRecord, BoxEntry
    <2> QED BY <1>1, <1>7, <2>1 DEF EnterWait, ChatRecord
  <1>8. CASE TurnStep
    <2>1. Start => EnterRunning \/ Touch \/ UNCHANGED chat
      BY DEF Start
    <2> QED BY <1>4, <1>5, <1>6, <1>7, <1>8, <2>1
            DEF TurnStep, Continue, Bypass, NoAction, Sent, Denied, SetWaitAnchor,
                EnqueueWaitResume, EnqueueFails, WriteWait, Typed
  <1>9. ASSUME NEW j \in jobs, ResumeStep(j) PROVE chat' \in ChatRecord
    BY <1>4, <1>9 DEF ResumeStep, ResumeReads, ResumeWakes, ResumeTakes, ResumeReplays,
                      ReplayFails, Typed
  <1>10. CASE Tick \/ UNCHANGED vars \/ \E m \in Msgs : Arrive(m)
    BY <1>10 DEF Tick, vars, Arrive, Typed
  <1> QED BY <1>8, <1>9, <1>10 DEF Next

LEMMA TurnTypedStep ==
  ASSUME Typed, [Next]_vars
  PROVE  TurnTyped'
  <1>1. ASSUME UNCHANGED turn PROVE TurnTyped'
    BY <1>1 DEF Typed, TurnTyped
  <1>2. ASSUME turn.at # "idle", NextEntry PROVE TurnTyped'
    BY <1>2, NowTyped, JudgeTyped DEF NextEntry, Typed
  <1>3. clock \in Nat /\ Stored.uids \in SUBSET People
    BY TimingAssumption DEF Typed, RestTyped, Stored, Fresh, ChatRecord
  <1>4. CASE Start
    <2>1. PICK now : Judge(Kept(Digested(box), Judged(Digested(box), now)))
      BY <1>4 DEF Start
    <2>2. PICK es \in Seq(BoxEntry) : es = Digested(box)
      BY DigestedThins DEF Typed, RestTyped
    <2>3. PICK K \in SUBSET DOMAIN es : K = Judged(es, now)
      BY JudgedIn
    <2>4. Kept(es, K) \in Seq(BoxEntry)
      BY KeptPicks
    <2> QED BY <2>1, <2>2, <2>3, <2>4, JudgeTyped
  <1>5. CASE Continue \/ Bypass
    BY <1>5 DEF Continue, Bypass, Typed, TurnTyped, TurnRecord
  <1>6. CASE NoAction \/ Sent \/ Denied \/ WriteWait
    BY <1>2, <1>6 DEF NoAction, Sent, Denied, WriteWait
  <1>7. ASSUME NEW sec \in Secs, SetWaitAnchor(sec) PROVE TurnTyped'
    <2>1. sec \in Nat
      BY TimingAssumption
    <2> QED BY <1>3, <1>7, <2>1 DEF SetWaitAnchor, Typed, TurnTyped, TurnRecord
  <1>8. CASE EnqueueWaitResume \/ EnqueueFails
    <2>1. PICK until \in Nat, uids \in SUBSET People :
            /\ turn' = [turn EXCEPT !.at = "enter", !.until = until, !.uids = uids]
            /\ turn.at = "enqueue"
      <3>1. clock + turn.sec \in Nat /\ clock + Clamp \in Nat
        BY <1>3, TimingAssumption, SMTT(30) DEF Typed, TurnTyped, TurnRecord
      <3> QED BY <1>3, <1>8, <3>1 DEF EnqueueWaitResume, EnqueueFails
    <2> QED BY <2>1 DEF Typed, TurnTyped, TurnRecord
  <1>9. ASSUME NEW j \in jobs, ResumeStep(j) PROVE TurnTyped'
    BY <1>1, <1>9 DEF ResumeStep, ResumeReads, ResumeWakes, ResumeTakes, ResumeReplays,
                      ReplayFails
  <1>10. CASE Tick \/ UNCHANGED vars \/ \E m \in Msgs : Arrive(m)
    BY <1>1, <1>10 DEF Tick, vars, Arrive
  <1> QED BY <1>4, <1>5, <1>6, <1>7, <1>8, <1>9, <1>10 DEF Next, TurnStep

LEMMA BecomesTyped ==
  ASSUME JobsTyped, NEW j \in jobs, NEW at, NEW got,
         (at \in {"wake", "take"} /\ got = None) \/ (at = "replay" /\ got \in Msgs),
         Becomes(j, at, got)
  PROVE  /\ JobsTyped'
         /\ \A k \in jobs' : k \in jobs \ {j} \/ (k.at = at /\ k.got = got)
         /\ \E k \in jobs' : k.at = at /\ k.got = got
  <1>1. PICK k : k = [j EXCEPT !.at = at, !.got = got] /\ jobs' = (jobs \ {j}) \cup {k}
    BY DEF Becomes
  <1>2. j \in Jobs
    BY DEF JobsTyped
  <1>3. k \in Jobs /\ k.at = at /\ k.got = got
    BY <1>1, <1>2 DEF Jobs
  <1> QED BY <1>1, <1>3, TimingAssumption DEF JobsTyped

LEMMA JobsTypedStep ==
  ASSUME Typed, [Next]_vars
  PROVE  JobsTyped'
  <1>1. ASSUME UNCHANGED jobs PROVE JobsTyped'
    BY <1>1 DEF Typed, JobsTyped
  <1>2. ASSUME NEW j, jobs' = jobs \ {j} PROVE JobsTyped'
    BY <1>2 DEF Typed, JobsTyped
  <1>3. CASE EnqueueWaitResume
    <2>1. PICK j : /\ j = [msg |-> Now.msg, due |-> turn.since + turn.sec, at |-> "delayed",
                           got |-> None]
                   /\ jobs' = jobs \cup {j}
      BY <1>3 DEF EnqueueWaitResume
    <2>2. Now.msg \in Msgs /\ turn.since + turn.sec \in Nat
      BY <1>3, NowTyped DEF EnqueueWaitResume, Typed, TurnTyped, TurnRecord, BoxEntry
    <2>3. j \in Jobs /\ j.at = "delayed" /\ j.got = None
      BY <2>1, <2>2, SMTT(30) DEF Jobs
    <2> QED BY <2>1, <2>3 DEF Typed, JobsTyped
  <1>4. CASE \/ Start \/ Continue \/ Bypass \/ NoAction \/ Sent \/ Denied
             \/ (\E sec \in Secs : SetWaitAnchor(sec)) \/ EnqueueFails \/ WriteWait
    BY <1>1, <1>4 DEF Start, Continue, Bypass, NoAction, Sent, Denied, SetWaitAnchor,
                      EnqueueFails, WriteWait
  <1>5. ASSUME NEW j \in jobs, ResumeStep(j) PROVE JobsTyped'
    <2>1. \/ jobs' = jobs \ {j}
          \/ Becomes(j, "wake", None) \/ Becomes(j, "take", None)
          \/ anchor # None /\ Becomes(j, "replay", anchor)
      BY <1>5 DEF ResumeStep, ResumeReads, ResumeWakes, ResumeTakes, ResumeReplays, ReplayFails
    <2>2. anchor \in Msgs \cup {None}
      BY DEF Typed, RestTyped
    <2> QED BY <1>2, <2>1, <2>2, BecomesTyped DEF Typed
  <1>6. CASE Tick \/ UNCHANGED vars \/ \E m \in Msgs : Arrive(m)
    BY <1>1, <1>6 DEF Tick, vars, Arrive
  <1> QED BY <1>3, <1>4, <1>5, <1>6 DEF Next, TurnStep

LEMMA RestTypedStep ==
  ASSUME Typed, [Next]_vars
  PROVE  RestTyped'
  <1>1. clock' \in 0..MaxClock
    <2>1. clock' = clock \/ (clock < MaxClock /\ clock' = clock + 1)
      BY DEF Next, TurnStep, ResumeStep, Arrive, Tick, Start, Continue, Bypass, NoAction, Sent,
             Denied, SetWaitAnchor, EnqueueWaitResume, EnqueueFails, WriteWait, ResumeReads,
             ResumeWakes, ResumeTakes, ResumeReplays, ReplayFails, vars
    <2> QED BY <2>1, TimingAssumption, SMTT(90) DEF Typed, RestTyped
  <1>2. faults' \in 0..MaxFaults
    <2>1. faults' = faults \/ (faults < MaxFaults /\ faults' = faults + 1)
      BY ZenonT(30) DEF Next, TurnStep, ResumeStep, Arrive, Tick, Start, Continue, Bypass, NoAction, Sent,
             Denied, SetWaitAnchor, EnqueueWaitResume, EnqueueFails, WriteWait, ResumeReads,
             ResumeWakes, ResumeTakes, ResumeReplays, ReplayFails, vars, Fault
    <2> QED BY <2>1, TimingAssumption, SMTT(90) DEF Typed, RestTyped
  <1>3. anchor' \in Msgs \cup {None}
    <2>1. \/ anchor' \in {anchor, None}
          \/ turn.at = "judge" /\ anchor' = Now.msg
      BY ZenonT(30) DEF Next, TurnStep, ResumeStep, Arrive, Tick, Start, Continue, Bypass, NoAction, Sent,
             Denied, SetWaitAnchor, EnqueueWaitResume, EnqueueFails, WriteWait, ResumeReads,
             ResumeWakes, ResumeTakes, ResumeReplays, ReplayFails, vars
    <2>2. turn.at = "judge" => Now.msg \in Msgs
      BY NowTyped DEF Typed, BoxEntry
    <2> QED BY <2>1, <2>2 DEF Typed, RestTyped
  <1>4. box' \in Seq(BoxEntry) /\ arrived' \subseteq Msgs /\ replays' \in [Msgs -> Nat]
    <2>1. ASSUME NEW m \in Msgs, NEW replay \in BOOLEAN, box' = Append(box, Entry(m, replay))
          PROVE  box' \in Seq(BoxEntry)
      BY <2>1, EntryTyped DEF Typed, RestTyped
    <2>2. ASSUME NEW m \in Msgs, Arrive(m)
          PROVE  box' \in Seq(BoxEntry) /\ arrived' \subseteq Msgs /\ replays' \in [Msgs -> Nat]
      BY <2>1, <2>2 DEF Arrive, ghosts, Typed, RestTyped
    <2>3. ASSUME NEW j \in jobs, ResumeReplays(j)
          PROVE  box' \in Seq(BoxEntry) /\ arrived' \subseteq Msgs /\ replays' \in [Msgs -> Nat]
      <3>1. j.got \in Msgs
        BY <2>3 DEF ResumeReplays, Typed, JobsTyped, Jobs
      <3>2. box' = Append(box, Entry(j.got, TRUE)) /\ TRUE \in BOOLEAN
        BY <2>3 DEF ResumeReplays
      <3>3. box' \in Seq(BoxEntry)
        BY <2>1, <3>1, <3>2, Zenon
      <3>4. replays' \in [Msgs -> Nat]
        <4>1. PICK n \in Nat : n = replays[j.got] + 1
          BY <3>1 DEF Typed, RestTyped
        <4>2. replays' = [replays EXCEPT ![j.got] = n] /\ replays \in [Msgs -> Nat]
          BY <2>3, <4>1 DEF ResumeReplays, Typed, RestTyped
        <4> QED BY <4>1, <4>2
      <3>5. arrived' \subseteq Msgs
        BY <2>3 DEF ResumeReplays, Typed, RestTyped
      <3> QED BY <3>3, <3>4, <3>5
    <2>4. CASE Start
      <3>1. <<>> \in Seq(BoxEntry)
        OBVIOUS
      <3> QED BY <2>4, <3>1 DEF Start, Typed, RestTyped
    <2>5. CASE UNCHANGED <<box, arrived, replays>>
      BY <2>5 DEF Typed, RestTyped
    <2> QED BY <2>2, <2>3, <2>4, <2>5
            DEF Next, TurnStep, ResumeStep, Tick, Continue, Bypass, NoAction, Sent,
                Denied, SetWaitAnchor, EnqueueWaitResume, EnqueueFails, WriteWait, ResumeReads,
                ResumeWakes, ResumeTakes, ReplayFails, vars, ghosts
  <1> QED BY <1>1, <1>2, <1>3, <1>4 DEF RestTyped

LEMMA TypedStep == Typed /\ [Next]_vars => Typed'
  BY ChatTypedStep, TurnTypedStep, JobsTypedStep, RestTypedStep DEF Typed

LEMMA InitTyped == Init => Typed
  <1> SUFFICES ASSUME Init PROVE Typed
    OBVIOUS
  <1>1. <<>> \in Seq(BoxEntry) /\ 0 \in 0..MaxClock /\ 0 \in 0..MaxFaults
    BY TimingAssumption
  <1>2. Never \in 0..Never
    BY TimingAssumption DEF Never
  <1>3. chat \in ChatRecord
    BY <1>2 DEF Init, Fresh, ChatRecord
  <1>4. TurnTyped
    BY <1>1 DEF Init, Idle, TurnTyped, TurnRecord
  <1>5. JobsTyped /\ RestTyped
    BY <1>1 DEF Init, JobsTyped, RestTyped
  <1> QED BY <1>3, <1>4, <1>5 DEF Typed

-----------------------------------------------------------------------------
(* Where a message is *)

\* The messages of the entries that come for the first time.
FreshMsgs(s) == {s[i].msg : i \in {k \in DOMAIN s : ~s[k].replay}}
FreshOnce(s) ==
    \A i, k \in DOMAIN s : ~s[i].replay /\ ~s[k].replay /\ s[i].msg = s[k].msg => i = k

\* What the turn has yet to decide about.
Ahead ==
    IF turn.at = "idle" THEN <<>> ELSE IF turn.at = "judge" THEN turn.todo ELSE Tail(turn.todo)

Fetched == {j \in jobs : j.at = "replay"}
Anchored == {anchor} \ {None}
Got == {j.got : j \in Fetched}
Back == {m \in Msgs : replays[m] # 0}

\* In each place a message is found at most once,
OnceEach ==
    /\ FreshOnce(box) /\ FreshOnce(Ahead)
    /\ \A j, k \in Fetched : j.got = k.got => j = k
    /\ \A m \in Msgs : replays[m] \in {0, 1}

\* no message is in two of them, and none is there before it arrives.
OnePlace ==
    /\ FreshMsgs(box) \cap (FreshMsgs(Ahead) \cup Anchored \cup Got \cup Back) = {}
    /\ FreshMsgs(Ahead) \cap (Anchored \cup Got \cup Back) = {}
    /\ Anchored \cap (Got \cup Back) = {}
    /\ Got \cap Back = {}
    /\ FreshMsgs(box) \cup FreshMsgs(Ahead) \cup Anchored \cup Got \cup Back \subseteq arrived

Custody == OnceEach /\ OnePlace

\* Leaving entries out brings no message in and none twice.
LEMMA ThinsFresh ==
  ASSUME NEW S, NEW t \in Seq(S), NEW r \in Seq(S), Thins(t, r), FreshOnce(r)
  PROVE  FreshOnce(t) /\ FreshMsgs(t) \subseteq FreshMsgs(r)
  <1>1. PICK K \in SUBSET (DOMAIN r) : \E g : Picks(t, r, K, g)
    BY DEF Thins
  <1>2. PICK g : Picks(t, r, K, g)
    BY <1>1
  <1>3. \A i \in DOMAIN t : g[i] \in DOMAIN r /\ g[i] \in Nat /\ t[i] = r[g[i]]
    <2>1. DOMAIN r \in SUBSET Nat
      OBVIOUS
    <2>2. \A i \in DOMAIN t : g[i] \in K /\ t[i] = r[g[i]]
      BY <1>2 DEF Picks
    <2> QED BY <1>1, <2>1, <2>2
  <1>4. ASSUME NEW i \in DOMAIN t, NEW k \in DOMAIN t, g[i] = g[k]
        PROVE  i = k
    <2>1. i \in Nat /\ k \in Nat
      OBVIOUS
    <2>2. ~(i < k) /\ ~(k < i)
      BY <1>2, <1>3, <1>4 DEF Picks
    <2> QED BY <2>1, <2>2
  <1>5. FreshMsgs(t) \subseteq FreshMsgs(r)
    BY <1>3 DEF FreshMsgs
  <1> QED BY <1>3, <1>4, <1>5 DEF FreshOnce

\* Going on to the next entry leaves the first one behind.
LEMMA TailFresh ==
  ASSUME NEW S, NEW s \in Seq(S), s # <<>>, FreshOnce(s)
  PROVE  /\ FreshOnce(Tail(s)) /\ FreshMsgs(Tail(s)) \subseteq FreshMsgs(s)
         /\ ~Head(s).replay => /\ Head(s).msg \in FreshMsgs(s)
                               /\ Head(s).msg \notin FreshMsgs(Tail(s))
  <1>1. /\ 1 \in DOMAIN s /\ Head(s) = s[1]
        /\ \A i \in DOMAIN Tail(s) :
              i + 1 \in DOMAIN s /\ i + 1 # 1 /\ i \in Nat /\ Tail(s)[i] = s[i + 1]
    OBVIOUS
  <1>2. FreshMsgs(Tail(s)) \subseteq FreshMsgs(s)
    BY <1>1 DEF FreshMsgs
  <1>3. FreshOnce(Tail(s))
    <2>1. \A i, k \in DOMAIN Tail(s) : i + 1 = k + 1 => i = k
      BY <1>1
    <2> QED BY <1>1, <2>1 DEF FreshOnce
  <1>4. ~Head(s).replay => Head(s).msg \notin FreshMsgs(Tail(s))
    BY <1>1 DEF FreshMsgs, FreshOnce
  <1> QED BY <1>1, <1>2, <1>3, <1>4 DEF FreshMsgs

\* One more entry: a replay, or a message that is not there yet.
LEMMA AppendFresh ==
  ASSUME NEW S, NEW s \in Seq(S), NEW e \in S, FreshOnce(s),
         e.replay \/ e.msg \notin FreshMsgs(s)
  PROVE  /\ FreshOnce(Append(s, e))
         /\ e.replay => FreshMsgs(Append(s, e)) = FreshMsgs(s)
         /\ FreshMsgs(Append(s, e)) \subseteq FreshMsgs(s) \cup {e.msg}
  <1>1. PICK t : t = Append(s, e)
    OBVIOUS
  <1>2. /\ Len(s) + 1 \in DOMAIN t /\ t[Len(s) + 1] = e
        /\ \A i \in DOMAIN s : i \in DOMAIN t /\ t[i] = s[i]
        /\ \A i \in DOMAIN t : i \in DOMAIN s \/ i = Len(s) + 1
    BY <1>1
  <1>3. FreshMsgs(t) \subseteq FreshMsgs(s) \cup {e.msg}
    BY <1>2 DEF FreshMsgs
  <1>4. e.replay => FreshMsgs(t) = FreshMsgs(s)
    BY <1>2 DEF FreshMsgs
  <1>5. FreshOnce(t)
    BY <1>2 DEF FreshOnce, FreshMsgs
  <1> QED BY <1>1, <1>3, <1>4, <1>5

LEMMA NoneFresh == FreshOnce(<<>>) /\ FreshMsgs(<<>>) = {}
  BY DEF FreshOnce, FreshMsgs

\* What the lists hold is decided by what they are.
LEMMA BoxBecomes ==
  ASSUME NEW t, box' = t
  PROVE  (FreshOnce(box)' <=> FreshOnce(t)) /\ FreshMsgs(box)' = FreshMsgs(t)
  BY DEF FreshOnce, FreshMsgs

LEMMA AheadBecomes ==
  ASSUME NEW t, Ahead' = t
  PROVE  (FreshOnce(Ahead)' <=> FreshOnce(t)) /\ FreshMsgs(Ahead)' = FreshMsgs(t)
  BY DEF FreshOnce, FreshMsgs

LEMMA AheadTyped ==
  ASSUME TurnTyped
  PROVE  Ahead \in Seq(BoxEntry)
  <1>1. <<>> \in Seq(BoxEntry)
    OBVIOUS
  <1>2. turn.at # "idle" => turn.todo \in Seq(BoxEntry) /\ Tail(turn.todo) \in Seq(BoxEntry)
    BY NowTyped
  <1> QED BY <1>1, <1>2 DEF Ahead

LEMMA JudgeAhead ==
  ASSUME NEW todo, Judge(todo)
  PROVE  Ahead' = todo
  BY DEF Judge, Idle, Ahead

\* An action of the turn leaves what is ahead, or goes on to the next entry.
LEMMA AheadShrinks ==
  ASSUME TurnTyped, FreshOnce(Ahead),
         \/ UNCHANGED turn
         \/ turn.at # "idle" /\ NextEntry
         \/ /\ turn.at # "idle"
            /\ turn'.at \notin {"idle", "judge"}
            /\ turn'.todo = turn.todo
  PROVE  FreshOnce(Ahead)' /\ FreshMsgs(Ahead)' \subseteq FreshMsgs(Ahead)
  <1>1. CASE UNCHANGED turn
    <2>1. Ahead' = Ahead
      BY <1>1 DEF Ahead
    <2> QED BY <2>1, AheadBecomes
  <1>2. CASE turn.at # "idle" /\ Ahead' = Tail(turn.todo)
    <2>1. turn.todo \in Seq(BoxEntry) /\ turn.todo # <<>>
      BY <1>2, NowTyped
    <2>2. CASE turn.at = "judge"
      <3>1. Ahead = turn.todo
        BY <2>2 DEF Ahead
      <3>2. /\ FreshOnce(Tail(turn.todo))
            /\ FreshMsgs(Tail(turn.todo)) \subseteq FreshMsgs(turn.todo)
        BY <2>1, <3>1, TailFresh
      <3> QED BY <1>2, <3>1, <3>2, AheadBecomes
    <2>3. CASE turn.at # "judge"
      <3>1. Ahead = Tail(turn.todo)
        BY <1>2, <2>3 DEF Ahead
      <3>2. Ahead' = Ahead
        BY <1>2, <3>1
      <3> QED BY <3>2, AheadBecomes
    <2> QED BY <2>2, <2>3
  <1>3. CASE turn.at # "idle" /\ NextEntry
    BY <1>2, <1>3, JudgeAhead DEF NextEntry
  <1>4. CASE /\ turn.at # "idle"
             /\ turn'.at \notin {"idle", "judge"}
             /\ turn'.todo = turn.todo
    BY <1>2, <1>4 DEF Ahead
  <1> QED BY <1>1, <1>3, <1>4

\* An action that brings no message anywhere keeps the custody.
LEMMA NothingNew ==
  ASSUME Custody, UNCHANGED <<replays, arrived>>,
         FreshOnce(box)', FreshMsgs(box)' \subseteq FreshMsgs(box),
         FreshOnce(Ahead)', FreshMsgs(Ahead)' \subseteq FreshMsgs(Ahead),
         Anchored' \subseteq Anchored, Fetched' \subseteq Fetched
  PROVE  Custody'
  <1>1. Got' \subseteq Got
    BY DEF Got
  <1>2. Back' = Back
    BY DEF Back
  <1>3. OnceEach'
    BY DEF Custody, OnceEach
  <1>4. OnePlace'
    BY <1>1, <1>2 DEF Custody, OnePlace
  <1> QED BY <1>3, <1>4 DEF Custody

LEMMA ArriveCustody ==
  ASSUME Typed, Custody, NEW m \in Msgs, Arrive(m)
  PROVE  Custody'
  <1>1. /\ Entry(m, FALSE) \in BoxEntry
        /\ Entry(m, FALSE).msg = m /\ Entry(m, FALSE).replay = FALSE
    BY EntryTyped
  <1>2. FreshOnce(box) /\ m \notin FreshMsgs(box) /\ box \in Seq(BoxEntry)
    BY DEF Arrive, Custody, OnceEach, OnePlace, Typed, RestTyped
  <1>3. /\ FreshOnce(Append(box, Entry(m, FALSE)))
        /\ FreshMsgs(Append(box, Entry(m, FALSE))) \subseteq FreshMsgs(box) \cup {m}
    <2>1. PICK e \in BoxEntry : e = Entry(m, FALSE) /\ e.msg = m
      BY <1>1
    <2>2. e.msg \notin FreshMsgs(box)
      BY <1>2, <2>1
    <2>3. /\ FreshOnce(Append(box, e))
          /\ FreshMsgs(Append(box, e)) \subseteq FreshMsgs(box) \cup {e.msg}
      BY <1>2, <2>2, AppendFresh, Zenon
    <2> QED BY <2>1, <2>3
  <1>4. FreshOnce(box)' /\ FreshMsgs(box)' \subseteq FreshMsgs(box) \cup {m}
    <2>1. box' = Append(box, Entry(m, FALSE))
      BY DEF Arrive
    <2> QED BY <1>3, <2>1, BoxBecomes, Zenon
  <1>5. /\ Ahead' = Ahead /\ Anchored' = Anchored /\ Got' = Got /\ Back' = Back
        /\ Fetched' = Fetched /\ UNCHANGED replays
    BY DEF Arrive, ghosts, Ahead, Anchored, Got, Back, Fetched
  <1>6. FreshOnce(Ahead)' /\ FreshMsgs(Ahead)' = FreshMsgs(Ahead)
    BY <1>5, AheadBecomes DEF Custody, OnceEach
  <1>7. arrived' = arrived \cup {m} /\ m \notin arrived
    BY DEF Arrive
  <1>8. OnceEach'
    BY <1>4, <1>5, <1>6 DEF Custody, OnceEach
  <1>9. OnePlace'
    BY <1>4, <1>5, <1>6, <1>7 DEF Custody, OnePlace
  <1> QED BY <1>8, <1>9 DEF Custody

\* A turn takes up entries of the mailbox, each at most once.
LEMMA StartCustody ==
  ASSUME Typed, Custody, Start
  PROVE  Custody'
  <1>1. PICK mode : Judge(Kept(Digested(box), Judged(Digested(box), mode)))
    BY DEF Start
  <1>2. PICK es \in Seq(BoxEntry) : es = Digested(box) /\ Thins(es, box)
    BY DigestedThins DEF Typed, RestTyped
  <1>3. PICK K \in SUBSET DOMAIN es : K = Judged(es, mode)
    BY JudgedIn
  <1>4. PICK todo \in Seq(BoxEntry) : todo = Kept(es, K) /\ Thins(todo, es)
    BY KeptPicks DEF Thins
  <1>5. FreshOnce(todo) /\ FreshMsgs(todo) \subseteq FreshMsgs(box)
    BY <1>2, <1>4, ThinsFresh DEF Custody, OnceEach, Typed, RestTyped
  <1>6. Ahead' = todo
    BY <1>1, <1>2, <1>3, <1>4, JudgeAhead
  <1>7. FreshOnce(Ahead)' /\ FreshMsgs(Ahead)' \subseteq FreshMsgs(box)
    BY <1>5, <1>6, AheadBecomes
  <1>8. box' = <<>> /\ UNCHANGED <<anchor, jobs, arrived, replays>>
    BY DEF Start
  <1>9. FreshOnce(box)' /\ FreshMsgs(box)' = {}
    BY <1>8, NoneFresh, BoxBecomes
  <1>10. Anchored' = Anchored /\ Got' = Got /\ Back' = Back /\ Fetched' = Fetched
    BY <1>8 DEF Anchored, Got, Back, Fetched
  <1>11. OnceEach'
    BY <1>7, <1>8, <1>9, <1>10 DEF Custody, OnceEach
  <1>12. OnePlace'
    BY <1>7, <1>8, <1>9, <1>10 DEF Custody, OnePlace
  <1> QED BY <1>11, <1>12 DEF Custody

\* The entry that is told to wait leaves the turn for the anchor.
LEMMA AnchorCustody ==
  ASSUME Typed, Custody, NEW sec \in Secs, SetWaitAnchor(sec)
  PROVE  Custody'
  <1>1. /\ turn.at = "judge" /\ ~Now.replay /\ anchor' = Now.msg
        /\ turn' = [turn EXCEPT !.at = "enqueue", !.since = clock, !.sec = sec]
        /\ UNCHANGED <<jobs, box, arrived, replays>>
    BY DEF SetWaitAnchor
  <1>2. turn.todo \in Seq(BoxEntry) /\ turn.todo # <<>> /\ Ahead = turn.todo
    BY <1>1, NowTyped DEF Typed, Ahead
  <1>3. turn'.at = "enqueue" /\ turn'.todo = turn.todo
    BY <1>1 DEF Typed, TurnTyped, TurnRecord
  <1>4. Ahead' = Tail(turn.todo)
    BY <1>3 DEF Ahead
  <1>5. /\ FreshOnce(Tail(turn.todo)) /\ FreshMsgs(Tail(turn.todo)) \subseteq FreshMsgs(Ahead)
        /\ Now.msg \in FreshMsgs(Ahead) /\ Now.msg \notin FreshMsgs(Tail(turn.todo))
    BY <1>1, <1>2, TailFresh DEF Now, Custody, OnceEach
  <1>6. /\ FreshOnce(Ahead)' /\ FreshMsgs(Ahead)' \subseteq FreshMsgs(Ahead)
        /\ Now.msg \notin FreshMsgs(Ahead)'
    BY <1>4, <1>5, AheadBecomes
  <1>7. Anchored' \subseteq {Now.msg} /\ Got' = Got /\ Back' = Back /\ Fetched' = Fetched
    BY <1>1 DEF Anchored, Got, Back, Fetched
  <1>8. FreshOnce(box)' /\ FreshMsgs(box)' = FreshMsgs(box)
    BY <1>1, BoxBecomes DEF Custody, OnceEach
  <1>9. OnceEach'
    BY <1>1, <1>6, <1>7, <1>8 DEF Custody, OnceEach
  <1>10. OnePlace'
    BY <1>1, <1>5, <1>6, <1>7, <1>8 DEF Custody, OnePlace
  <1> QED BY <1>9, <1>10 DEF Custody

\* GETDEL: the anchor leaves for one job, and no other job can find it.
LEMMA TakesCustody ==
  ASSUME Typed, Custody, NEW j \in jobs, ResumeTakes(j)
  PROVE  Custody'
  <1>1. /\ j.at = "take" /\ anchor' = None
        /\ UNCHANGED <<box, turn, arrived, replays>>
    BY DEF ResumeTakes, ghosts
  <1>2. /\ FreshOnce(box)' /\ FreshMsgs(box)' = FreshMsgs(box)
        /\ FreshOnce(Ahead)' /\ FreshMsgs(Ahead)' = FreshMsgs(Ahead)
    <2>1. box' = box /\ Ahead' = Ahead
      BY <1>1 DEF Ahead
    <2> QED BY <2>1, BoxBecomes, AheadBecomes DEF Custody, OnceEach
  <1>3. Anchored' = {} /\ Back' = Back
    BY <1>1 DEF Anchored, Back
  <1>4. CASE jobs' = jobs \ {j}
    <2>1. Fetched' \subseteq Fetched
      BY <1>4 DEF Fetched
    <2> QED BY <1>1, <1>2, <1>3, <2>1, NothingNew
  <1>5. CASE anchor # None /\ Becomes(j, "replay", anchor)
    <2>1. PICK k : /\ k = [j EXCEPT !.at = "replay", !.got = anchor]
                   /\ jobs' = (jobs \ {j}) \cup {k}
      BY <1>5 DEF Becomes
    <2>2. k.got = anchor /\ k.at = "replay"
      BY <2>1 DEF Typed, JobsTyped, Jobs
    <2>3. Fetched' = Fetched \cup {k}
      BY <1>1, <2>1, <2>2 DEF Fetched
    <2>4. Got' = Got \cup {anchor}
      BY <2>2, <2>3 DEF Got
    <2>5. anchor \in Anchored /\ \A f \in Fetched : f.got # anchor
      BY <1>5 DEF Anchored, Got, Custody, OnePlace
    <2>6. OnceEach'
      BY <1>1, <1>2, <2>2, <2>3, <2>5 DEF Custody, OnceEach
    <2>7. OnePlace'
      BY <1>1, <1>2, <1>3, <2>4, <2>5 DEF Custody, OnePlace
    <2> QED BY <2>6, <2>7 DEF Custody
  <1> QED BY <1>4, <1>5 DEF ResumeTakes

\* What was fetched comes back, for the first time.
LEMMA ReplaysCustody ==
  ASSUME Typed, Custody, NEW j \in jobs, ResumeReplays(j)
  PROVE  Custody'
  <1>1. /\ j.at = "replay" /\ jobs' = jobs \ {j} /\ box' = Append(box, Entry(j.got, TRUE))
        /\ UNCHANGED <<anchor, turn, arrived>>
    BY DEF ResumeReplays
  <1>2. j.got \in Msgs /\ j \in Fetched /\ j.got \in Got
    BY <1>1 DEF Typed, JobsTyped, Jobs, Fetched, Got
  <1>3. replays[j.got] = 0
    BY <1>2 DEF Custody, OnePlace, Back
  <1>4. replays' = [replays EXCEPT ![j.got] = 1]
    BY <1>3 DEF ResumeReplays
  <1>5. Back' = Back \cup {j.got}
    BY <1>2, <1>4 DEF Back, Typed, RestTyped
  <1>6. Fetched' = Fetched \ {j}
    BY <1>1 DEF Fetched
  <1>7. Got' = Got \ {j.got}
    <2>1. \A k \in Fetched : k.got = j.got => k = j
      BY <1>2 DEF Custody, OnceEach
    <2> QED BY <1>2, <1>6, <2>1 DEF Got
  <1>8. FreshOnce(box)' /\ FreshMsgs(box)' = FreshMsgs(box)
    <2>1. TRUE \in BOOLEAN
      OBVIOUS
    <2>2. PICK e \in BoxEntry : e = Entry(j.got, TRUE) /\ e.replay = TRUE
      BY <1>2, <2>1, EntryTyped
    <2>3. FreshOnce(box) /\ box \in Seq(BoxEntry) /\ e.replay
      BY <2>2 DEF Custody, OnceEach, Typed, RestTyped
    <2>4. FreshOnce(Append(box, e)) /\ FreshMsgs(Append(box, e)) = FreshMsgs(box)
      BY <2>2, <2>3, AppendFresh, ZenonT(90)
    <2>5. box' = Append(box, e)
      BY <1>1, <2>2
    <2> QED BY <2>4, <2>5, BoxBecomes, Zenon
  <1>9. /\ FreshOnce(Ahead)' /\ FreshMsgs(Ahead)' = FreshMsgs(Ahead) /\ Anchored' = Anchored
    <2>1. Ahead' = Ahead /\ Anchored' = Anchored
      BY <1>1 DEF Ahead, Anchored
    <2> QED BY <2>1, AheadBecomes DEF Custody, OnceEach
  <1>10. OnceEach'
    <2>1. \A m \in Msgs : replays'[m] \in {0, 1}
      BY <1>2, <1>4 DEF Custody, OnceEach, Typed, RestTyped
    <2> QED BY <1>6, <1>8, <1>9, <2>1 DEF Custody, OnceEach
  <1>11. OnePlace'
    BY <1>1, <1>2, <1>5, <1>7, <1>8, <1>9, ZenonT(90) DEF Custody, OnePlace
  <1> QED BY <1>10, <1>11 DEF Custody

\* The actions that bring no message anywhere.
LEMMA QuietCustody ==
  ASSUME Typed, Custody,
         \/ Tick \/ UNCHANGED vars
         \/ Continue \/ Bypass \/ NoAction \/ Sent \/ Denied
         \/ EnqueueWaitResume \/ EnqueueFails \/ WriteWait
         \/ \E j \in jobs : ResumeReads(j) \/ ResumeWakes(j) \/ ReplayFails(j)
  PROVE  Custody'
  <1>1. UNCHANGED <<box, anchor, arrived, replays>>
    BY DEF Tick, vars, Continue, Bypass, NoAction, Sent, Denied, EnqueueWaitResume, EnqueueFails,
           WriteWait, ResumeReads, ResumeWakes, ReplayFails, ghosts
  <1>2. FreshOnce(box)' /\ FreshMsgs(box)' \subseteq FreshMsgs(box) /\ Anchored' \subseteq Anchored
    BY <1>1, BoxBecomes DEF Custody, OnceEach, Anchored
  <1>3. FreshOnce(Ahead)' /\ FreshMsgs(Ahead)' \subseteq FreshMsgs(Ahead)
    <2>1. \/ UNCHANGED turn
          \/ turn.at # "idle" /\ NextEntry
          \/ /\ turn.at # "idle"
             /\ turn'.at \notin {"idle", "judge"}
             /\ turn'.todo = turn.todo
      <3>1. CASE Continue \/ Bypass
        BY <3>1 DEF Continue, Bypass, Typed, TurnTyped, TurnRecord
      <3>2. CASE NoAction \/ Sent \/ Denied \/ WriteWait
        BY <3>2 DEF NoAction, Sent, Denied, WriteWait
      <3>3. CASE EnqueueWaitResume \/ EnqueueFails
        BY <3>3 DEF EnqueueWaitResume, EnqueueFails, Typed, TurnTyped, TurnRecord
      <3>4. CASE \/ Tick \/ UNCHANGED vars
                 \/ \E j \in jobs : ResumeReads(j) \/ ResumeWakes(j) \/ ReplayFails(j)
        BY <3>4 DEF Tick, vars, ResumeReads, ResumeWakes, ReplayFails
      <3> QED BY <3>1, <3>2, <3>3, <3>4
    <2> QED BY <2>1, AheadShrinks DEF Typed, Custody, OnceEach
  <1>4. Fetched' \subseteq Fetched
    <2>1. CASE EnqueueWaitResume
      <3>1. PICK j : /\ j = [msg |-> Now.msg, due |-> turn.since + turn.sec, at |-> "delayed",
                             got |-> None]
                     /\ jobs' = jobs \cup {j}
        BY <2>1 DEF EnqueueWaitResume
      <3>2. j.at = "delayed"
        BY <3>1
      <3> QED BY <3>1, <3>2 DEF Fetched
    <2>2. ASSUME NEW j \in jobs, ResumeReads(j) \/ ResumeWakes(j)
          PROVE  Fetched' \subseteq Fetched
      <3>1. jobs' = jobs \ {j} \/ Becomes(j, "wake", None) \/ Becomes(j, "take", None)
        BY <2>2 DEF ResumeReads, ResumeWakes
      <3>2. ASSUME Becomes(j, "wake", None) \/ Becomes(j, "take", None)
            PROVE  \A k \in jobs' : k \in jobs \/ k.at \in {"wake", "take"}
        BY <3>2, BecomesTyped DEF Typed
      <3> QED BY <3>1, <3>2 DEF Fetched
    <2>3. ASSUME NEW j \in jobs, ReplayFails(j)
          PROVE  Fetched' \subseteq Fetched
      BY <2>3 DEF ReplayFails, Fetched
    <2>4. CASE UNCHANGED jobs
      BY <2>4 DEF Fetched
    <2> QED BY <2>1, <2>2, <2>3, <2>4
            DEF Tick, vars, Continue, Bypass, NoAction, Sent, Denied, EnqueueFails, WriteWait
  <1> QED BY <1>1, <1>2, <1>3, <1>4, NothingNew

LEMMA CustodyStep == Typed /\ Custody /\ [Next]_vars => Custody'
  <1> SUFFICES ASSUME Typed, Custody, [Next]_vars PROVE Custody'
    OBVIOUS
  <1>1. CASE Tick \/ UNCHANGED vars
    BY <1>1, QuietCustody
  <1>2. ASSUME NEW m \in Msgs, Arrive(m) PROVE Custody'
    BY <1>2, ArriveCustody
  <1>3. CASE TurnStep
    BY <1>3, StartCustody, AnchorCustody, QuietCustody DEF TurnStep
  <1>4. ASSUME NEW j \in jobs, ResumeStep(j) PROVE Custody'
    BY <1>4, TakesCustody, ReplaysCustody, QuietCustody DEF ResumeStep
  <1> QED BY <1>1, <1>2, <1>3, <1>4 DEF Next

LEMMA InitCustody == Init => Custody
  <1> SUFFICES ASSUME Init PROVE Custody
    OBVIOUS
  <1>1. box = <<>> /\ Ahead = <<>> /\ Anchored = {} /\ Fetched = {} /\ Got = {} /\ Back = {}
    BY DEF Init, Idle, Ahead, Anchored, Fetched, Got, Back
  <1>2. OnceEach
    BY <1>1, NoneFresh DEF Init, OnceEach
  <1>3. OnePlace
    BY <1>1, NoneFresh DEF OnePlace
  <1> QED BY <1>2, <1>3 DEF Custody

\* The jobs that have fetched a message are one at most, and none once it came back.
LEMMA CustodySuffices == Typed /\ Custody => ReplayedOnce
  <1> SUFFICES ASSUME Typed, Custody, NEW m \in Msgs
               PROVE  replays[m] + Cardinality({j \in jobs : j.at = "replay" /\ j.got = m}) <= 1
    BY DEF ReplayedOnce
  <1> DEFINE holders == {j \in jobs : j.at = "replay" /\ j.got = m}
  <1>1. CASE holders = {}
    <2>1. Cardinality(holders) = 0
      BY <1>1, FS_EmptySet, Zenon
    <2>2. replays[m] \in {0, 1}
      BY DEF Custody, OnceEach
    <2> QED BY <2>1, <2>2
  <1>2. CASE holders # {}
    <2>1. PICK j : j \in holders
      BY <1>2
    <2>2. holders = {j}
      BY <2>1 DEF Custody, OnceEach, Fetched
    <2>3. Cardinality(holders) = 1
      BY <2>2, FS_Singleton, Zenon
    <2>4. replays[m] = 0
      BY <2>1 DEF Custody, OnePlace, Got, Fetched, Back
    <2> QED BY <2>3, <2>4
  <1> QED BY <1>1, <1>2

LEMMA TypedSuffices == Typed => TypeOK
  BY DEF Typed, ChatRecord, TurnTyped, TurnRecord, JobsTyped, RestTyped, People, TypeOK

-----------------------------------------------------------------------------
\* The hash, the anchor, the jobs and the turn hold what the code can put there
\* (state-store.ts, chat-runtime.ts), for any messages, people and times.
THEOREM TimingTypes == Spec => []TypeOK
  BY InitTyped, TypedStep, TypedSuffices, PTL DEF Spec

\* A message that was told to wait comes back at most once (chat-runtime.ts:258-288,
\* turn/buffer.ts:213-228), however many wait_resume jobs run at the same time:
\* mailbox, turn, anchor, job and replay hand it on, and no two of them hold it.
THEOREM BackOnce == Spec => []ReplayedOnce
  <1>1. Init => Typed /\ Custody
    BY InitTyped, InitCustody
  <1>2. (Typed /\ Custody) /\ [Next]_vars => (Typed /\ Custody)'
    BY TypedStep, CustodyStep
  <1> QED BY <1>1, <1>2, CustodySuffices, PTL DEF Spec
=============================================================================
