# A verification of xxb-ts: the turn, its timing, its model calls, its store

xxb-ts is a Telegram bot. Messages come in through grammY (`src/src/bot`), wait in a
mailbox per chat in Redis, and are answered by a *cognition turn*: a BullMQ job that drains
the mailbox, chooses whom to answer, and runs the LLM pipeline, while new messages may
interrupt it. A gate may also tell a message to wait, which puts the chat's *timing state*
and another job between it and its answer. Every LLM call of a turn goes through a *walk
over fallback models* with a hedge and a shared circuit breaker. What the bot remembers of
a chat is kept by an embedded page store, *NyatDB*.

Most of what is hard in this program is in these four places: many small Redis round trips
by concurrent callers, aborts that surface in the middle of a turn, a lock with a lease,
jobs that are retried or given back after a crash, a clock that moves between a read and
the write that depends on it, races of two model calls, and pages that were half written
when the process died. The modules here are about them.

Paths below are relative to the repository's `src/` directory unless they start with
`src/src` or `packages/` (which is `src/packages/`); line numbers are those of the modelled
commit.

## 1. Inventory

### 1.1 The components and their state

| Component | Code | State it keeps | Operations |
|---|---|---|---|
| Ingress handler | `bot/handlers/message.ts` | none of its own | interrupt the generation in flight, append to the mailbox, ask for a turn |
| Mailbox | `pipeline/turn/buffer.ts` | Redis per chat: pending list, meta hash (job pointer, dirty mark, direct flag), injection tokens | append, gated re-injection (a Lua script), drain, pointer and dirty commands |
| Scheduler | `queue/turn-scheduler.ts` | BullMQ's delayed set | `scheduleTurn`: read pointer, ask the job's state, then move its delay, mark dirty, or add a job and store its id |
| Turn actor | `pipeline/turn/actor.ts` | the burst in hand, in memory | drain, trim, suppress, choose anchors, judge or track each entry, replan after an interrupt, hand over |
| Anchor selection | `pipeline/turn/anchor-select.ts` | none | pure functions of a burst |
| Execution lock | `pipeline/turn/turn-lock.ts` | one Redis key with a token and a TTL | acquire, renew, compared release |
| Interrupt registry | `pipeline/turn/abort-registry.ts` | in memory: one controller and one streak per chat, a shutdown flag | register, weak register, clear, interrupt, abort all |
| Self-continuation | `pipeline/turn/self-continue.ts` | beats and cooldowns | a fire-and-forget generation that yields to turns |
| Gate deferral | `pipeline/timing/defer.ts`, `stages/post-judge.ts` | a `defer_resume` job holding the entry | put an entry off, inject it again |
| Worker | `queue/worker.ts`, `producer.ts` | BullMQ job locks | run jobs, give stalled ones back, retry failed ones |
| Shutdown | `src/src/index.ts` | | broadcast, close intake, close worker, exit |
| Chat timing | `pipeline/timing/state-store.ts`, `chat-runtime.ts`, `stages/post-judge.ts` | Redis: RUNNING / WAIT / STOP with its users, wait anchor, `wait_resume` jobs | enter WAIT, STOP or RUNNING, lazy expiry, resume |
| AI calls | `ai/fallback.ts`, `ai/cooldown.ts` | in memory: attempts and timer of each call; in Redis: failure counter, trip and 429 key of each model | walk, hedge, abort, record, trip, expire |
| Meta path | `meta/`, `subagent/` | attention queues, sessions, a second BullMQ queue | an alternative to the turn behind a flag |
| NyatDB | `packages/nyatdb/src` | page file, buffer pool, redo log, snapshot files; in memory: tips, index, rings | append, trim, hot set and delete, recent, evict, checkpoint, open |
| Ingress failover | `ingress/failover.ts` | a mode and heartbeats | webhook to polling and back |

The remaining parts (providers, prompts, learners, cron, games, tools, admin and web
front ends) are listed in `PROJECT.json` with the reason for leaving each out: in the main
they are straight lines of I/O, LLM calls whose outcome the code does not determine, or
single-row bookkeeping.

### 1.2 How they interact

```
 update --> ingress --interrupt--> registry <--register/clear-- turn <--run-- worker
              |                                                  | ^            ^
              | append                                     drain | | lock       | promote
              v                                                  v v            |
           mailbox <-----------------------------------------  Redis          BullMQ
              ^  ^---- put back (exhausted, shutdown) --- turn                  ^
              |                                            | defer              |
              |                                            v                    |
              +------- gated injection ------------ defer_resume job            |
                                                                                |
           ingress, resume, loser, tail of the turn ----- scheduleTurn ---------+
```

Handlers, jobs and timers run in one Node process, so code between two awaits is atomic;
every Redis or BullMQ command is a point where the others run. With a webhook, handlers
also overlap each other.

```
 turn --reads--> timing state <--writes-- gate verdict (continue, wait, no_action)
   |                 ^                          | wait: anchor, then job, then state
   |                 | reads, then RUNNING      v
   |          wait_resume job --takes--> wait anchor --put back--> mailbox
   | judge, planner, writers
   v
 callWithFallback --> label 1 --(timer)--> hedge on label 2     --> label 3 ...
      ^ abort             \___________ failures ___________> breaker of each model

 context --append, trim--> NyatDB (one engine, synchronous) --> pool --> page file
                                       |--> redo log       --> checkpoint files
```

The turn and the timing state share the mailbox; the abort registry is where the abort of
an AI call comes from; the store is called by the context code and calls nobody. The models
meet at these points: `ChatTiming` uses the same planning operators as `TurnActor`
(`TurnPlan`), `TurnActor` lets the timing state silence anything, and `AICalls` lets an
abort come at any time.

### 1.3 What is hard, and what must hold

* **Wake-ups.** A message is appended first and a turn asked for afterwards; the turn
  clears pointer and mark and counts the mailbox. Whatever the order, a mailbox with
  something in it must not be left with nobody to drain it.
* **Conservation.** An entry travels between mailbox, turn, delayed job and mailbox again
  (interrupted, exhausted, put off, caught by a shutdown). It must exist exactly once, and
  after a crash or a retry at most once.
* **One turn at a time.** Pointers get overwritten and jobs come back; the lock is what
  keeps two turns of a chat apart.
* **Interrupts.** The registry holds one controller for several flows that overlap; none
  may become unreachable, and a busy chat may not choke the bot.
* **Selection.** Trimming, suppression and a budget of answers act on the same burst, and
  whoever called the bot must not fall through.
* **Time and staleness.** A WAIT ends by being read after its time; its job reads the same
  state, at the same time. Turns and resume jobs write the state without a lock. A message
  told to wait must come back, once.
* **Races of calls.** Primary, hedge, winner's abort, caller's abort, timer and the breaker's
  answer come in any order. No model may be passed over, nothing may be left running, and
  a model must be blamed for its own failures only.
* **Pages.** One free list feeds all chats and the hot keys; trims rewrite chains; index,
  tips and rings are copies of what the pages say. The pool writes pages when it likes, a
  crash may come between any two file writes, and the redo log meets pages of any age.

`PROJECT.json` lists the hazards one by one at their lines, with the properties that would
catch each.

## 2. The modules

| Module | What it models | Kind |
|---|---|---|
| `TurnPlan` | which entries of a burst are judged: `actor.ts:483-718`, `anchor-select.ts` | operators |
| `TurnBuffer` | the mailbox: `buffer.ts`, `types.ts`, entries of `message.ts` and `defer.ts` | variables and operations |
| `TurnScheduler` | `scheduleTurn` as a process per caller, over BullMQ job states; extends `TurnBuffer` | actions |
| `AbortRegistry` | `abort-registry.ts` | variables and operations |
| `TurnActor` | the turn with ingress, resume jobs, worker, lock, interrupts, faults, shutdown and crash; extends the four above | specification |
| `TurnActorProps` | its type invariant, safety and progress properties, fairness | properties |
| `LeaseLock` | what the execution lock promises: at most one holder whose lease holds | abstract specification |
| `Generations` | the registry against all of its clients, with an endless stream of messages | specification |
| `ChatTiming` | the timing state of a chat with its turns, anchor, `wait_resume` jobs and clock; extends `TurnPlan` | specification and properties |
| `AICalls` | concurrent calls over a chain of models, hedging, and the breaker | specification and properties |
| `Pages` | page file, free list, chains, hot chain of NyatDB | operators |
| `PageStore` | the engine: append, trim, hot keys, rings, pool, redo log, checkpoint, crash, open; extends `Pages` | specification |
| `ChatLog` | what the store promises of its message logs | abstract specification |
| `PageStoreProps` | properties of the store, and the refinement of `ChatLog` | properties |
| `BurstProofs` | lemmas on filtering, trimming and choosing among the entries of a burst, shared by the modules about the selection, the turn and the timing state | proofs |
| `TurnPlanProofs` | theorems about the selection, as `MCTurnPlan` states it | proofs |
| `TurnActorProofs` | theorems about `TurnActor`: the lock, the wake-ups, the messages | proofs |
| `ChatTimingProofs`, `GenerationsProofs`, `AICallsProofs` | theorems about the module of the same name | proofs |
| `PageStoreProofs` | lemmas on files, free lists and chains (what each operator of `Pages` does to them), and theorems about a store that is closed before it is opened | proofs |
| `StoreCrashProofs` | the theorem about a store that is killed, and the theory of its replay | proofs |
| `MCTurnPlan`, `MCTurnActor`, `MCGenerations`, `MCChatTiming`, `MCAICalls`, `MCPageStore` | instances for TLC (`MCTurnPlan` also holds the properties of `TurnPlan`) | model checking |

A definition whose comment starts with "Mutant:" is a plausible bug in the definition that
follows it. No specification uses it; it shows which change a property reacts to
(`PROJECT.json`, "mutants").

### 2.1 `TurnPlan`

`Digested` is replay displacement (`actor.ts:490-497`) followed by the trim to the newest
`MaxBurst` entries with the last `MaxOlderDirects` direct ones of the older part put in
front (`527-556`). `Effective` is the state override by a direct entry (`588-605`),
`Suppressed` the WAIT / STOP test (`606-616`), `Anchor` (`actor.ts:703-717`) and
`PickMultiAnchorGroups` the two ways to choose, `Judged` the result with all commands. The
code has the choice within one sender's entries twice, as a loop each: `Anchor` is the one
of `actor.ts`, `GroupPick` the pair of loops of `anchor-select.ts:39-52`. They are
translated separately and compared by a property. Entries carry what these
functions look at: sender, date, direct, edit, command, replay. Indices are positions in
the digested burst, as `judgedIdx` is. `Kept` is the array filter: the entries at a set of
positions, in their order, as a recursive function over the positions, so that it can be
reasoned about. `MaxOlderDirects` is positive because `slice(-0)` would keep everything.
`waitTopicKey` is never written by the code and is
left out.

### 2.2 `TurnBuffer` and `TurnScheduler`

One chat is modelled, since all keys carry the chat id. A Lua script or MULTI block is one
step, any other command a step of its own. `scheduleTurn` becomes a small process with the
steps `read`, `state`, `change`, `mark`, `add`, `set`; each caller (`In(m)` for the handler
of a message, `Re(m)` for a resume job, `Tu(j)` for a turn, its loser exit or its tail) may
be at any of them while the others move. A BullMQ job is `none`, `delayed`, `waiting` or
`active`; delays are abstract, so a delayed job may be promoted at any time.
Job ids are unique in the code; the model reuses an id that no key, call or queue entry
mentions.

### 2.3 `AbortRegistry`

`active` is the flow whose controller is in the map, `aborted` the flows whose own
controller is aborted, `streak` the interrupts in a row, `shuttingDown` the flag of
`abortAllGenerations`. The functions are synchronous, so each is one step. Log statistics
are left out.

### 2.4 `TurnActor`

A run of a `chat_turn` job is `run[j]`:

```
 off -> drain -> work <-> gen -> quiet      judged entries: StartTalk, then one of TalkEnds,
   \      \       |        ^------'         TalkDeferred, TalkPutBack, TalkInterrupted,
    lose   exit   unset -> recheck -> count -> resched      TalkExhausted; Replan from quiet
      \      \_____________________________\_ release -> done
```

* `Pick` is the worker taking the job together with its first command, SET NX of the lock;
  the loser asks for another turn (`actor.ts:443-453`).
* `Drain` takes the mailbox and plans. What the timing state says is an arbitrary choice,
  none or everything suppressed; `ChatTiming` says when it says what.
* `TalkEnds`, `TalkDeferred`, and the three ways an abort surfaces stand for one
  `processPipeline` call. Its outcome is an LLM's, so it is nondeterministic; what the code
  does with it is not. A pipeline that fails counts as judged, because the code settles the
  entry either way.
* `Replan` drains again, tracks or judges what came, and puts the new anchor in place
  (`actor.ts:358-420`).
* `ReadPointer` to `Reschedule` are the tail (`actor.ts:750-765`), one command each.
* `Lapse` is a lease that runs out under a live turn (the renewal timer did not run),
  `Expire` the TTL of a dead holder's key.
* `CallFails`: a Redis command inside `scheduleTurn` throws. The loser swallows the error,
  the tail fails its job, a handler is not retried.
* A `defer_resume` job is `delayed`, `picked` by the worker, inside its `call` of
  `scheduleTurn`, or `orphan` after its worker died. `ResumeThrows` is a command of it that
  fails: it comes again after its backoff until its attempts (`producer.ts:110`, 5) are used
  up, then `ResumeGivenUp`. Its failed job is kept by BullMQ, but nothing takes it up again.
* `Shutdown`, `CloseIntake`, `Exit` follow `index.ts:316-374`; `Crash` may come at any
  time; both end in `Reboot`, which keeps what is in Redis and BullMQ and forgets the rest.
  `Stall` and `ResumeStalls` are BullMQ giving back the job of a dead worker. The workers
  leave `maxStalledCount` at its default of 1 (`worker.ts:76-84`), so a job that stalls a
  second time is failed by the next worker instead of being run: `FailStalled`, after which
  a `chat_turn` job is gone (`removeOnFail`, `turn-scheduler.ts:175`), and
  `ResumeFailStalled`. A job lock is held for 5 minutes and the execution lock for 2, so a
  stalled job finds the lock of its own process expired (`Overtaken`).

Three history variables serve the properties. `settled` counts how often a message was
finished: judged, tracked, displaced, trimmed, replaced by a replan or dropped after too
many interrupts. `cut` holds the messages whose wake-up died with a process or a Redis
error, or was a job that BullMQ gave up: those in the mailbox when a `chat_turn` job is
failed as stalled, and the one that a `defer_resume` job carries. `spent` lists the troubles
that happened.

### 2.5 `Generations`

The same registry with anonymous messages that never end. Strong flows are judged entries of
turns, weak flows are self-continuations, the mailbox is reduced to "is there something in
it". Nothing keeps strong flows apart here: the execution lock may have lapsed, or be
switched off.

### 2.6 `ChatTiming`

One chat, a clock in seconds of some size, and the Redis values `xxb:timing:state` (`chat`,
with its EXPIRE), `xxb:turn:waitanchor` (`anchor`) and the mailbox (`box`).

* `GetChatState` is the lazy expiry: a WAIT that is over reads as RUNNING and nothing is
  written (`state-store.ts:154`). `Touch` is any other write to the hash, which keeps the
  fields and renews the key.
* A turn is idle, `judge`, `send`, or in the middle of a WAIT. `Start` drains, plans with
  `TurnPlan` under the suppression it has read, and wakes the chat for a direct entry.
  `Continue`, `Bypass`, `NoAction`, `Sent`, `Denied` are the outcomes of the gate and of the
  send, with what each writes.
* A WAIT takes three awaits, in the code's order: `SetWaitAnchor`, `EnqueueWaitResume` or
  `EnqueueFails` (the retry failed too, and the WAIT is clamped), `WriteWait` with a set of
  users read one await before. The job's due time and the WAIT's end are taken from two
  different readings of the clock, `MaxLatency` apart at most.
* A `wait_resume` job is read, wake, take, replay (`chat-runtime.ts:217-288`), each a step.
  Turns of a chat are serialised by the execution lock; resume jobs are not.

`excused` is a history variable: something ended the anchor's WAIT out of order. `replays`
counts how often a message came back.

### 2.7 `AICalls`

`callWithFallback` and `hedgedCall` for several calls at once. Labels are positions in the
chain, each with a model of its own. `at` is where a call is (`check` the loop, `solo` or
`race` awaiting, `catch` the outer catch), `att` what became of each attempt, `timer` the
hedge timer (`armed`, `asked` while it awaits `isCoolingDown`, `hung` when that threw). `Answer` and `Reject` are
the callbacks of an attempt, which may come after the call has returned; an abort reaches
an attempt but may be too late for its answer. The INCR of a failure and the SET of the trip
are one step: only the next INCR reads the counter, so whatever comes between the two can be
put before or after both. The breaker is shared, so the calls meet in it. Only what the
threshold tells apart is kept of a counter, and of a trip's growing TTL that it ends some
time.

The breaker is in Redis, and a command of it may be rejected. The client queues commands
while the connection is down and retries them without limit (`db/redis.ts:17`), so this takes
an error reply (a server that is loading its data, or out of memory) or a closed client. What
happens depends on where:

* `CheckBreaks` (`fallback.ts:78`): outside the `try`, so the call throws.
* `CatchBreaks` (`147`, `152`, `154`): inside the `catch`, so the call throws, with the 429
  key, the counter and the trip written as far as it came.
* `AnswerBreaks` (`116`): inside the `try`, so an answer is taken for a failure.
* In the race the records are floating promises (`256-261`, `282-293`, `312-313`): the error
  is logged as an unhandled rejection and `Answer` and `Reject` go on without the record, or
  with the counter raised and no trip (`CountFailure`).
* `HedgeHangs` (`275`): the timer's callback throws before it has settled the hedge.

### 2.8 `Pages` and `PageStore`

The engine is synchronous, so an operation is one step unless the process may die in the
middle of it with something already in a file. There are three such places, and they are the
steps of `op`: a page is appended to the file (`NewPage`), then logged and linked
(`LinkIt`), then the message follows (`AppendMessage`); and a checkpoint is `Flush`,
`SaveMsgIndex`, `PersistMeta`, `Rotate`. `mem` is the file as the pool shows it, `disk` the
file; `Evict` copies one page, whenever it likes.

`Restart` is `open` as one function: `Relinked` and `FromHeap` rebuild chains, tips and
indexes from the pages in the order of their numbers (`engine.ts:205-216`), `Recovered`
replays the log from the checkpoint on, `Warmed` fills the rings. A loop of the code is a
recursive function over the positions of the list it walks (`upTo`), with the body as an
operator of its own (`Rewrite`, `Relink`, `ClearPage`, ...). The operations and the
replay share `Apply`, as they share `applyWal` in the code. Where `Kills` is FALSE the
restart follows a clean close.

`ChatLog` is the promise: per chat the messages in order of arrival, less what trims have
dropped. `PageStoreProps` maps a chat's log to the messages read along its chain; with
`Shuffles` the abstract restart may change the order (section 5 says why it must).

## 3. The runs

State counts and times are with two workers.

| Run | Configuration | Checks | States, time |
|---|---|---|---|
| `burst_plan` | `MCTurnPlan.cfg` | the selection properties on every burst up to 3 entries of 2 senders, every suppression | 666 k, 35 s |
| `turn_races` | `MCTurnActor.cfg` | `TypeOK`, `Conserved`, `NoSilentStranding`: a plain and a direct message by webhook, put-offs, interrupts that end in a replay | 1.2 M, 80 s |
| `turn_trouble` | `MCTurnTrouble.cfg` | `Conserved`, `HandledAtMostOnce`, `MutualExclusion`, `NoSilentStranding`: a plain message and a command that interrupts it, with any two of crash, restart and lapse | 1.2 M, 70 s |
| `turn_resume` | `MCTurnResume.cfg` | `HandledAtMostOnce`, `NoSilentStranding`: one message put off, and any two of crash and failing call, with jobs that stall once too often or run out of attempts | 2.1 M, 130 s |
| `turn_live` | `MCTurnLive.cfg` | `Progress` for two messages that interrupt and displace each other, and replace each other as anchor of a replan | 60 k, 40 s |
| `generations` | `MCGenerations.cfg` | the registry's invariants and `NeverChoked`; deadlock too | 380 k, 40 s |
| `chat_timing` | `MCChatTiming.cfg` | `TypeOK`, `ReplayedOnce`, `ForgottenForAReason`, `VisitFollows`: three messages of two people, WAITs of two lengths, one fault | 42 k, 25 s |
| `ai_calls` | `MCAICalls.cfg` | `TypeOK`, `NothingUntried`, `LoserNotBlamed`, `NothingLeftFlying`, `EveryCallReturns`: a hedged and a plain call over three labels, and two failing Redis commands | 384 k, 35 s |
| `store_trims` | `MCStoreTrims.cfg` | `TypeOK`, `ChatsApart`, `FreeListTrue`, `IndexFinds`, `TipsTrue`, `RecentIsKept`, `HotKept`, `ImplementsChatLog`: two chats and two keys, one clean reopen | 163 k, 45 s |
| `store_crash` | `MCStoreCrash.cfg` | `NothingLost`, `HotReads`: evictions, a kill at any step, replay | 2.1 M, 130 s |
| `wakeup_lost` | `MCTurnWakeup.cfg` | `EmptyTurnReadsTheMark`, which the code does not keep (section 5) | stops at the counterexample |
| `timing_forgotten` | `MCTimingForgotten.cfg` | `NothingForgotten`, which the code does not keep (section 5) | stops at the counterexample |

### 3.1 What the properties say

**The turn.**

* `OneAnswerPerPerson`, `DirectBeforePassive`, `TrimKeepsTheCall`, `WaitIsPerPerson`: the
  promises of the comments in `actor.ts` and `anchor-select.ts`, each over the *whole*
  chain displacement, trim, suppression, selection. `WaitIsPerPerson` has both directions: a
  WAIT silences the people it is about, and nobody else.
* `SinglePersonAgrees`: whoever the loop of `anchor-select.ts` answers is answered at the
  entry that the loop of `actor.ts` would pick among that person's entries, and the two paths
  choose the same for a burst of one sender. A difference between the two loops (in the
  treatment of edits, of calls or of equal dates) breaks it.
* `Conserved`: an accepted message is in exactly one of mailbox, a turn's hands, a delayed
  job that has not injected it, or settled. `HandledAtMostOnce` is the half that survives
  crashes. (A crash loses the burst a turn had drained; the code accepts that, and the
  model shows it is the only loss.)
* `NoSilentStranding`: when nothing is running or due, the mailbox is empty, or marked
  dirty, or holds an entry whose wake-up was cut: by a dead process, a failed command, or a
  job that was given up. The dirty mark is there because of the disagreements of section 5:
  they are the ways a marked mailbox can be left behind.
* `MutualExclusion`: two runs between acquire and release only if one outlived its lease.
* `Progress`: what `NoSilentStranding` says of the end, as a promise that the end comes.
* `NoOrphanGeneration`: every generation nobody has aborted is the registered one, so the
  next message reaches it. `NoStaleRegistration`, `ShutdownReachesAll`: no controller of a
  finished flow stays, and the broadcast also covers what registers later.
* `NeverChoked`: if turns keep generating, do not overlap, and nobody shuts down, some
  generation after another ends although messages keep interrupting.

**The timing state.**

* `ReplayedOnce`: two resume jobs, a new WAIT and the job of an old one may meet at one
  anchor; what was told to wait comes back at most once.
* `ForgottenForAReason`: an anchor that no job is left for was given up because of one of
  the known reasons (`excused`): the chat was woken or stopped, the job was not scheduled
  or late, or it read the state outside its WAIT. `VisitFollows` is the live half: without
  such a reason the message does come back.

**AI calls.**

* `NothingUntried`: a call fails only after every label was tried and rejected, or found
  cooling; the label that the walk skips as "already tried as hedge" included.
* `LoserNotBlamed`, `NothingLeftFlying`: the winner's abort costs the hedge's model nothing,
  and at the moment of return no attempt is left running.
* `EveryCallReturns`: no order of timers, aborts, trips, rejections and failing commands
  leaves a call waiting, but for one: the timer of the hedge met a failing command and the
  primary was rejected (section 5.3, item 4).

**The store.**

* `ChatsApart`, `FreeListTrue`: one free list, and no page in two chains or in none.
* `IndexFinds`, `TipsTrue`, `RecentIsKept`: the three copies (index, tips, rings) agree with
  the pages after any trims, checkpoints and reopen.
* `HotKept`: a set loses no other key when the hot chain overflows.
* `ImplementsChatLog`: appends, trims, checkpoints and reopen are those of `ChatLog`.
* `NothingLost`, `HotReads`: after a kill at any step, with any pages written or not, every
  logged message is found once, on a page of its chat, and every key reads as last set.
  With one key, which always fits the first page (section 5.4 has what two pages do).

### 3.2 Bounds and why they are enough

* **Turn.** Two messages make every pairwise race of handler, turn and resume job.
  Put-offs multiply the states: `turn_trouble` has `MaxDefers = 0`, and `turn_resume` follows
  one message through them, with crashes and faults. What these cuts leave
  out is covered by the theorems of section 4.3, which hold for every `Info` and every set of
  troubles: a put-off that meets a graceful restart, edits in a turn, and `Conserved` where a
  replan takes a new anchor (in `turn_live` a lost entry would break `Progress`). The
  selection among edits is checked in `burst_plan`.
* Three job ids (four for liveness): a running turn, its successor, and one more from a
  race of callers. A call that would need a fourth id waits in the safety runs, which
  leaves out only schedules with four jobs of a chat alive at once.
* `MaxBurst = 2` of three entries reaches the trim, `AnchorBudget = 1` with two senders
  reaches the budget in `burst_plan`; the code's 30, 5 and 3 are the same tests.
* `MaxReplans` is 1, or 0 in `turn_races`, where every interrupt is one too many;
  `MaxDefers = 1`, `MaxInterrupts = 1`: each limit is hit and passed. In `Generations` both
  limits are 2, so that hitting one before the other differs.
* `Troubles` names what may go wrong in a run and `MaxTroubles` how often in all, twice;
  a trouble may come at any step.
* `MaxStalls = 1` as in the code. `ResumeAttempts` is 2 in `turn_resume` instead of 5, so that
  with `MaxTroubles = 2` both limits are met: two crashes fail a `chat_turn` or a
  `defer_resume` job as stalled, two faults use up the attempts of the latter.
* `PromptPointer` says that a new job's delay outlasts the round trip that stores its id.
  Debounces are seconds, so it holds whenever there is a delay at all (a direct message
  has none, and its job may run before its id is stored); `turn_races` runs without it.
* `ConcurrentIngress` is the webhook; long polling handles updates one after another.
* Symmetry over job ids is used for invariants only, never with a liveness property.
  `AnyId = FALSE` picks the new id by CHOOSE where symmetry is off.
* **Timing.** `MaxClock = 4` holds two WAITs of length 2 and one of 3, one after another or
  overlapping; the tolerance is shorter than any WAIT, the clamp among them, the STOP longer, as
  in the code (2, 60, 1200 against 5 to 120 seconds), and `MaxLatency` is larger than the
  tolerance, so a slow WAIT is among the cases. Three
  messages: two that may wait, one that addresses the bot.
* **AI calls.** Three labels: the hedged pair and one more to walk on to. Two calls, one of
  each kind, and a threshold of 2, so that a trip takes failures of both or two of one.
  `MaxErrors = 2` Redis commands fail, of either call, at any place.
* **Store.** A page holds one message and one hot key (two in `store_crash`), so every
  append needs a page and every second key an overflow. Four messages and five pages in
  `store_trims` let a trim of one chat feed the other and the hot chain; `Keeps` empties a
  chat or keeps two pages of it. `store_crash` has one kill and no trims: with a trim, or a
  second crash, the code does lose what the properties ask for (section 5). Symmetry over
  chats and keys; `ImplementsChatLog` has no liveness, so symmetry is sound for it.
* The configurations other than `generations` do not check deadlock: a chat that goes quiet,
  a call that has returned, a clock or a log at its bound are states where the system, or
  the instance, really stops.

### 3.3 Fairness

`LiveSpec` of `TurnActorProps` is weakly fair per process: each handler that has begun, each
caller inside `scheduleTurn`, each run of a turn, each promotion of a delayed job, stalled
jobs (given back or failed), TTLs, and the steps of a shutdown once begun. That is what one event loop with Redis
and BullMQ gives: promises settle, timers fire, LLM calls have timeouts. Arrivals,
interrupts, shutdown, crashes, faults and lapses are never fair: nobody owes them. In
`Generations` the same holds for flows and for `Store`; `Arrive` is free to come or not.
TLC decides which of a turn's steps is taken (an LLM may answer or be put off), so
`Progress` does not depend on the outcome of a pipeline call.

`LiveSpec` of `ChatTiming` lets time pass, a started turn go on, and the worker run jobs that
are due. Nobody owes a message, and no outcome of the gate is owed either.

`LiveSpec` of `AICalls` has one weak fairness per call, over all of its steps together:
every attempt ends because it has a timeout of its own (`fallback.ts`), and timers fire. Which
attempt ends first, and how, is not owed; an abort, the end of a cool-down and the failure of
a command are not owed.

## 4. Proofs

Eight modules hold proofs, for every value of the constants within the named assumptions.
Every safety property that a passing run checks of the turn, the registry, the timing state
and the AI calls is also a theorem, and so are those of the store but `HotReads`; section
4.9 lists what only the runs show.

### 4.1 Lists

`BurstProofs` says what the filter does to a list of any length. `Kept` is a recursive
function, so there are two steps to it: the function exists (`StagesExist`, by the induction
over positions that `Climb` derives from the library's well-founded minimum, since an
induction rule with an operator parameter cannot be used), and its last stage holds exactly
the chosen entries in their order (`KeptPicks`). The rest follows from that: `Thins(t, s)`,
that a list is another with entries left out, is transitive and holds of what a turn digests
(`DigestedThins`); `AnchorIs` says which entry the single path picks, `GroupPickIs` that the
loops of the multi path, which are written in another form, pick the same in any group, and
`GroupAnchorsAre` that there is one for each sender; `JudgedIn` that what is judged is in the
burst.

### 4.2 The selection: `TurnPlanProofs`

`BurstTyped`, `OnePerPerson`, `DirectFirst`, `WaitPerPerson`, `OnePersonAgrees`,
`CallSurvives`, each as `Spec => []...`, for every burst, suppression and limit. Besides the
lemmas above they need `OutranksIsAnOrder` (the comparison of `anchor-select.ts` is a strict
total order on the anchors) and `PickIs`: the entries outranked by fewer than `budget` others
are closed upwards and at most `budget`, and exactly `budget` if anybody was left out.
`WaitPerPerson` rests on `WaitedAreSilent` besides: a candidate is not suppressed, and only
candidates are picked. `OnePersonAgrees` rests on `GroupPickIs`: the last of the direct entries
is the one with no direct entry behind it, and where there is none, the last that is no edit
is the one with only edits behind it.

### 4.3 The turn

**`TurnActorProofs!Exclusion`**: `Spec => []MutualExclusion`, from `ActorAssumption` and
`BufferAssumption` (the token of a dead process and the empty value are no job ids).
`MutualExclusion` is not inductive: a release compares tokens, so one must know that whoever
is in the section owns the lock. The invariant is

    LockInv == Shape /\ \A j \in Jobs \ lapsed : Section(j) => lock = j

where `Shape` gives `run` the little typing that EXCEPT needs. One lemma per kind of step
that touches `run`, `lock` or `lapsed`: `Pick` takes a free lock, `Release` frees only its
own, `Complete` leaves the section before forgetting the lapse, a lapse excuses its turn,
and a reboot empties the section; `WorkEffect` covers the steps inside the section.

**`TurnActorProofs!ImplementsLease`**: `Spec => Lease!Spec`, a refinement. `LeaseLock` knows
one set, `inside`, that somebody enters when it is empty and the holder leaves; it is mapped
to the runs in the section that have not outlived their lease. `OneInside` (from `LockInv`)
says the set has at most the owner, so a step that lets nobody in is a stutter or the owner
leaving (`NobodyEnters`), and only `Pick` lets somebody in, when the lock is free.

**`TurnActorProofs!NoStranding`**: `Spec => []NoSilentStranding`. The property speaks of
quiescent states only; what is inductive is that *at every moment* somebody is left to wake
the chat:

    WakeInv == Records /\ Aligned /\ Woken

`Woken`: the mailbox is empty, or marked, or holds a message whose wake-up was cut, or there
is a waker: a job delayed or waiting, or active under a dead run (BullMQ gives it back), a
run that has yet to look at the mailbox again, a call that has not added its job yet, or a
resume job that is due, in the hands of a worker, or orphaned, while its message is in the
mailbox. Failing a `chat_turn` job as stalled cuts the whole mailbox, giving up a resume job
only its own message, so a resume job must not count as the waker of anything else. `Aligned` says which calls
can be open at which step of a run and that a run has an active job. Each step hands the
role of the waker on, or empties the mailbox, or marks it.

**`TurnActorProofs!TurnTypes`**, **`HandledOnce`** and **`NothingLost`** are
`Spec => []TypeOK`, `Spec => []HandledAtMostOnce` and `Spec => []Conserved`. `Copies(m)` counts
a message in lists, jobs and a history variable; what is inductive is not a count but *where
a message is*:

    MessageInv == Types /\ WakeInv /\ Custody /\ NoneLost

* `Custody`: mailbox, the hands of each run, put-off jobs, settled and not yet stored are
  disjoint sets of messages (`Apart`), and no list has a message twice (`Singly`). That an
  injection may be retried after it was made (a `defer_resume` job that fails in
  `scheduleTurn` or stalls there) is harmless only because its token is in Redis, so the
  invariant also says what each token means: a job that has injected its entry has left its
  token (`Resumes`), and every copy of a message has been put off at least as often as any
  injection of it (`Grow`), so that the token of the next put-off is a new one.
* `NoneLost`: until there is a crash, an accepted message is in one of those sets, or cut.
* `WakeInv` is needed for what a dead run may hold: the job of a run that is off has no hands.

One lemma per action says what it does to those sets (`Drain` moves the box to the hands and
`Done`, `Replan` as well, a put-off moves the head of the hands to `Off`, and so on). The steps
of a resume job have one lemma each (`ResumeMovesSafe` to `ResumeTroubleSafe`); a job that is
given up takes its message out of `Off` and puts it into `cut`, so that `NoneLost` survives it.
`CopiesAre` then turns the sets into the count.

`ActorAssumption` leaves `MaxStalls` any natural number and `ResumeAttempts` any positive one:
no theorem rests on BullMQ's limits being what they are.

TLC checks these invariants too: `WakeInv` held on `turn_races`, and `Custody` with `NoneLost`
on `turn_resume` and `turn_trouble`.

### 4.4 The registry: `GenerationsProofs`

`TypeCorrect`, `NoOrphan`, `NoStale`, `ShutdownComplete`, each as
`Spec => []...`, from `RegistryAssumption` (the empty value is no flow) and
`FlowAssumption` (strong and weak flows are disjoint and all there is). They follow from one
inductive invariant

    Inv == TypeOK /\ Kinds /\ NoOrphanGeneration /\ NoStaleRegistration /\ ShutdownReachesAll

where `Kinds` says that weak flows take weak steps only and strong ones strong ones.
The conjuncts need each other: `Finish` may empty the map only because a stale controller
cannot be there, and a weak flow may take over an aborted controller only because every
live generation is the registered one. The theorems hold with any number of overlapping
turns, so they do not rest on the execution lock.

### 4.5 The timing state: `ChatTimingProofs`

All from `TimingAssumption`, for any messages, people, clock, lengths and latencies.

**`NoneForgotten`**: `Spec => []ForgottenForAReason`. That *some* job is left is not
inductive, since a job that is read outside its WAIT is dropped. The invariant says that,
while nothing is excused, some job is past its reading, or will find its own WAIT: the one
about to be written, or the one in the hash, with a key that lives on and an end within the
tolerance of the job's due time.

**`BackOnce`**: `Spec => []ReplayedOnce`. The property counts replays and jobs about to
replay; inductive is again the whereabouts of a message,

    Custody == OnceEach /\ OnePlace

over the places it can be in for the first time (mailbox, what the turn has yet to decide
about) and those after it was told to wait (anchor, a job that took it, back). Replayed
entries are set apart: they come to the mailbox as copies, and since the gate never tells a
replay to wait they never lead to the anchor again. What `Start` takes up is a thinning of
the mailbox (4.1). **`TimingTypes`** is the typing this rests on.

### 4.6 AI calls: `AICallsProofs`

`CallsTypeOK`, `CallsTryEverything`, `CallsSpareTheLoser` and the action
property `CallsLeaveNothingFlying`, from `CallsAssumption`, for any number of calls, labels and
failing commands. `CallInv` looks at one call: what may be in flight at each place (`Flights`), that
the labels behind its loop are covered and those ahead untouched but for the hedge (`Walk`),
and that once the race is lost the hedge is settled, so skipping label 2 is right (`HedgeInv`).
A timer that hangs is one that is not off, so the race it belongs to is never lost
(`RaceLost` waits for it): the hang costs the call its end and none of these properties.

### 4.7 The store that is closed: `PageStoreProofs`

`StoreTypes`, `FreeListHolds`, `ChatsHold`, `IndexHolds` and `TipsHold`, which are
`Spec => []TypeOK`, `[]FreeListTrue`, `[]ChatsApart`, `[]IndexFinds` and `[]TipsTrue`, from
`PagesAssumption`, `StoreAssumption` and **`~Kills`**: the process closes the store before
it opens it again, as the instance of `store_trims` does. With kills they are false
(section 5.4). They hold for any chats, keys, page sizes, trims, evictions, checkpoints and
number of reopens.

The properties read pointers; what is inductive is that the pointers *are* lists. A witness
`fr` for the free list and `ch[c]` for the chain of each chat are quantified in the
invariant:

    StoreInv == Typed /\ Counted /\ OnDisk /\ Chained /\ HotAtHot(mem, hotAt) /\ Saved
    Chained  == \E fr, ch : Stored(mem, fr, ch, ...) /\ OpTrue(ch)

* `Path(f, s)`: the sequence `s` has no page twice, each is the next of the one before, and
  the last has no next. `Shape` says that `fr` is the path of the free list and holds every
  free page, that `ch[c]` is a path of pages of `c`, and that hot pages lead to hot pages.
  Every page has one kind and one chat, so the paths are apart without saying so, and
  whatever takes a page from one list cannot be seen from another (`SameBut`, `SameButHot`).
* `Stored` adds that tips and index are those of the path, and that *every* page of a chat
  is on its path. This half nothing but `open` reads, and it is what makes `open` right:
  `rebuildFromHeap` links all the pages of a chat it finds, so a page that was dropped from
  a chain and not freed would come back.
* `Pending` and `OpTrue` are the page between its allocation and its link, which is of the
  chat and on no path.
* `Saved` follows the index through the steps of a checkpoint, so that the snapshot that
  `open` accepts by its LSN is the index of the pages on disk.

The first sections have one lemma per operator on what it does to paths: allocating pops the head of
`fr`, or appends a page that is on none; freeing a chain pushes it; a page is linked behind
the last; clearing and filling the hot chain moves pages between `fr` and the hot kind
only. The loops (`FreeAll`, `InsertAll`, `Rewritten`, `Relinked`, ...) are recursive functions
over positions, each with its effect stated up to a position and proved by the same
induction as the filter of 4.1. `TrimStored` and `Reopened` put these together for a trim, where
a chat's pages go back to the free list and the kept messages take pages from it, and for
an open, where the path of a chat becomes the ascending list of its pages.

`StoreIsLog`, `RecentHolds` and `HotHolds` say what the lists are for:

* **`StoreIsLog`**: `Spec => ImplementsChatLog`, also from `Shuffles` (an open may permute a
  chat, which the code does). `StoreInv` gives a path for every chat; what its pages hold,
  read along it, is `ChatOf`. `StillReads` and its companions say which operations leave
  those readings alone, `LogStep` that each step of the store is one of `ChatLog` or a
  stutter: an append puts one message at the end, a trim keeps the newest that the code
  keeps, an open finds the same messages, as many of each as before (`EntriesCount`,
  `EntriesNames`).
* **`RecentHolds`**: `Spec => []RecentIsKept`, from `~Kills`. The property compares sets and
  lengths, and is not inductive, since a log with one message twice satisfies it. `RecentInv`
  says that the log has no message twice, and that the ring has none either, takes all of
  its messages from the log, and is as long as the log up to `RingMax`. It says nothing of
  the ring's order: after an open, the log need not be in the order of time, and a ring
  that was filled before and one that is read afterwards differ.

* **`HotHolds`**: `Spec => []HotKept`, from `~Kills` and `Deletable = {}` (no key is deleted:
  a delete does cut an overflowed chain, section 5.4). `HotHeld` says that a path leads from
  the root over hot pages, and that they hold the last value of every key that was set.
  Chats disturb no hot page (`HotPagesSame`), so only the rewrite is work: a cleared chain
  is the root alone, holding nothing (`HotCleared`); an insert puts its tuple on a page of
  the path, or on one that was on no path and is now its last (`HotInserted`); all
  inserted, the path holds the list (`HotFilled`), which is what there was of the other keys
  and the new value (`HotWritten`).

### 4.8 The store that is killed: `StoreCrashProofs`

**`KillLosesNothing`**: `Spec => []NothingLost` from `PagesAssumption`, `StoreAssumption`,
`Keeps = {}` and `MaxLives = 1`: chats are not trimmed, and there is one kill, at any step
(5.4, items 5 and 6, say what the code does otherwise). Chats, keys, values, deletes, page
sizes, evictions, checkpoints and the number of messages are free. `StoreAssumption` says
`Chats \cap Keys = {}` for this proof: a tuple of a chat and one of a hot key are told apart
by the kind of their page in the code, by what they name in the model.

`StoreInv` is of no use here, since after a kill the chains are what `rebuildFromHeap` makes
of them. `NothingLost` needs only that every message is on one page and in the index, so
`CrashInv` forgets the chains and relates three things instead:

    CrashInv == posted and LSNs typed /\ Filed(Loaded, posted) /\ OpHolds
                /\ lives \in {0, 1} /\ (lives = 0 => Recoverable)

* `Filed`: in memory, every page belongs to its chat and lists its messages in the order
  they came (`Whole`, `InOrder`), the tail of a chat is a page of its own, and the index of
  each posted message points at it (`Found`).
* `Recoverable`, until the kill: the file on disk lags behind memory, that is, each of its
  pages has a prefix of what the pool's page has (`Behind`); a message that is missing from
  the file, or from the snapshot, has an insert record in the WAL that the checkpoint does
  not cover (`Written`, `Snapped`); records are in the order of LSNs and of messages, and
  name the page the message is on (`WalTrue`). Each step of a checkpoint has its own claim
  in between (`Checking`): the metadata may cover a record only once its page is flushed,
  and the snapshot is taken before.
* Evictions write any dirty page at any time; that only moves a prefix on (`Blanked`,
  `BehindSame`).

The replay is a fold over the WAL, so the proof has its stages (`Stages`, `StagesExist`) and
a claim of each, `Replayed(s, n)`: after `n` records the file is still behind memory as it
was, and a message whose record is no longer to come is where memory had it and in the
index. The step for an insert (`ReplayInsert`) is the heart: messages are on their page in
order, all that come before this one on the page are there already, so the record's message
is either on the page, at the place that memory had, or is appended at that place. Hence
the replay does not depend on which pages were written, and applying a record to a page
that has it changes nothing. Link records and hot records disturb no message
(`ReplayLink`, `ReplayHot`), nor does the final relinking (`RecoveredFiled`).

After that, `lives = 1` and only `Filed` is claimed. All steps that follow keep it; by
`MaxLives = 1` no second kill is among them.

### 4.9 Only model-checked

* All liveness (`Progress`, `NeverChoked`, `VisitFollows`, `EveryCallReturns`), because
  fairness and ENABLED are out of the prover's reach.
* `HotReads`, of a store that is killed. It is true only where the hot keys fit the first
  page (section 5.4), which is a bound on the instance rather than on the code.

## 5. Where code and comments disagree

Two are runs that TLC must refute (`wakeup_lost`, `timing_forgotten`); the quoted lines are
in `PROJECT.json`, "findings". The others were met while modelling: where the model has the
behaviour in it, the properties leave room for it, and each says where.

### 5.1 The turn

1. **`wakeup_lost`** (`actor.ts:484`). A turn that drains an empty mailbox returns before
   the tail that reads the dirty mark. A message whose `scheduleTurn` meets this job while it
   is active only sets the mark. It then waits for the next message, although the
   scheduler's comment relies on the tail.
2. The loser of the lock (`actor.ts:449`) calls `scheduleTurn`, which finds the loser's own
   job active and marks dirty. If the holder has already counted its mailbox, nobody is
   left to look (`turn-lock.ts:13-14` says the holder's tail will).
3. A command met during shutdown is put back as a replay (`actor.ts:187`), and the first
   fresh message after the restart displaces all replays (against `172` and `185`).
4. A plain message that interrupts the answer to a call becomes the anchor of the replan
   (`actor.ts:394`); the call is tracked and not answered, although `358-362` promise direct
   first.
5. A `chat_turn` job whose worker dies twice is failed at the second stall and removed
   (`worker.ts:76-84`, `turn-scheduler.ts:175`). What is in the mailbox by then has no turn and
   no dirty mark, and waits for the next message. No comment speaks of it; the second crash is
   the only way, so `NoSilentStranding` excuses what was in the mailbox at that step.
6. A `defer_resume` job that fails at all of its 5 attempts, or stalls twice, is kept by
   BullMQ for an operator (`producer.ts:105-106`). For the chat, what it put off is lost if it
   had not been injected, and waits for the next message if it had.

The first two are why `NoSilentStranding` and `Progress` excuse a mailbox that is marked
dirty. `turn-scheduler.ts:2` also speaks of at most one scheduled turn per chat, which its
three round trips do not guarantee; the execution lock was added for that, and
`MutualExclusion` is about what it restores.

### 5.2 The timing state

1. **`timing_forgotten`** (`chat-runtime.ts:220`). The job of a WAIT that runs when the WAIT
   is just over finds `getChatState` reporting RUNNING (`state-store.ts:154`) and returns
   before it takes the anchor: what was told to wait stays silent, which the comment at
   `255-258` calls the old behaviour.
2. A STOP of 20 minutes after a denied send (`deliver.ts:1251-1254`) becomes one of 24 hours
   with the next write of the hash, since every persist renews the key (`Touch`).

### 5.3 AI calls

1. The hedge's timer awaits `isCoolingDown` (`fallback.ts:275`); if the primary wins
   meanwhile, the hedge still starts and nobody aborts it, though the comments at `204-208`
   and `306` say the loser is. `NothingLeftFlying` is therefore about the moment of return.
2. A hedged primary that fails is recorded twice, at `260` and again at `152`, and a caller's
   abort during a race is recorded as a failure; a primary aborted by the winner is charged
   as well. `LoserNotBlamed` speaks of the hedge only.
3. The half-open state of `cooldown.ts:9` ("one probe") admits as many as come: the key is
   gone for all calls at once, and `isHalfOpen` is not asked.
4. A hedge that hangs (`fallback.ts:275`). When the timer's look at the breaker fails, its
   async callback throws (`index.ts:376` logs it and goes on), and nobody resolves or rejects
   the hedge's promise. If the primary is then rejected, `Promise.any` waits for ever, against
   `303` ("only reject if both fail"), and an abort of the caller reaches no attempt any more.
   `EveryCallReturns` excuses such a call, and no other whose timer hangs.
   `\A c \in Hedging : <>(at[c] = "done")` is refuted with one call, two labels and one error.
5. A failing command of the breaker is not contained: at `78` and in the outer catch (`147`,
   `152`, `154`) it ends the call with labels untried, and at `116` a good answer is thrown
   away, the next label is asked, and a model that has just answered is charged with a
   failure. `NothingUntried` is about calls that gave up by themselves (`failed`), not about
   those that broke off (`broken`).

### 5.4 The store

1. `engine.ts:769`: an open notes for every hot key the page that it is on
   (`182`), and reads start there. A set of another key rewrites the whole chain and changes
   only its own note (`424`). A key that was on an overflow page is then looked for behind
   the page it has moved to, or on a cleared page that is in no chain any more, and not
   found, although `422-423` say that `hotGet` walks the chain. It is still there
   (`HotKept`), and the next open finds it. `HotReads` fails in `MCStoreTrims.cfg` for this
   reason: two keys, a checkpoint, the reopen, and a set of the key on the first page.
2. After trims a chat's pages are no longer in the order of their numbers, and a reopen
   links them by number (`engine.ts:205-216`): the messages stay, their order does not, and
   the next trim drops by that order (`700`). `Shuffles` in `ChatLog` stands for this.
3. `hotDel` replaces a page of an overflowed chain and then follows the fresh page's pointer
   (`engine.ts:821-826`): the rest of the chain is cut off. `hotSet` on an overflowed chain
   leaks its overflow pages. `store_crash` deletes where the keys fit one page, and
   `store_trims`, with an overflow, does not delete.
4. A kill between the append of a page and its link record leaves a page of chat 0
   (`engine.ts:197`) until its record is replayed or for good, and the replay does not count
   what it puts back (`557` is in the append only), so a trim may see too few. The properties
   of `store_crash` are about messages and keys, not counts.
5. Taking a page from the free list is not logged. After a crash the list in the file may
   still hold a page that the log then uses, so two owners get it: no trims, hence no free
   pages, where the process may be killed.
6. The next LSN after an open is that of the last checkpoint, not that of the last record;
   after a second crash records are skipped or applied twice. `MaxLives = 1` where the
   process may be killed.
7. An entry that does not fit an empty page: `insertIntoChain` ignores the result of its last
   insert (`engine.ts:450`), so the entry is lost without a word; `chatAppend` throws
   (`545`), but only after it has allocated and linked an empty page. Neither is modelled. The
   program cuts every message down to 3900 bytes before it appends it (`chat-log.ts:241-256`),
   below the 4028 that an empty page holds, and sets hot keys in its migration script only
   (`scripts/migrate-to-nyatdb.ts:152`), which does not look at their length.

## 6. What is not modelled

* Wording, formatting, logs, metrics, the length of delays, 24 h key TTLs of the mailbox.
* The pipeline inside a generation (judge, planner, writers, delivery), which is the larger
  part of the source: its steps are LLM calls whose outcome the code does not determine,
  prompts, and text processing. What it does to the state the models have is an outcome of
  `TurnActor`, `ChatTiming` or `AICalls`.
* Obligations: they ride along with entries and change prompts, not the control of the turn.
* The path with `TURN_ACTOR`, `TURN_ABORT` or `TURN_EXEC_LOCK` switched off.
* The Smart Group's reordering and the image filter of the AI chain, retries inside one
  attempt, accounting.
* In NyatDB: entries that do not fit an empty page (5.4, item 7), impulse and bond chains
  (replayed without a check, so not idempotent), recall vectors, the facade, the Rust port,
  torn writes and power loss.
* In BullMQ: a live worker that loses its job lock because it is stuck for more than 5 minutes
  (its job would be given to another while it runs; the execution lock is what would then
  keep the two apart, as after a lapse).
* The Meta path with the subagent queue, ingress failover, join verification, cron jobs,
  games, admin and web front ends: the reasons are in `PROJECT.json`, "components". In the
  main they are one caller's I/O, single-row bookkeeping, or prompts.

The models therefore stand for a small share of the source by lines. They cover the parts
where its correctness depends on order.

## 7. Plan

Open, in this order, should the project go on:

1. **`TurnActor` with `ChatTiming`** in one specification, so that the suppression a turn
   reads is the one the timing state has. The two share `TurnPlan` and the mailbox's shape,
   and the composed instance needs two messages and no troubles to stay small.
2. **Ingress failover** and the **subagent queue** as small modules.
3. **The store with trims and kills** once the free list is logged: `ChatLog` without
   `Shuffles` is then the specification to meet.
