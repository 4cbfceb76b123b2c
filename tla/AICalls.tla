------------------------------- MODULE AICalls -------------------------------
(***************************************************************************)
(* Concurrent LLM calls over a chain of labels (ai/fallback.ts) and the    *)
(* circuit breaker their failures share (ai/cooldown.ts).                  *)
(*                                                                         *)
(* A call walks its labels in order and skips those whose model is cooling *)
(* down.  Its first label may be hedged: when the answer takes too long a  *)
(* timer starts the second label next to it, the first answer wins and the *)
(* loser is aborted.  Only when both are rejected does the walk go on, past*)
(* the label already tried as hedge.  A caller (an interrupted turn, the   *)
(* shutdown) may abort a call at any time.  Failures raise a counter per   *)
(* model; at a threshold the model is tripped and skipped until a TTL ends.*)
(*                                                                         *)
(* Labels are their positions 1..N in the chain, each with a model of its  *)
(* own; the Smart Group's reordering and the image filter choose the chain *)
(* before a call starts.  How long anything takes is left open.            *)
(*                                                                         *)
(* The breaker lives in Redis, and a command may fail.  In the loop this   *)
(* ends the call or turns an answer into a failure; in the race the        *)
(* records are floating promises and are merely lost, but the timer's look *)
(* at the breaker is awaited by nobody who would settle the hedge.         *)
(***************************************************************************)
EXTENDS Integers

CONSTANTS Calls,      \* concurrent calls
          N,          \* labels in the chain
          Hedging,    \* calls with a positive hedge delay
          Threshold,  \* failures in a row that trip a breaker (3)
          MaxErrors   \* bound: Redis commands that fail

ASSUME CallsAssumption ==
    /\ N \in Nat \ {0}
    /\ Threshold \in Nat \ {0}
    /\ Hedging \subseteq Calls
    /\ MaxErrors \in Nat

VARIABLES at,        \* where callWithFallback is
          next,      \* the label its loop is at
          att,       \* the attempts of each call
          timer,     \* the hedge timer of each call
          told,      \* the caller's signal is aborted
          result,    \* what the call returned
          skipped,   \* ghost: labels the call found cooling down
          blame,     \* ghost: failures recorded for each attempt, at most 2
          fails,     \* failure counter of each model, kept at Threshold
          tripped,   \* breaker keys
          limited,   \* 429 keys
          errors     \* the Redis commands that failed so far

vars == <<at, next, att, timer, told, result, skipped, blame, fails, tripped, limited, errors>>
models == <<fails, tripped, limited, errors>>

Labels == 1..N
Hedged(c) == c \in Hedging /\ N > 1

Attempts == {"none", "flying", "stopped", "beaten", "ok", "bad", "gone"}
    \* stopped: aborted by the caller; beaten: aborted by the winner;
    \* bad: rejected, whatever for, or answered and not recorded;
    \* gone: rejected after it was beaten

\* The next Redis command fails.
Breaks == errors < MaxErrors /\ errors' = errors + 1

-----------------------------------------------------------------------------
(* The breaker *)

Cooling(l) == tripped[l] \/ limited[l]

\* A failure of the attempt of c at l; the counter survives a trip, so the
\* first failure after the TTL trips again.
RecordFailure(c, l) ==
    LET count == IF fails[l] < Threshold THEN fails[l] + 1 ELSE fails[l]
    IN  /\ fails' = [fails EXCEPT ![l] = count]
        /\ tripped' = [tripped EXCEPT ![l] = @ \/ count >= Threshold]
        /\ blame' = [blame EXCEPT ![c][l] = IF @ < 2 THEN @ + 1 ELSE @]

\* The counter is raised, then the trip key fails.
CountFailure(c, l) ==
    /\ fails' = [fails EXCEPT ![l] = IF @ < Threshold THEN @ + 1 ELSE @]
    /\ blame' = [blame EXCEPT ![c][l] = IF @ < 2 THEN @ + 1 ELSE @]
    /\ UNCHANGED tripped

\* Mutant: a success takes one failure back.
RecordSuccessDecays(l) ==
    /\ fails' = [fails EXCEPT ![l] = @ - 1]
    /\ UNCHANGED <<tripped, blame>>

\* Only the counter: a trip runs its time.
RecordSuccess(l) ==
    /\ fails' = [fails EXCEPT ![l] = 0]
    /\ UNCHANGED <<tripped, blame>>

NoRecord == UNCHANGED <<fails, tripped, blame>>

\* A rate limit also sets the short cool-down.
Limits(l) ==
    \/ UNCHANGED limited
    \/ limited' = [limited EXCEPT ![l] = TRUE]

Expire(l) ==
    /\ Cooling(l)
    /\ \/ tripped' = [tripped EXCEPT ![l] = FALSE] /\ UNCHANGED limited
       \/ limited' = [limited EXCEPT ![l] = FALSE] /\ UNCHANGED tripped
    /\ UNCHANGED <<at, next, att, timer, told, result, skipped, blame, fails, errors>>

-----------------------------------------------------------------------------
(* The loop over the labels *)

\* An attempt whose caller has already aborted is rejected at once.
Launched(c) == IF told[c] THEN "stopped" ELSE "flying"

TriedAsHedge(c) == Hedged(c) /\ next[c] = 2 /\ att[c][1] # "none"

\* Mutant: the label after the hedged one is skipped too.
SkipTwo(c) ==
    /\ at[c] = "check" /\ next[c] <= N
    /\ TriedAsHedge(c)
    /\ next' = [next EXCEPT ![c] = IF @ + 2 > N + 1 THEN N + 1 ELSE @ + 2]
    /\ UNCHANGED <<at, att, timer, told, result, skipped, blame, models>>

\* if (labelName === hedgeTriedLabel) continue
SkipHedged(c) ==
    /\ at[c] = "check" /\ next[c] <= N
    /\ TriedAsHedge(c)
    /\ next' = [next EXCEPT ![c] = @ + 1]
    /\ UNCHANGED <<at, att, timer, told, result, skipped, blame, models>>

SkipCooling(c) ==
    /\ at[c] = "check" /\ next[c] <= N
    /\ ~TriedAsHedge(c)
    /\ Cooling(next[c])
    /\ skipped' = [skipped EXCEPT ![c] = @ \cup {next[c]}]
    /\ next' = [next EXCEPT ![c] = @ + 1]
    /\ UNCHANGED <<at, att, timer, told, result, blame, models>>

Launch(c) ==
    /\ at[c] = "check" /\ next[c] <= N
    /\ ~TriedAsHedge(c)
    /\ ~Cooling(next[c])
    /\ att' = [att EXCEPT ![c][next[c]] = Launched(c)]
    /\ IF next[c] = 1 /\ Hedged(c)
       THEN /\ at' = [at EXCEPT ![c] = "race"]
            /\ timer' = [timer EXCEPT ![c] = "armed"]
       ELSE /\ at' = [at EXCEPT ![c] = "solo"]
            /\ UNCHANGED timer
    /\ UNCHANGED <<next, told, result, skipped, blame, models>>

\* isCoolingDown throws outside the try: so does the call.
CheckBreaks(c) ==
    /\ at[c] = "check" /\ next[c] <= N
    /\ ~TriedAsHedge(c)
    /\ Breaks
    /\ at' = [at EXCEPT ![c] = "done"]
    /\ result' = [result EXCEPT ![c] = "broken"]
    /\ UNCHANGED <<next, att, timer, told, skipped, blame, fails, tripped, limited>>

\* All labels exhausted: the last error is thrown.
GiveUp(c) ==
    /\ at[c] = "check" /\ next[c] = N + 1
    /\ at' = [at EXCEPT ![c] = "done"]
    /\ result' = [result EXCEPT ![c] = "failed"]
    /\ UNCHANGED <<next, att, timer, told, skipped, blame, models>>

\* The outer catch: an aborted call surfaces, any other failure is recorded
\* (again, for a race that was lost) and the walk goes on.
Catch(c) ==
    /\ at[c] = "catch"
    /\ IF told[c]
       THEN /\ at' = [at EXCEPT ![c] = "done"]
            /\ result' = [result EXCEPT ![c] = "aborted"]
            /\ NoRecord
            /\ UNCHANGED <<next, limited>>
       ELSE /\ at' = [at EXCEPT ![c] = "check"]
            /\ next' = [next EXCEPT ![c] = @ + 1]
            /\ RecordFailure(c, next[c])
            /\ Limits(next[c])
            /\ UNCHANGED result
    /\ UNCHANGED <<att, timer, told, skipped, errors>>

\* One of the commands of the outer catch throws, and so does the call: the 429
\* key, the counter, the trip, or the TTL that is read for the log.
CatchBreaks(c) ==
    /\ at[c] = "catch"
    /\ ~told[c]
    /\ Breaks
    /\ at' = [at EXCEPT ![c] = "done"]
    /\ result' = [result EXCEPT ![c] = "broken"]
    /\ Limits(next[c])
    /\ NoRecord \/ CountFailure(c, next[c]) \/ RecordFailure(c, next[c])
    /\ UNCHANGED <<next, att, timer, told, skipped>>

-----------------------------------------------------------------------------
(* The race *)

TimerFires(c) ==
    /\ timer[c] = "armed"
    /\ timer' = [timer EXCEPT ![c] = IF told[c] THEN "off" ELSE "asked"]
    /\ UNCHANGED <<at, next, att, told, result, skipped, blame, models>>

\* The answer of isCoolingDown is back; nobody looks whether the race is over.
HedgeGoes(c) ==
    /\ timer[c] = "asked"
    /\ timer' = [timer EXCEPT ![c] = "off"]
    /\ IF Cooling(2)
       THEN skipped' = [skipped EXCEPT ![c] = @ \cup {2}] /\ UNCHANGED att
       ELSE att' = [att EXCEPT ![c][2] = Launched(c)] /\ UNCHANGED skipped
    /\ UNCHANGED <<at, next, told, result, blame, models>>

\* isCoolingDown throws inside the timer's async callback: an unhandled
\* rejection, which the process survives, and a promise nobody settles.
HedgeHangs(c) ==
    /\ timer[c] = "asked"
    /\ Breaks
    /\ timer' = [timer EXCEPT ![c] = "hung"]
    /\ UNCHANGED <<at, next, att, told, result, skipped, blame, fails, tripped, limited>>

\* Mutant: the loser is left alone.
SettledAlone(c, l) ==
    [k \in Labels |-> IF k = l THEN "ok" ELSE att[c][k]]

\* The first answer: every other attempt in flight is aborted.
Settled(c, l) ==
    [k \in Labels |-> IF k = l THEN "ok"
                      ELSE IF att[c][k] = "flying" THEN "beaten" ELSE att[c][k]]

\* An abort may come too late for an answer.  A second answer is thrown away,
\* but the hedge's still counts as a success of its model.  The records of a race
\* may be lost.
Answer(c, l) ==
    /\ att[c][l] \in {"flying", "stopped", "beaten"}
    /\ IF at[c] = "done"
       THEN /\ att' = [att EXCEPT ![c][l] = "ok"]
            /\ UNCHANGED <<at, timer, result>>
       ELSE /\ att' = [att EXCEPT ![c] = Settled(c, l)]
            /\ timer' = [timer EXCEPT ![c] = IF l = 1 /\ @ = "armed" THEN "off" ELSE @]
            /\ at' = [at EXCEPT ![c] = "done"]
            /\ result' = [result EXCEPT ![c] = "ok"]
    /\ IF at[c] = "done" /\ l = 1
       THEN NoRecord /\ UNCHANGED errors
       ELSE \/ RecordSuccess(l) /\ UNCHANGED errors
            \/ at[c] # "solo" /\ Breaks /\ NoRecord
    /\ UNCHANGED <<next, told, skipped, limited>>

\* recordSuccess throws inside the try: the answer is taken for a failure.
AnswerBreaks(c, l) ==
    /\ at[c] = "solo"
    /\ att[c][l] \in {"flying", "stopped"}
    /\ Breaks
    /\ att' = [att EXCEPT ![c][l] = "bad"]
    /\ at' = [at EXCEPT ![c] = "catch"]
    /\ UNCHANGED <<next, timer, told, result, skipped, blame, fails, tripped, limited>>

\* Mutant: the hedge is charged for losing.
ChargedAlways(c, l) == at[c] # "solo"

\* Who is charged for a rejected attempt inside hedgedCall: the primary always,
\* the hedge only when nobody else has won.
Charged(c, l) == at[c] # "solo" /\ (l = 1 \/ result[c] # "ok")

\* A failed, empty (rejectEmpty), timed-out or aborted attempt.  Alone, it
\* leaves its record to the outer catch.
Reject(c, l) ==
    /\ att[c][l] \in {"flying", "stopped", "beaten"}
    /\ att' = [att EXCEPT ![c][l] = IF @ = "beaten" THEN "gone" ELSE "bad"]
    /\ at' = [at EXCEPT ![c] = IF @ = "solo" THEN "catch" ELSE @]
    /\ IF Charged(c, l)
       THEN /\ \/ RecordFailure(c, l) /\ UNCHANGED errors
               \/ Breaks /\ (NoRecord \/ CountFailure(c, l))
            /\ IF att[c][l] = "flying" THEN Limits(l) ELSE UNCHANGED limited
       ELSE NoRecord /\ UNCHANGED <<limited, errors>>
    /\ UNCHANGED <<next, timer, told, result, skipped>>

\* Mutant: a hedge that was skipped leaves its promise pending.
RaceLostByBoth(c) ==
    /\ at[c] = "race"
    /\ att[c][1] = "bad" /\ att[c][2] = "bad"
    /\ at' = [at EXCEPT ![c] = "catch"]
    /\ UNCHANGED <<next, att, timer, told, result, skipped, blame, models>>

\* Promise.any: both promises are rejected, the hedge's perhaps unstarted.
RaceLost(c) ==
    /\ at[c] = "race"
    /\ att[c][1] = "bad"
    /\ timer[c] = "off" /\ att[c][2] \in {"none", "bad"}
    /\ at' = [at EXCEPT ![c] = "catch"]
    /\ UNCHANGED <<next, att, timer, told, result, skipped, blame, models>>

\* The caller's signal reaches every attempt of the call.
Abort(c) ==
    /\ at[c] # "done" /\ ~told[c]
    /\ told' = [told EXCEPT ![c] = TRUE]
    /\ att' = [att EXCEPT ![c] = [l \in Labels |-> IF att[c][l] = "flying" THEN "stopped" ELSE att[c][l]]]
    /\ UNCHANGED <<at, next, timer, result, skipped, blame, models>>

-----------------------------------------------------------------------------
Init ==
    /\ at = [c \in Calls |-> "check"]
    /\ next = [c \in Calls |-> 1]
    /\ att = [c \in Calls |-> [l \in Labels |-> "none"]]
    /\ timer = [c \in Calls |-> "off"]
    /\ told = [c \in Calls |-> FALSE]
    /\ result = [c \in Calls |-> "none"]
    /\ skipped = [c \in Calls |-> {}]
    /\ blame = [c \in Calls |-> [l \in Labels |-> 0]]
    /\ fails = [l \in Labels |-> 0]
    /\ tripped = [l \in Labels |-> FALSE]
    /\ limited = [l \in Labels |-> FALSE]
    /\ errors = 0

CallStep(c) ==
    \/ SkipHedged(c) \/ SkipCooling(c) \/ Launch(c) \/ GiveUp(c) \/ Catch(c)
    \/ TimerFires(c) \/ HedgeGoes(c) \/ RaceLost(c)
    \/ \E l \in Labels : Answer(c, l) \/ Reject(c, l)

RedisBreaks(c) ==
    \/ CheckBreaks(c) \/ CatchBreaks(c) \/ HedgeHangs(c)
    \/ \E l \in Labels : AnswerBreaks(c, l)

Next ==
    \/ \E c \in Calls : CallStep(c) \/ RedisBreaks(c) \/ Abort(c)
    \/ \E l \in Labels : Expire(l)

Spec == Init /\ [][Next]_vars

\* Every attempt ends (each has a timeout of its own), timers fire, and the
\* event loop runs on; the caller need not abort, keys may outlast the run, and
\* no Redis command has to fail.
LiveSpec == Spec /\ \A c \in Calls : WF_vars(CallStep(c))

-----------------------------------------------------------------------------
(* Properties *)

\* The variables hold what the code can put there.
TypeOK ==
    /\ at \in [Calls -> {"check", "race", "solo", "catch", "done"}]
    /\ next \in [Calls -> 1..(N + 1)]
    /\ att \in [Calls -> [Labels -> Attempts]]
    /\ timer \in [Calls -> {"off", "armed", "asked", "hung"}]
    /\ told \in [Calls -> BOOLEAN]
    /\ result \in [Calls -> {"none", "ok", "failed", "aborted", "broken"}]
    /\ skipped \in [Calls -> SUBSET Labels]
    /\ blame \in [Calls -> [Labels -> 0..2]]
    /\ fails \in [Labels -> 0..Threshold]
    /\ tripped \in [Labels -> BOOLEAN]
    /\ limited \in [Labels -> BOOLEAN]
    /\ errors \in 0..MaxErrors

\* Unless Redis breaks it off, a call fails only when it has nothing left: every
\* label was tried in this call and rejected, or was found cooling down, the label
\* skipped as "already tried as hedge" included (fallback.ts:66-67, 92-96).
NothingUntried ==
    \A c \in Calls : result[c] = "failed" =>
        \A l \in Labels : att[c][l] = "bad" \/ l \in skipped[c]

\* A hedge that was aborted because the primary won is not held against its
\* model (fallback.ts:284-294).
LoserNotBlamed ==
    \A c \in Calls : N > 1 /\ att[c][2] \in {"beaten", "gone"} => blame[c][2] = 0

\* At the moment a call returns, no attempt it has started is left running
\* (fallback.ts:215-219, 305-308).
NothingLeftFlying ==
    [][\A c \in Calls, l \in Labels :
          at[c] # "done" /\ at'[c] = "done" => att'[c][l] # "flying"]_vars

\* Whatever fails, trips or is aborted, a call comes back, unless the timer of its
\* hedge met a failing command and the primary was rejected (fallback.ts:275): then
\* nobody settles the race ("only reject if both fail", fallback.ts:303).
EveryCallReturns ==
    \A c \in Calls : <>(at[c] = "done" \/ (timer[c] = "hung" /\ att[c][1] = "bad"))
=============================================================================
