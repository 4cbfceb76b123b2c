----------------------------- MODULE TurnBuffer -----------------------------
(***************************************************************************)
(* The Redis side of one chat's mailbox (pipeline/turn/buffer.ts).         *)
(*                                                                         *)
(* Keys carry the chat id, so chats do not interact and one chat is        *)
(* modelled.  A Lua script or a MULTI block is one step; everything else   *)
(* is one step per command.  What only feeds delays and logs is left out:  *)
(* firstPendingAt, lastMsgAt, highWatermark, epoch, and the 24 h key TTL.  *)
(***************************************************************************)
EXTENDS Naturals, Sequences

CONSTANTS Msgs,       \* Telegram messages of the chat
          Info,       \* what a message is: its sender, date and kind
          Jobs,       \* ids of chat_turn jobs
          NoJob,      \* no id
          MaxDefers   \* TURN_GATE_DEFER_MAX_REPLAYS

MessageInfo ==
    [uid : Nat, ts : Nat, direct : BOOLEAN, isEdit : BOOLEAN, cmd : BOOLEAN]

ASSUME BufferAssumption ==
    /\ Info \in [Msgs -> MessageInfo]
    /\ NoJob \notin Jobs
    /\ MaxDefers \in Nat

VARIABLES pending,         \* the pending list
          pendingDirect,   \* meta: a direct entry is in the list
          scheduledJobId,  \* meta: the job that is expected to drain it
          dirty,           \* meta: messages arrived while that job ran
          tokens           \* defer injections already made

bufferVars == <<pending, pendingDirect, scheduledJobId, dirty, tokens>>

\* PendingEntry: a message and how often it has come round.
Entry ==
    [msg : Msgs, uid : Nat, ts : Nat, direct : BOOLEAN, isEdit : BOOLEAN,
     cmd : BOOLEAN, replay : BOOLEAN, defers : 0..MaxDefers]

\* The entry the ingress handler writes for a new message.
FreshEntry(m) ==
    [msg |-> m, uid |-> Info[m].uid, ts |-> Info[m].ts,
     direct |-> Info[m].direct, isEdit |-> Info[m].isEdit, cmd |-> Info[m].cmd,
     replay |-> FALSE, defers |-> 0]

\* Mutant: one put-off too many.
HasBudgetOffByOne(e) == e.defers <= MaxDefers

HasDeferBudget(e) == e.defers < MaxDefers

\* buildDeferEntry rebuilds the entry from the job: direct and isEdit are gone.
DeferredEntry(e) ==
    [e EXCEPT !.direct = FALSE, !.isEdit = FALSE, !.replay = TRUE,
              !.defers = e.defers + 1]

AppendPending(e) ==
    /\ pending' = Append(pending, e)
    /\ pendingDirect' = (pendingDirect \/ e.direct)

\* Mutant: the retry of a defer_resume job appends again.
ReinjectUngated(token, e) ==
    /\ AppendPending(e)
    /\ tokens' = tokens \cup {token}

\* Check of the token, append and insertion of the token are one script.
ReinjectDefer(token, e) ==
    IF token \in tokens
    THEN UNCHANGED <<pending, pendingDirect, tokens>>
    ELSE AppendPending(e) /\ tokens' = tokens \cup {token}

\* Mutant: the list is read and not deleted.
DrainCopies ==
    /\ pending' = pending
    /\ pendingDirect' = FALSE

DrainPending ==
    /\ pending' = <<>>
    /\ pendingDirect' = FALSE

BufferInit ==
    /\ pending = <<>>
    /\ pendingDirect = FALSE
    /\ scheduledJobId = NoJob
    /\ dirty = FALSE
    /\ tokens = {}
=============================================================================
