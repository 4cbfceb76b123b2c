------------------------------ MODULE TurnPlan ------------------------------
(***************************************************************************)
(* Which entries of a drained burst a cognition turn answers.              *)
(*                                                                         *)
(* runChatTurnInner (pipeline/turn/actor.ts) takes the whole pending list  *)
(* of a chat, sets replays aside, trims an overflowing backlog, applies    *)
(* the WAIT / STOP suppression and then splits what is left into entries   *)
(* that are judged (and may be answered) and entries that are only         *)
(* tracked.  These are pure functions of the burst; the module TurnActor   *)
(* uses them on its mailbox.                                               *)
(*                                                                         *)
(* An entry is a record                                                    *)
(*   uid     the sender            direct  a mention of / reply to the bot *)
(*   isEdit  an edited message     cmd     a slash command for this bot    *)
(*   replay  a wait or defer replay         ts  the message date           *)
(* A suppression is what the chat's timing state asks for:                 *)
(*   [kind |-> "none"]  RUNNING                                            *)
(*   [kind |-> "all"]   STOP, or a WAIT without a set of triggering users  *)
(*   [kind |-> "some", uids]  a WAIT triggered by these users              *)
(* (waitTopicKey, which would narrow a WAIT to one topic, has no writer in *)
(* the code: it is always undefined and left out.)                         *)
(***************************************************************************)
EXTENDS Naturals, Sequences, FiniteSetsExt

CONSTANTS MaxBurst,         \* entries a turn digests (30 in the code)
          MaxOlderDirects,  \* direct entries saved from the trimmed part (5)
          AnchorBudget,     \* people one turn answers at most
          MultiAnchor       \* TURN_MULTI_ANCHOR_ENABLED

ASSUME PlanAssumption ==
    /\ MaxBurst \in Nat \ {0}
    /\ MaxOlderDirects \in Nat \ {0}
    /\ AnchorBudget \in Nat \ {0}
    /\ MultiAnchor \in BOOLEAN

-----------------------------------------------------------------------------
(* Replays and backlog *)

\* Array filter: the entries at the positions of K, in their order.
Kept(s, K) ==
    LET upTo[i \in 0..Len(s)] ==
            IF i = 0 THEN <<>>
            ELSE IF i \in K THEN Append(upTo[i - 1], s[i]) ELSE upTo[i - 1]
    IN  upTo[Len(s)]

\* A replay gives way to any fresh entry of the same burst.
FreshOnly(burst) ==
    LET fresh == {i \in DOMAIN burst : ~burst[i].replay}
    IN  IF fresh # {} THEN Kept(burst, fresh) ELSE burst

\* Mutant: the trim forgets the older direct entries.
TrimmedNewestOnly(entries) ==
    LET cut == Len(entries) - MaxBurst
    IN  IF cut > 0 THEN SubSeq(entries, cut + 1, Len(entries)) ELSE entries

\* The last direct entries among the first n.
OlderDirects(entries, n) ==
    LET direct == {i \in 1..n : entries[i].direct}
    IN  {i \in direct : Cardinality({k \in direct : k > i}) < MaxOlderDirects}

\* A backlog keeps its newest entries and the last few direct older ones.
Trimmed(entries) ==
    LET cut == Len(entries) - MaxBurst
    IN  IF cut > 0
        THEN Kept(entries, OlderDirects(entries, cut) \cup (cut + 1)..Len(entries))
        ELSE entries

Digested(burst) == Trimmed(FreshOnly(burst))

-----------------------------------------------------------------------------
(* Suppression *)

HasDirect(entries) == \E i \in DOMAIN entries : entries[i].direct

\* A direct entry wakes the chat: the turn runs as if the state were RUNNING.
Effective(entries, suppression) ==
    IF HasDirect(entries) THEN [kind |-> "none"] ELSE suppression

\* Mutant: a WAIT for somebody silences the whole chat.
SuppressedForAll(e, suppression) == suppression.kind # "none"

Suppressed(e, suppression) ==
    \/ suppression.kind = "all"
    \/ suppression.kind = "some" /\ e.uid \in suppression.uids

-----------------------------------------------------------------------------
(* Anchors *)

\* The single path of a turn: the last direct entry among the indices S, else the
\* last that is no edit.
Anchor(entries, S) ==
    LET direct == {i \in S : entries[i].direct}
        plain  == {i \in S : ~entries[i].isEdit}
    IN  IF direct # {} THEN {Max(direct)}
        ELSE IF plain # {} THEN {Max(plain)} ELSE {}

GroupOf(entries, S, u) == {i \in S : entries[i].uid = u}
Senders(entries, S) == {entries[i].uid : i \in S}

\* Mutant: the second loop takes the newest entry, an edit or not.
GroupPickEdits(entries, G) ==
    {i \in G :
        \/ entries[i].direct /\ \A k \in G : entries[k].direct => k <= i
        \/ \A k \in G : ~entries[k].direct /\ k <= i}

\* The multi path has its own two loops over a group G, from its newest entry
\* back: the first direct one is taken; if the group has none, the first that
\* is no edit.
GroupPick(entries, G) ==
    {i \in G :
        \/ entries[i].direct /\ \A k \in G : k > i => ~entries[k].direct
        \/ /\ \A k \in G : ~entries[k].direct
           /\ ~entries[i].isEdit /\ \A k \in G : k > i => entries[k].isEdit}

GroupAnchors(entries, S) ==
    UNION {GroupPick(entries, GroupOf(entries, S, u)) : u \in Senders(entries, S)}

\* Mutant: newest first, direct or not.
Newer(entries, S, i, j) ==
    LET since(k) == Min(GroupOf(entries, S, entries[k].uid))
    IN  \/ entries[i].ts > entries[j].ts
        \/ entries[i].ts = entries[j].ts /\ since(i) < since(j)

\* The sort of the group anchors: direct first, then newest, then (the sort is
\* stable) the sender who spoke first.
Outranks(entries, S, i, j) ==
    LET since(k) == Min(GroupOf(entries, S, entries[k].uid))
        a == entries[i]
        b == entries[j]
    IN  IF a.direct # b.direct THEN a.direct
        ELSE a.ts > b.ts \/ (a.ts = b.ts /\ since(i) < since(j))

\* Mutant: one group too many.
PickOneTooMany(entries, S, budget) ==
    LET anchors == GroupAnchors(entries, S)
    IN  {i \in anchors :
            Cardinality({j \in anchors : Outranks(entries, S, j, i)}) <= budget}

PickMultiAnchorGroups(entries, S, budget) ==
    LET anchors == GroupAnchors(entries, S)
    IN  {i \in anchors :
            Cardinality({j \in anchors : Outranks(entries, S, j, i)}) < budget}

-----------------------------------------------------------------------------
(* The judged entries of a digested burst *)

\* Mutant: positions counted after the saved directs were put in front.
CommandsShifted(entries) == {i + 1 : i \in {k \in DOMAIN entries : entries[k].cmd}}

Commands(entries) == {i \in DOMAIN entries : entries[i].cmd}

Candidates(entries, suppression) ==
    {i \in DOMAIN entries \ Commands(entries) : ~Suppressed(entries[i], suppression)}

ManySenders(entries, S) == Cardinality(Senders(entries, S)) > 1

Anchors(entries, suppression) ==
    LET S == Candidates(entries, suppression)
    IN  IF MultiAnchor /\ ManySenders(entries, S)
        THEN PickMultiAnchorGroups(entries, S, AnchorBudget)
        ELSE Anchor(entries, S)

\* Every command is judged, whatever is suppressed.
Judged(entries, suppression) ==
    Commands(entries) \cup Anchors(entries, suppression)

\* The replan after an interrupt: the entries that arrived meanwhile get one
\* new anchor, never a command; {} keeps the interrupted entry as anchor.
ReplanAnchor(fresh) == Anchor(fresh, DOMAIN fresh \ Commands(fresh))
=============================================================================
