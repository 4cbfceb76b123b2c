----------------------------- MODULE MCTurnPlan -----------------------------
(***************************************************************************)
(* Every burst of at most MaxLen entries, grown one arrival at a time,     *)
(* under every suppression, against the promises the comments of actor.ts  *)
(* and anchor-select.ts make about the selection.                          *)
(***************************************************************************)
EXTENDS TurnPlan, TLC

CONSTANTS MaxLen,   \* bound: the longest burst
          Uids,     \* senders
          Dates     \* message dates

ASSUME DatesAssumption == Dates \subseteq Nat

VARIABLES burst, suppression

vars == <<burst, suppression>>

Entries == [uid : Uids, direct : BOOLEAN, isEdit : BOOLEAN, cmd : BOOLEAN,
            replay : BOOLEAN, ts : Dates]

Suppressions == {[kind |-> "none"], [kind |-> "all"]}
                \cup [kind : {"some"}, uids : SUBSET Uids \ {{}}]

Init == burst = <<>> /\ suppression \in Suppressions

Arrive(e) ==
    /\ Len(burst) < MaxLen
    /\ burst' = Append(burst, e)
    /\ UNCHANGED suppression

Next == \E e \in Entries : Arrive(e)

Spec == Init /\ [][Next]_vars

\* Senders are only compared for equality.
UidSymmetry == Permutations(Uids)

-----------------------------------------------------------------------------
digested == Digested(burst)
effective == Effective(digested, suppression)
judged == Judged(digested, effective)
talk == judged \ Commands(digested)

\* Every record of the burst is an entry and the selection points into what
\* the turn digests.
TypeOK ==
    /\ burst \in Seq(Entries)
    /\ suppression \in Suppressions
    /\ digested \in Seq(Entries)
    /\ judged \subseteq DOMAIN digested

\* "at most N people per turn": besides commands, a turn answers at most one
\* entry of each sender and never more senders than the budget, however many
\* of them address the bot directly (anchor-select.ts:26-27, actor.ts:694).
OneAnswerPerPerson ==
    /\ \A i, j \in talk : digested[i].uid = digested[j].uid => i = j
    /\ Cardinality(talk) <= AnchorBudget

\* A person who addressed the bot is never passed over for one who did not:
\* when a talk anchor is not direct, every sender with a direct entry has an
\* anchor of its own (actor.ts:693-697).
DirectBeforePassive ==
    \A i \in talk : ~digested[i].direct =>
        \A k \in DOMAIN digested \ Commands(digested) :
            digested[k].direct =>
                \E j \in talk : digested[j].uid = digested[k].uid /\ digested[j].direct

\* Trimming the backlog does not lose the wake-up: a turn whose fresh part
\* holds a direct entry still sees one after the trim, so a WAIT or STOP is
\* lifted (actor.ts:530-531), and some direct entry is judged.
TrimKeepsTheCall ==
    HasDirect(FreshOnly(burst)) =>
        /\ HasDirect(digested)
        /\ \E i \in judged : digested[i].direct

\* A WAIT of some users silences them and nobody else: none of them is answered,
\* and whoever else sent a non-edit message is answered by an anchor or outranked
\* by a full budget of anchors (actor.ts:575-578).
WaitIsPerPerson ==
    effective.kind = "some" =>
        /\ \A j \in talk : digested[j].uid \notin effective.uids
        /\ \A i \in DOMAIN digested :
            (/\ digested[i].uid \notin effective.uids
             /\ ~digested[i].isEdit
             /\ ~digested[i].cmd) =>
                \/ \E j \in talk : digested[j].uid = digested[i].uid
                \/ MultiAnchor /\ Cardinality(talk) = AnchorBudget
                \/ ~MultiAnchor /\ talk # {}

\* The two paths agree.  Whoever is answered among others is answered at the
\* entry the single path picks when that person speaks alone (anchor-select.ts:20,
\* actor.ts:704), and for a burst of one person the multi path would pick what the
\* single path picks ("no regression for single-person bursts", actor.ts:652).
SinglePersonAgrees ==
    LET S == Candidates(digested, effective)
    IN  /\ \A i \in talk :
              Anchor(digested, GroupOf(digested, S, digested[i].uid)) = {i}
        /\ ~ManySenders(digested, S) =>
              PickMultiAnchorGroups(digested, S, AnchorBudget) = Anchor(digested, S)

=============================================================================
