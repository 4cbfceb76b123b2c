--------------------------- MODULE TurnPlanProofs ---------------------------
(***************************************************************************)
(* What a turn answers, for every digested burst: the promises of          *)
(* MCTurnPlan follow from the types alone, whatever the number of entries, *)
(* senders and dates, and whatever the limits.                             *)
(***************************************************************************)
EXTENDS MCTurnPlan, BurstProofs, FunctionTheorems

-----------------------------------------------------------------------------
(* Anchors *)

LEMMA Indices ==
  ASSUME NEW es \in Seq(Entries), NEW S \in SUBSET DOMAIN es
  PROVE  /\ IsFiniteSet(S) /\ S \in SUBSET Nat
         /\ \A i \in S : es[i] \in Entries /\ es[i].ts \in Nat
  <1>1. DOMAIN es = 1..Len(es) /\ Len(es) \in Nat
    OBVIOUS
  <1>2. IsFiniteSet(DOMAIN es)
    BY <1>1, FS_Interval
  <1>3. IsFiniteSet(S)
    BY <1>2, FS_Subset
  <1>4. \A i \in S : es[i] \in Entries
    BY <1>1
  <1>5. ASSUME NEW e \in Entries PROVE e.ts \in Nat
    BY DatesAssumption DEF Entries
  <1>6. S \in SUBSET Nat
    BY <1>1
  <1> QED BY <1>3, <1>4, <1>5, <1>6

\* A group has one anchor at most, the one the single path would pick in it.
LEMMA GroupAnchorsAre ==
  ASSUME NEW es \in Seq(Entries), NEW S \in SUBSET DOMAIN es
  PROVE  /\ GroupAnchors(es, S) \subseteq S
         /\ IsFiniteSet(GroupAnchors(es, S))
         /\ \A i, j \in GroupAnchors(es, S) : es[i].uid = es[j].uid => i = j
         /\ \A k \in S : Anchor(es, GroupOf(es, S, es[k].uid)) \subseteq GroupAnchors(es, S)
         /\ \A i \in GroupAnchors(es, S) : Anchor(es, GroupOf(es, S, es[i].uid)) = {i}
  <1>0. \A u : GroupPick(es, GroupOf(es, S, u)) = Anchor(es, GroupOf(es, S, u))
    <2> TAKE u
    <2>1. GroupOf(es, S, u) \in SUBSET DOMAIN es
      BY DEF GroupOf
    <2> QED BY <2>1, GroupPickIs
  <1>1. \A u : GroupOf(es, S, u) \in SUBSET DOMAIN es
    BY DEF GroupOf
  <1>2. \A u : /\ Anchor(es, GroupOf(es, S, u)) \subseteq GroupOf(es, S, u)
               /\ \A i, j \in Anchor(es, GroupOf(es, S, u)) : i = j
    BY <1>1, AnchorIs
  <1>3. ASSUME NEW i \in GroupAnchors(es, S)
        PROVE  i \in Anchor(es, GroupOf(es, S, es[i].uid)) /\ i \in S
    <2>1. PICK u \in Senders(es, S) : i \in Anchor(es, GroupOf(es, S, u))
      BY <1>0 DEF GroupAnchors
    <2>2. i \in GroupOf(es, S, u)
      BY <1>2, <2>1
    <2>3. i \in S /\ es[i].uid = u
      BY <2>2 DEF GroupOf
    <2> QED BY <2>1, <2>3
  <1>4. \A k \in S : es[k].uid \in Senders(es, S)
    BY DEF Senders
  <1>5. IsFiniteSet(GroupAnchors(es, S))
    BY <1>3, Indices, FS_Subset
  <1>6. \A k \in S : Anchor(es, GroupOf(es, S, es[k].uid)) \subseteq GroupAnchors(es, S)
    BY <1>0, <1>4 DEF GroupAnchors
  <1>7. \A i \in GroupAnchors(es, S) : Anchor(es, GroupOf(es, S, es[i].uid)) = {i}
    BY <1>2, <1>3
  <1>8. ASSUME NEW i \in GroupAnchors(es, S), NEW j \in GroupAnchors(es, S), es[i].uid = es[j].uid
        PROVE  i = j
    BY <1>2, <1>3, <1>8
  <1> QED BY <1>3, <1>5, <1>6, <1>7, <1>8

\* What is picked in a set is picked in any part of it that holds it.
LEMMA PickedInPart ==
  ASSUME NEW es \in Seq(Entries), NEW S \in SUBSET DOMAIN es, NEW G \in SUBSET S,
         NEW i \in G, i \in Anchor(es, S)
  PROVE  Anchor(es, G) = {i}
  <1>1. i \in GroupPick(es, S) /\ GroupPick(es, G) = Anchor(es, G)
    BY GroupPickIs
  <1>2. i \in GroupPick(es, G)
    BY <1>1 DEF GroupPick
  <1> QED BY <1>1, <1>2, AnchorIs

LEMMA DirectsDiffer ==
  ASSUME NEW a \in Entries, NEW b \in Entries
  PROVE  (a.direct # b.direct) <=> ~(a.direct <=> b.direct)
  BY DEF Entries

\* The sort is a strict order, total on the anchors of different senders.
LEMMA OutranksIsAnOrder ==
  ASSUME NEW es \in Seq(Entries), NEW S \in SUBSET DOMAIN es
  PROVE  /\ \A i \in S : ~Outranks(es, S, i, i)
         /\ \A i, j, k \in S :
               Outranks(es, S, i, j) /\ Outranks(es, S, j, k) => Outranks(es, S, i, k)
         /\ \A i, j \in S :
               es[i].uid # es[j].uid => Outranks(es, S, i, j) \/ Outranks(es, S, j, i)
         /\ \A i, j \in S : es[i].direct /\ ~es[j].direct => Outranks(es, S, i, j)
  <1> DEFINE since(k) == Min(GroupOf(es, S, es[k].uid))
  <1>1. \A k \in S : since(k) \in Nat /\ es[since(k)].uid = es[k].uid
    <2> TAKE k \in S
    <2>1. /\ GroupOf(es, S, es[k].uid) \in SUBSET Nat
          /\ IsFiniteSet(GroupOf(es, S, es[k].uid))
          /\ k \in GroupOf(es, S, es[k].uid)
      BY Indices, FS_Subset DEF GroupOf
    <2>2. since(k) \in GroupOf(es, S, es[k].uid)
      BY <2>1, MinIs
    <2> QED BY <2>1, <2>2 DEF GroupOf
  <1>2. PICK first : first = [k \in S |-> since(k)]
    OBVIOUS
  <1>3. first \in [S -> Nat] /\ \A k \in S : first[k] = since(k)
    BY <1>1, <1>2
  <1>4. \A i \in S : es[i] \in Entries /\ es[i].ts \in Nat
    BY Indices
  <1>5. ASSUME NEW i \in S, NEW j \in S
        PROVE  Outranks(es, S, i, j) <=>
                  \/ es[i].direct /\ ~es[j].direct
                  \/ /\ es[i].direct <=> es[j].direct
                     /\ es[i].ts > es[j].ts \/ (es[i].ts = es[j].ts /\ first[i] < first[j])
    <2>1. Outranks(es, S, i, j) <=>
             IF es[i].direct # es[j].direct THEN es[i].direct
             ELSE es[i].ts > es[j].ts \/ (es[i].ts = es[j].ts /\ first[i] < first[j])
      BY <1>3, Zenon DEF Outranks
    <2>2. es[i] \in Entries /\ es[j] \in Entries
      BY <1>4
    <2>3. (es[i].direct # es[j].direct) <=> ~(es[i].direct <=> es[j].direct)
      BY <2>2, DirectsDiffer, Zenon
    <2> QED BY <2>1, <2>3, Zenon
  <1>6. \A i, j \in S : first[i] = first[j] => es[i].uid = es[j].uid
    BY <1>1, <1>3
  <1>7. \A i \in S : ~Outranks(es, S, i, i)
    BY <1>3, <1>4, <1>5, SMTT(30)
  <1>8. ASSUME NEW i \in S, NEW j \in S, NEW k \in S,
               Outranks(es, S, i, j), Outranks(es, S, j, k)
        PROVE  Outranks(es, S, i, k)
    BY <1>3, <1>4, <1>5, <1>8, SMTT(90)
  <1>9. ASSUME NEW i \in S, NEW j \in S, es[i].uid # es[j].uid
        PROVE  Outranks(es, S, i, j) \/ Outranks(es, S, j, i)
    BY <1>3, <1>4, <1>5, <1>6, <1>9, SMTT(30)
  <1> QED BY <1>5, <1>7, <1>8, <1>9

LEMMA OneSender ==
  ASSUME NEW es \in Seq(Entries), NEW S \in SUBSET DOMAIN es, ~ManySenders(es, S)
  PROVE  \A i, j \in S : es[i].uid = es[j].uid
  <1> SUFFICES ASSUME NEW i \in S, NEW j \in S, es[i].uid # es[j].uid PROVE FALSE
    OBVIOUS
  <1>1. PICK f : f = [k \in S |-> es[k].uid]
    OBVIOUS
  <1>2. f \in Surjection(S, Senders(es, S))
    BY <1>1 DEF Senders, Surjection
  <1>3. IsFiniteSet(Senders(es, S))
    BY <1>2, Indices, FS_Surjection
  <1>4. {es[i].uid, es[j].uid} \in SUBSET Senders(es, S)
    BY DEF Senders
  <1>5. Cardinality({es[i].uid, es[j].uid}) = 2
    <2>1. IsFiniteSet({es[i].uid}) /\ Cardinality({es[i].uid}) = 1
      BY FS_Singleton
    <2>2. Cardinality({es[i].uid} \cup {es[j].uid}) = Cardinality({es[i].uid}) + 1
      BY <2>1, FS_AddElement
    <2>3. {es[i].uid} \cup {es[j].uid} = {es[i].uid, es[j].uid}
      OBVIOUS
    <2> QED BY <2>1, <2>2, <2>3
  <1>6. Cardinality(Senders(es, S)) \in Nat /\ 2 <= Cardinality(Senders(es, S))
    BY <1>3, <1>4, <1>5, FS_Subset, FS_CardinalityType
  <1> QED BY <1>6 DEF ManySenders

-----------------------------------------------------------------------------
(* The groups a turn takes on *)

\* No more than the budget, and the budget unless every group is taken; whoever
\* outranks a group that is taken is taken as well.
LEMMA PickIs ==
  ASSUME NEW es \in Seq(Entries), NEW S \in SUBSET DOMAIN es, NEW budget \in Nat \ {0}
  PROVE  LET picked == PickMultiAnchorGroups(es, S, budget)
             anchors == GroupAnchors(es, S)
         IN  /\ picked \subseteq anchors
             /\ Cardinality(picked) <= budget
             /\ picked # anchors => Cardinality(picked) = budget
             /\ \A i \in picked : \A j \in anchors : Outranks(es, S, j, i) => j \in picked
  <1> DEFINE picked  == PickMultiAnchorGroups(es, S, budget)
             anchors == GroupAnchors(es, S)
             better(i) == {j \in anchors : Outranks(es, S, j, i)}
  <1>1. /\ anchors \subseteq S /\ IsFiniteSet(anchors)
        /\ \A i, j \in anchors : es[i].uid = es[j].uid => i = j
    BY GroupAnchorsAre
  <1>2. /\ \A i \in anchors : ~Outranks(es, S, i, i)
        /\ \A i, j, k \in anchors :
              Outranks(es, S, i, j) /\ Outranks(es, S, j, k) => Outranks(es, S, i, k)
        /\ \A i, j \in anchors : i # j => Outranks(es, S, i, j) \/ Outranks(es, S, j, i)
    BY <1>1, OutranksIsAnOrder
  <1>3. picked = {i \in anchors : Cardinality(better(i)) < budget}
    BY DEF PickMultiAnchorGroups
  <1> HIDE DEF picked, anchors
  <1>4. picked \subseteq anchors /\ IsFiniteSet(picked) /\ Cardinality(picked) \in Nat
    BY <1>1, <1>3, FS_Subset, FS_CardinalityType
  <1>5. \A i : IsFiniteSet(better(i)) /\ Cardinality(better(i)) \in Nat
    BY <1>1, FS_Subset, FS_CardinalityType
  <1>6. Cardinality(picked) <= budget
    <2>1. CASE picked = {}
      BY <2>1, FS_EmptySet
    <2>2. CASE picked # {}
      <3>1. PICK Below : Below = [x \in picked |-> {y \in picked : Outranks(es, S, x, y)}]
        OBVIOUS
      <3>2. PICK x \in picked : Below[x] = {}
        <4>1. Below \in [picked -> SUBSET picked]
          BY <3>1
        <4>2. \A z \in picked : \A y \in Below[z] : Below[y] \subseteq Below[z] /\ y \notin Below[y]
          BY <1>2, <1>4, <3>1
        <4> QED BY <1>4, <2>2, <4>1, <4>2, Lowest
      <3>3. picked \ {x} \subseteq better(x)
        BY <1>2, <1>4, <3>1, <3>2
      <3>4. Cardinality(picked \ {x}) = Cardinality(picked) - 1
        BY <1>4, <3>2, FS_RemoveElement
      <3>5. Cardinality(picked \ {x}) <= Cardinality(better(x))
        BY <1>5, <3>3, FS_Subset
      <3>6. Cardinality(better(x)) < budget
        BY <1>3, <3>2
      <3> HIDE DEF better
      <3> QED BY <1>4, <1>5, <3>4, <3>5, <3>6
    <2> QED BY <2>1, <2>2
  <1>7. ASSUME picked # anchors PROVE Cardinality(picked) = budget
    <2>1. PICK left : left = anchors \ picked
      OBVIOUS
    <2>2. left # {} /\ left \subseteq anchors /\ IsFiniteSet(left)
      BY <1>1, <1>4, <1>7, <2>1, FS_Subset
    <2>3. PICK Over : Over = [x \in left |-> {y \in left : Outranks(es, S, y, x)}]
      OBVIOUS
    <2>4. PICK x \in left : Over[x] = {}
      <3>1. Over \in [left -> SUBSET left]
        BY <2>3
      <3>2. \A z \in left : \A y \in Over[z] : Over[y] \subseteq Over[z] /\ y \notin Over[y]
        BY <1>2, <2>2, <2>3
      <3> QED BY <2>2, <3>1, <3>2, Lowest
    <2>5. better(x) \subseteq picked
      BY <2>1, <2>3, <2>4
    <2>6. Cardinality(better(x)) <= Cardinality(picked)
      BY <1>4, <2>5, FS_Subset
    <2>7. ~(Cardinality(better(x)) < budget)
      BY <1>3, <2>1, <2>4
    <2> HIDE DEF better
    <2> QED BY <1>4, <1>5, <1>6, <2>6, <2>7
  <1>8. ASSUME NEW i \in picked, NEW j \in anchors, Outranks(es, S, j, i)
        PROVE  j \in picked
    <2>1. better(j) \subseteq better(i)
      BY <1>2, <1>4, <1>8
    <2>2. Cardinality(better(j)) <= Cardinality(better(i))
      BY <1>5, <2>1, FS_Subset
    <2>3. Cardinality(better(i)) < budget
      BY <1>3
    <2>4. Cardinality(better(j)) < budget
      <3> HIDE DEF better
      <3> QED BY <1>5, <2>2, <2>3
    <2> QED BY <1>3, <2>4
  <1> QED BY <1>4, <1>6, <1>7, <1>8 DEF picked, anchors

-----------------------------------------------------------------------------
(* The promises of a turn *)

\* What is answered besides commands.
LEMMA TalkIs ==
  ASSUME TypeOK
  PROVE  LET S == Candidates(digested, effective)
         IN  /\ digested \in Seq(Entries)
             /\ S \in SUBSET DOMAIN digested
             /\ talk \subseteq S
             /\ talk = IF MultiAnchor /\ ManySenders(digested, S)
                       THEN PickMultiAnchorGroups(digested, S, AnchorBudget)
                       ELSE Anchor(digested, S)
  <1> DEFINE S == Candidates(digested, effective)
  <1>1. digested \in Seq(Entries) /\ AnchorBudget \in Nat \ {0}
    BY PlanAssumption DEF TypeOK
  <1>2. S \in SUBSET DOMAIN digested /\ S \cap Commands(digested) = {}
    BY DEF Candidates
  <1>3. /\ PickMultiAnchorGroups(digested, S, AnchorBudget) \subseteq S
        /\ Anchor(digested, S) \subseteq S
    <2> HIDE DEF S
    <2>1. PickMultiAnchorGroups(digested, S, AnchorBudget) \subseteq S
      BY <1>1, <1>2, PickIs, GroupAnchorsAre
    <2>2. Anchor(digested, S) \subseteq S
      BY <1>1, <1>2, AnchorIs
    <2> QED BY <2>1, <2>2
  <1>4. talk = Anchors(digested, effective) \ Commands(digested)
    BY DEF talk, judged, Judged
  <1>5. Anchors(digested, effective) = IF MultiAnchor /\ ManySenders(digested, S)
                                       THEN PickMultiAnchorGroups(digested, S, AnchorBudget)
                                       ELSE Anchor(digested, S)
    BY DEF Anchors
  <1> HIDE DEF S
  <1>6. talk = Anchors(digested, effective)
    BY <1>2, <1>3, <1>4, <1>5
  <1> QED BY <1>1, <1>2, <1>3, <1>5, <1>6 DEF S

LEMMA OneAnswerEach == TypeOK => OneAnswerPerPerson
  <1> SUFFICES ASSUME TypeOK PROVE OneAnswerPerPerson
    OBVIOUS
  <1>1. PICK S \in SUBSET DOMAIN digested :
          /\ digested \in Seq(Entries)
          /\ talk = IF MultiAnchor /\ ManySenders(digested, S)
                    THEN PickMultiAnchorGroups(digested, S, AnchorBudget)
                    ELSE Anchor(digested, S)
    BY TalkIs
  <1>2. AnchorBudget \in Nat \ {0}
    BY PlanAssumption
  <1>3. CASE MultiAnchor /\ ManySenders(digested, S)
    <2>1. talk = PickMultiAnchorGroups(digested, S, AnchorBudget)
      BY <1>1, <1>3
    <2>2. /\ talk \subseteq GroupAnchors(digested, S)
          /\ Cardinality(talk) <= AnchorBudget
      BY <1>1, <1>2, <2>1, PickIs
    <2>3. \A i, j \in GroupAnchors(digested, S) :
             digested[i].uid = digested[j].uid => i = j
      BY <1>1, GroupAnchorsAre
    <2> QED BY <2>2, <2>3 DEF OneAnswerPerPerson
  <1>4. CASE ~(MultiAnchor /\ ManySenders(digested, S))
    <2>1. \A i, j \in talk : i = j
      BY <1>1, <1>4, AnchorIs
    <2>2. talk = {} \/ \E i : talk = {i}
      BY <2>1
    <2>3. Cardinality(talk) <= AnchorBudget
      <3>1. CASE talk = {}
        BY <1>2, <3>1, FS_EmptySet
      <3>2. CASE \E i : talk = {i}
        <4>1. PICK i : talk = {i}
          BY <3>2
        <4>2. Cardinality(talk) = 1
          BY <4>1, FS_Singleton
        <4> QED BY <1>2, <4>2
      <3> QED BY <2>2, <3>1, <3>2
    <2> QED BY <2>1, <2>3 DEF OneAnswerPerPerson
  <1> QED BY <1>3, <1>4

LEMMA CallersComeFirst == TypeOK => DirectBeforePassive
  <1> SUFFICES ASSUME TypeOK,
                      NEW i \in talk, ~digested[i].direct,
                      NEW k \in DOMAIN digested \ Commands(digested), digested[k].direct
               PROVE  \E j \in talk : digested[j].uid = digested[k].uid /\ digested[j].direct
    BY DEF DirectBeforePassive
  <1>1. PICK S : S = Candidates(digested, effective)
    OBVIOUS
  <1>2. /\ digested \in Seq(Entries)
        /\ S \in SUBSET DOMAIN digested
        /\ i \in S
        /\ talk = IF MultiAnchor /\ ManySenders(digested, S)
                  THEN PickMultiAnchorGroups(digested, S, AnchorBudget)
                  ELSE Anchor(digested, S)
    BY <1>1, TalkIs
  <1>3. k \in S
    <2>1. HasDirect(digested)
      BY DEF HasDirect
    <2>2. effective.kind = "none"
      BY <2>1 DEF effective, Effective
    <2>3. ~Suppressed(digested[k], effective)
      BY <2>2 DEF Suppressed
    <2> QED BY <1>1, <2>3 DEF Candidates
  <1>4. CASE MultiAnchor /\ ManySenders(digested, S)
    <2>1. PICK G : G = GroupOf(digested, S, digested[k].uid)
      OBVIOUS
    <2>2. G \in SUBSET DOMAIN digested /\ k \in G
      BY <1>2, <1>3, <2>1 DEF GroupOf
    <2>3. PICK d \in Anchor(digested, G) : digested[d].direct
      BY <1>2, <2>2, AnchorIs
    <2>4. d \in G /\ d \in GroupAnchors(digested, S)
      BY <1>2, <1>3, <2>1, <2>2, <2>3, AnchorIs, GroupAnchorsAre
    <2>5. d \in S /\ digested[d].uid = digested[k].uid
      BY <2>1, <2>4 DEF GroupOf
    <2>6. Outranks(digested, S, d, i)
      BY <1>2, <2>3, <2>5, OutranksIsAnOrder
    <2>7. d \in talk
      BY <1>2, <1>4, <2>4, <2>6, PickIs, PlanAssumption
    <2> QED BY <2>3, <2>5, <2>7
  <1>5. CASE ~(MultiAnchor /\ ManySenders(digested, S))
    BY <1>2, <1>3, <1>5, AnchorIs
  <1> QED BY <1>4, <1>5

LEMMA WaitedAreSilent ==
  ASSUME TypeOK, effective.kind = "some", NEW j \in talk
  PROVE  digested[j].uid \notin effective.uids
  <1>1. j \in Candidates(digested, effective)
    BY TalkIs
  <1> QED BY <1>1 DEF Candidates, Suppressed

LEMMA OthersAreHeard == TypeOK => WaitIsPerPerson
  <1> SUFFICES ASSUME TypeOK, effective.kind = "some",
                      NEW i \in DOMAIN digested,
                      digested[i].uid \notin effective.uids,
                      ~digested[i].isEdit,
                      ~digested[i].cmd
               PROVE  \/ \E j \in talk : digested[j].uid = digested[i].uid
                      \/ MultiAnchor /\ Cardinality(talk) = AnchorBudget
                      \/ ~MultiAnchor /\ talk # {}
    BY WaitedAreSilent DEF WaitIsPerPerson
  <1>1. PICK S : S = Candidates(digested, effective)
    OBVIOUS
  <1>2. /\ digested \in Seq(Entries)
        /\ S \in SUBSET DOMAIN digested
        /\ talk \subseteq S
        /\ talk = IF MultiAnchor /\ ManySenders(digested, S)
                  THEN PickMultiAnchorGroups(digested, S, AnchorBudget)
                  ELSE Anchor(digested, S)
    BY <1>1, TalkIs
  <1>3. i \in S
    BY <1>1 DEF Candidates, Commands, Suppressed
  <1>4. CASE MultiAnchor /\ ManySenders(digested, S)
    <2>1. PICK G : G = GroupOf(digested, S, digested[i].uid)
      OBVIOUS
    <2>2. G \in SUBSET DOMAIN digested /\ i \in G
      BY <1>2, <1>3, <2>1 DEF GroupOf
    <2>3. PICK a : a \in Anchor(digested, G)
      BY <1>2, <2>2, AnchorIs
    <2>4. a \in G /\ a \in GroupAnchors(digested, S)
      BY <1>2, <1>3, <2>1, <2>2, <2>3, AnchorIs, GroupAnchorsAre
    <2>5. digested[a].uid = digested[i].uid
      BY <2>1, <2>4 DEF GroupOf
    <2>6. a \notin talk => Cardinality(talk) = AnchorBudget
      BY <1>2, <1>4, <2>4, PickIs, PlanAssumption
    <2> QED BY <1>4, <2>5, <2>6
  <1>5. CASE ~(MultiAnchor /\ ManySenders(digested, S))
    <2>1. PICK a : a \in talk
      BY <1>2, <1>3, <1>5, AnchorIs
    <2>2. CASE MultiAnchor
      BY <1>2, <1>3, <1>5, <2>1, <2>2, OneSender
    <2>3. CASE ~MultiAnchor
      BY <2>1, <2>3
    <2> QED BY <2>2, <2>3
  <1> QED BY <1>4, <1>5

LEMMA AnsweredAlone ==
  ASSUME TypeOK, NEW S, S = Candidates(digested, effective), NEW i \in talk
  PROVE  Anchor(digested, GroupOf(digested, S, digested[i].uid)) = {i}
  <1>1. /\ digested \in Seq(Entries) /\ S \in SUBSET DOMAIN digested /\ i \in S
        /\ talk = IF MultiAnchor /\ ManySenders(digested, S)
                  THEN PickMultiAnchorGroups(digested, S, AnchorBudget)
                  ELSE Anchor(digested, S)
    BY TalkIs
  <1>2. CASE i \in PickMultiAnchorGroups(digested, S, AnchorBudget)
    BY <1>1, <1>2, PlanAssumption, PickIs, GroupAnchorsAre
  <1>3. CASE i \in Anchor(digested, S)
    <2>1. PICK G : G = GroupOf(digested, S, digested[i].uid)
      OBVIOUS
    <2>2. G \in SUBSET S /\ i \in G
      BY <1>1, <2>1 DEF GroupOf
    <2> QED BY <1>1, <1>3, <2>1, <2>2, PickedInPart
  <1> QED BY <1>1, <1>2, <1>3

LEMMA PathsAgree == TypeOK => SinglePersonAgrees
  <1> SUFFICES ASSUME TypeOK,
                      NEW S, S = Candidates(digested, effective), ~ManySenders(digested, S)
               PROVE  PickMultiAnchorGroups(digested, S, AnchorBudget) = Anchor(digested, S)
    BY AnsweredAlone DEF SinglePersonAgrees
  <1>1. digested \in Seq(Entries) /\ S \in SUBSET DOMAIN digested
    BY TalkIs
  <1>2. AnchorBudget \in Nat \ {0}
    BY PlanAssumption
  <1>3. GroupAnchors(digested, S) = Anchor(digested, S)
    <2>1. \A k \in S : GroupOf(digested, S, digested[k].uid) = S
      BY <1>1, OneSender DEF GroupOf
    <2>2. CASE S = {}
      BY <1>1, <2>2, AnchorIs DEF GroupAnchors, Senders
    <2>3. CASE S # {}
      <3>1. PICK k \in S : TRUE
        BY <2>3
      <3>2. Senders(digested, S) = {digested[k].uid}
        BY <1>1, OneSender DEF Senders
      <3>3. GroupPick(digested, S) = Anchor(digested, S)
        BY <1>1, GroupPickIs
      <3> QED BY <2>1, <3>2, <3>3 DEF GroupAnchors
    <2> QED BY <2>2, <2>3
  <1>4. \A i, j \in GroupAnchors(digested, S) : ~Outranks(digested, S, j, i)
    BY <1>1, <1>3, AnchorIs, OutranksIsAnOrder
  <1>5. \A i \in GroupAnchors(digested, S) :
          {j \in GroupAnchors(digested, S) : Outranks(digested, S, j, i)} = {}
    BY <1>4
  <1>6. Cardinality({}) < AnchorBudget
    BY <1>2, FS_EmptySet
  <1> QED BY <1>3, <1>5, <1>6 DEF PickMultiAnchorGroups

\* If the digested burst calls the bot, a direct entry is judged: a command, or
\* the anchor of somebody who called.
LEMMA CallIsJudged ==
  ASSUME TypeOK, HasDirect(digested)
  PROVE  \E i \in judged : digested[i].direct
  <1>1. PICK k \in DOMAIN digested : digested[k].direct
    BY DEF HasDirect
  <1>2. CASE k \in Commands(digested)
    BY <1>1, <1>2 DEF judged, Judged
  <1>3. CASE k \notin Commands(digested)
    <2>1. PICK S : S = Candidates(digested, effective)
      OBVIOUS
    <2>2. /\ digested \in Seq(Entries)
          /\ S \in SUBSET DOMAIN digested
          /\ talk = IF MultiAnchor /\ ManySenders(digested, S)
                    THEN PickMultiAnchorGroups(digested, S, AnchorBudget)
                    ELSE Anchor(digested, S)
      BY <2>1, TalkIs
    <2>3. k \in S
      <3>1. effective.kind = "none"
        BY DEF effective, Effective
      <3> QED BY <1>3, <2>1, <3>1 DEF Candidates, Suppressed
    <2>4. talk # {}
      <3>1. CASE MultiAnchor /\ ManySenders(digested, S)
        <4>1. PICK G : G = GroupOf(digested, S, digested[k].uid)
          OBVIOUS
        <4>2. G \in SUBSET DOMAIN digested /\ k \in G
          BY <2>2, <2>3, <4>1 DEF GroupOf
        <4>3. PICK d : d \in Anchor(digested, G)
          BY <1>1, <2>2, <4>2, AnchorIs
        <4>4. d \in GroupAnchors(digested, S)
          BY <2>2, <2>3, <4>1, <4>3, GroupAnchorsAre
        <4>5. talk = {} => Cardinality(talk) = AnchorBudget
          BY <2>2, <3>1, <4>4, PickIs, PlanAssumption
        <4> QED BY <4>5, FS_EmptySet, PlanAssumption
      <3>2. CASE ~(MultiAnchor /\ ManySenders(digested, S))
        BY <1>1, <2>2, <2>3, <3>2, AnchorIs
      <3> QED BY <3>1, <3>2
    <2>5. \E i \in talk : digested[i].direct
      BY <1>1, <1>3, <2>4, CallersComeFirst DEF DirectBeforePassive
    <2> QED BY <2>5 DEF talk
  <1> QED BY <1>2, <1>3

-----------------------------------------------------------------------------
(* The bursts that arrive *)

Bursts == burst \in Seq(Entries) /\ suppression \in Suppressions

LEMMA StepBursts == Bursts /\ [Next]_vars => Bursts'
  BY DEF Bursts, Next, Arrive, vars

LEMMA BurstsType == Bursts => TypeOK
  <1> SUFFICES ASSUME Bursts PROVE TypeOK
    OBVIOUS
  <1>1. digested \in Seq(Entries)
    BY DigestedThins DEF Bursts, digested
  <1>2. Candidates(digested, effective) \in SUBSET DOMAIN digested
    BY DEF Candidates
  <1>3. judged \subseteq DOMAIN digested
    <2>1. PICK S : S = Candidates(digested, effective)
      OBVIOUS
    <2>2. S \in SUBSET DOMAIN digested /\ AnchorBudget \in Nat \ {0}
      BY <1>2, <2>1, PlanAssumption
    <2>3. PickMultiAnchorGroups(digested, S, AnchorBudget) \subseteq S
      BY <1>1, <2>2, PickIs, GroupAnchorsAre
    <2>4. Anchor(digested, S) \subseteq S
      BY <1>1, <2>2, AnchorIs
    <2> QED BY <2>1, <2>2, <2>3, <2>4 DEF judged, Judged, Anchors, Commands
  <1> QED BY <1>1, <1>3 DEF Bursts, TypeOK

\* Whatever arrives, the turn digests entries of the burst and selects positions
\* in what it digests.
THEOREM BurstTyped == Spec => []TypeOK
  <1>1. Init => Bursts
    BY DEF Init, Bursts
  <1> QED BY <1>1, StepBursts, BurstsType, PTL DEF Spec

\* A turn answers at most one entry of each sender and no more senders than the
\* budget (anchor-select.ts:26-27, actor.ts:694), for every burst and limit.
THEOREM OnePerPerson == Spec => []OneAnswerPerPerson
  BY BurstTyped, OneAnswerEach, PTL

\* Whoever addressed the bot is answered before anybody who did not
\* (actor.ts:693-697), for every burst and limit.
THEOREM DirectFirst == Spec => []DirectBeforePassive
  BY BurstTyped, CallersComeFirst, PTL

\* Under a WAIT for some people none of them is answered, and every other sender
\* is answered or outranked by a full budget (actor.ts:575-578), for every burst
\* and limit.
THEOREM WaitPerPerson == Spec => []WaitIsPerPerson
  BY BurstTyped, OthersAreHeard, PTL

\* The loops of the two paths choose alike: for one sender, and for each sender
\* among others (anchor-select.ts:39-52, actor.ts:703-717), for every burst and limit.
THEOREM OnePersonAgrees == Spec => []SinglePersonAgrees
  BY BurstTyped, PathsAgree, PTL

\* However long the backlog, a turn whose fresh part calls the bot still sees a
\* call and judges one (actor.ts:530-531).
THEOREM CallSurvives == Spec => []TrimKeepsTheCall
  <1>1. TypeOK => TrimKeepsTheCall
    <2> SUFFICES ASSUME TypeOK, HasDirect(FreshOnly(burst))
                 PROVE  HasDirect(digested) /\ \E i \in judged : digested[i].direct
      BY DEF TrimKeepsTheCall
    <2>1. FreshOnly(burst) \in Seq(Entries)
      BY FreshOnlyThins DEF TypeOK
    <2>2. HasDirect(digested)
      BY <2>1, TrimmedKeepsDirect DEF digested, Digested
    <2> QED BY <2>2, CallIsJudged
  <1> QED BY <1>1, BurstTyped, PTL
=============================================================================
