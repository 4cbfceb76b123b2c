----------------------------- MODULE BurstProofs -----------------------------
(***************************************************************************)
(* What filtering and trimming do to a burst of any length.  The proofs    *)
(* about the selection (TurnPlanProofs), the mailbox (TurnActorProofs)     *)
(* and the timing state (ChatTimingProofs) rest on these lemmas.           *)
(***************************************************************************)
EXTENDS TurnPlan, Integers, FiniteSetTheorems, WellFoundedInduction, TLAPS

-----------------------------------------------------------------------------
(* Induction over the positions of a list *)

\* A set of naturals that is not empty has a least element.
LEMMA LeastOf ==
  ASSUME NEW T \in SUBSET Nat, NEW n \in T
  PROVE  \E x \in T : \A y \in T : x <= y
  <1> DEFINE less == OpToRel(<, Nat)
  <1>1. IsWellFoundedOn(less, Nat)
    BY NatLessThanWellFounded
  <1>2. PICK x \in T : \A y \in T : ~(<<y, x>> \in less)
    BY <1>1, WFMin
  <1>3. ASSUME NEW y \in T, y < x
        PROVE  <<y, x>> \in less
    BY <1>3, Zenon DEF OpToRel
  <1>4. \A y \in T : ~(y < x)
    BY <1>2, <1>3, Zenon
  <1> QED BY <1>4

\* What holds of 0 and climbs step by step holds of n.
LEMMA Climb ==
  ASSUME NEW T \in SUBSET Nat, 0 \in T, NEW n \in Nat,
         \A i \in 0..(n - 1) : i \in T => i + 1 \in T
  PROVE  n \in T
  <1> SUFFICES ASSUME n \notin T PROVE FALSE
    OBVIOUS
  <1> DEFINE U == {i \in 0..n : i \notin T}
  <1>1. U \in SUBSET Nat /\ n \in U
    OBVIOUS
  <1>2. PICK x \in U : \A y \in U : x <= y
    <2> HIDE DEF U
    <2> QED BY <1>1, LeastOf
  <1>3. x - 1 \in 0..(n - 1) /\ x - 1 \in T
    BY <1>2
  <1> QED BY <1>3

\* The values that the recursion of Kept goes through.
Stages(s, K, n, f) ==
    f = [i \in 0..n |-> IF i = 0 THEN <<>>
                        ELSE IF i \in K THEN Append(f[i - 1], s[i]) ELSE f[i - 1]]

\* The recursive function inside Kept has a value at every stage.
LEMMA StagesExist ==
  ASSUME NEW s, NEW K, NEW n \in Nat
  PROVE  \E f : Stages(s, K, n, f)
  <1> DEFINE T == {i \in Nat : \E f : Stages(s, K, i, f)}
  <1>1. 0 \in T
    <2> DEFINE f == [i \in 0..0 |-> <<>>]
    <2>1. Stages(s, K, 0, f)
      BY DEF Stages
    <2> QED BY <2>1
  <1>2. ASSUME NEW i \in 0..(n - 1), i \in T
        PROVE  i + 1 \in T
    <2>1. PICK f : Stages(s, K, i, f)
      BY <1>2
    <2> DEFINE last == IF i + 1 \in K THEN Append(f[i], s[i + 1]) ELSE f[i]
    <2> DEFINE g == [k \in 0..(i + 1) |-> IF k = i + 1 THEN last ELSE f[k]]
    <2>2. ASSUME NEW k \in 0..(i + 1)
          PROVE  g[k] = IF k = 0 THEN <<>>
                        ELSE IF k \in K THEN Append(g[k - 1], s[k]) ELSE g[k - 1]
      <3>1. CASE k = i + 1
        <4>1. g[k] = last /\ g[k - 1] = f[i]
          BY <3>1
        <4> QED BY <3>1, <4>1
      <3>2. CASE k \in 0..i
        <4>1. f[k] = IF k = 0 THEN <<>>
                     ELSE IF k \in K THEN Append(f[k - 1], s[k]) ELSE f[k - 1]
          BY <2>1, <3>2, Zenon DEF Stages
        <4>2. k = 0 \/ g[k - 1] = f[k - 1]
          BY <3>2
        <4>3. g[k] = f[k]
          BY <3>2
        <4> HIDE DEF g
        <4> QED BY <4>1, <4>2, <4>3
      <3> QED BY <3>1, <3>2
    <2>3. g = [k \in 0..(i + 1) |-> g[k]]
      BY Zenon
    <2> HIDE DEF g
    <2>4. Stages(s, K, i + 1, g)
      BY <2>2, <2>3 DEF Stages
    <2> QED BY <2>4
  <1>3. T \in SUBSET Nat
    OBVIOUS
  <1> HIDE DEF T
  <1>4. n \in T
    BY <1>1, <1>2, <1>3, Climb
  <1> QED BY <1>4 DEF T

\* Kept is the last stage.
LEMMA KeptStages ==
  ASSUME NEW S, NEW s \in Seq(S), NEW K
  PROVE  \E f : Stages(s, K, Len(s), f) /\ Kept(s, K) = f[Len(s)]
  <1> DEFINE g == CHOOSE f : Stages(s, K, Len(s), f)
  <1>1. Len(s) \in Nat
    OBVIOUS
  <1>2. Stages(s, K, Len(s), g)
    BY <1>1, StagesExist, Zenon
  <1>3. Kept(s, K) = g[Len(s)]
    BY Zenon DEF Kept, Stages
  <1> QED BY <1>2, <1>3

\* t holds the entries of s at K and no others, in their order: g says which is which.
Picks(t, s, K, g) ==
    /\ g \in [DOMAIN t -> K]
    /\ \A i, j \in DOMAIN t : i < j => g[i] < g[j]
    /\ \A i \in DOMAIN t : t[i] = s[g[i]]
    /\ \A k \in K : \E i \in DOMAIN t : g[i] = k

\* Picking one entry further on extends what was picked before.
LEMMA PicksOneMore ==
  ASSUME NEW S, NEW s \in Seq(S), NEW t \in Seq(S), NEW n \in Nat, n + 1 \in DOMAIN s,
         NEW K \in SUBSET (1..n), NEW g, Picks(t, s, K, g)
  PROVE  \E h : Picks(Append(t, s[n + 1]), s, K \cup {n + 1}, h)
  <1> DEFINE u == Append(t, s[n + 1])
  <1> DEFINE h == [i \in 1..(Len(t) + 1) |-> IF i = Len(t) + 1 THEN n + 1 ELSE g[i]]
  <1>1. /\ u \in Seq(S) /\ Len(u) = Len(t) + 1 /\ DOMAIN u = 1..(Len(t) + 1)
        /\ u[Len(t) + 1] = s[n + 1]
        /\ \A i \in DOMAIN t : u[i] = t[i]
        /\ DOMAIN t = 1..Len(t) /\ Len(t) \in Nat
    OBVIOUS
  <1>2. /\ h[Len(t) + 1] = n + 1
        /\ \A i \in DOMAIN t : h[i] = g[i] /\ g[i] \in K
    BY <1>1 DEF Picks
  <1>3. \A i \in DOMAIN u : i = Len(t) + 1 \/ (i \in DOMAIN t /\ i # Len(t) + 1)
    BY <1>1
  <1>4. h \in [DOMAIN u -> K \cup {n + 1}]
    <2>1. h = [i \in DOMAIN u |-> h[i]]
      BY <1>1, Zenon
    <2> HIDE DEF u, h
    <2>2. \A i \in DOMAIN u : h[i] \in K \cup {n + 1}
      BY <1>2, <1>3
    <2> QED BY <2>1, <2>2
  <1> HIDE DEF u, h
  <1>5. ASSUME NEW i \in DOMAIN u, NEW j \in DOMAIN u, i < j
        PROVE  h[i] < h[j]
    <2>1. i \in DOMAIN t
      BY <1>1, <1>5
    <2>2. h[i] \in 1..n
      BY <1>2, <2>1
    <2>3. CASE j = Len(t) + 1
      BY <1>2, <2>2, <2>3
    <2>4. CASE j \in DOMAIN t
      BY <1>2, <1>5, <2>1, <2>4 DEF Picks
    <2> QED BY <1>3, <2>3, <2>4
  <1>6. ASSUME NEW i \in DOMAIN u
        PROVE  u[i] = s[h[i]]
    BY <1>1, <1>2, <1>3 DEF Picks
  <1>7. ASSUME NEW k \in K \cup {n + 1}
        PROVE  \E i \in DOMAIN u : h[i] = k
    <2>1. \A i \in DOMAIN t : i \in DOMAIN u
      BY <1>1
    <2>2. Len(t) + 1 \in DOMAIN u
      BY <1>1
    <2>3. CASE k \in K
      BY <1>2, <2>1, <2>3 DEF Picks
    <2> QED BY <1>2, <2>2, <2>3
  <1>8. Picks(u, s, K \cup {n + 1}, h)
    BY <1>4, <1>5, <1>6, <1>7 DEF Picks
  <1> QED BY <1>8 DEF u

\* The filter keeps exactly the entries at K, in their order.
LEMMA KeptPicks ==
  ASSUME NEW S, NEW s \in Seq(S), NEW K \in SUBSET (DOMAIN s)
  PROVE  /\ Kept(s, K) \in Seq(S)
         /\ \E g : Picks(Kept(s, K), s, K, g)
  <1> DEFINE N == Len(s)
  <1>1. PICK f : Stages(s, K, N, f) /\ Kept(s, K) = f[N]
    BY KeptStages
  <1>2. ASSUME NEW i \in 0..N
        PROVE  f[i] = IF i = 0 THEN <<>>
                      ELSE IF i \in K THEN Append(f[i - 1], s[i]) ELSE f[i - 1]
    BY <1>1, Zenon DEF Stages
  <1> DEFINE Upto(n) == K \cap (1..n)
  <1> DEFINE T == {n \in 0..N : f[n] \in Seq(S) /\ \E g : Picks(f[n], s, Upto(n), g)}
  <1>3. N \in Nat /\ DOMAIN s = 1..N
    OBVIOUS
  <1>4. 0 \in T
    <2>1. 0 \in 0..N /\ Upto(0) = {}
      BY <1>3
    <2> HIDE DEF N
    <2>2. f[0] = <<>>
      BY <1>2, <2>1, Zenon
    <2>3. Picks(f[0], s, Upto(0), [i \in {} |-> i])
      BY <2>1, <2>2 DEF Picks
    <2> HIDE DEF Upto
    <2>4. f[0] \in Seq(S)
      BY <2>2
    <2>5. \E g : Picks(f[0], s, Upto(0), g)
      BY <2>3
    <2> QED BY <2>1, <2>4, <2>5
  <1>5. ASSUME NEW n \in 0..(N - 1), n \in T
        PROVE  n + 1 \in T
    <2>1. PICK g : Picks(f[n], s, Upto(n), g)
      BY <1>5
    <2>2. /\ f[n] \in Seq(S) /\ n \in Nat /\ n + 1 \in DOMAIN s /\ n + 1 \in 0..N
          /\ Upto(n) \in SUBSET (1..n)
      BY <1>3, <1>5
    <2>3. CASE n + 1 \in K
      <3>1. f[n + 1] = Append(f[n], s[n + 1]) /\ f[n + 1] \in Seq(S)
        <4>1. s[n + 1] \in S /\ n + 1 # 0 /\ (n + 1) - 1 = n
          BY <2>2
        <4>2. f[n + 1] = Append(f[n], s[n + 1])
          BY <1>2, <2>2, <2>3, <4>1
        <4> QED BY <2>2, <4>1, <4>2
      <3>2. Upto(n + 1) = Upto(n) \cup {n + 1}
        BY <2>2, <2>3
      <3> HIDE DEF Upto, N
      <3>3. \E h : Picks(Append(f[n], s[n + 1]), s, Upto(n) \cup {n + 1}, h)
        BY <2>1, <2>2, PicksOneMore
      <3>4. \E h : Picks(f[n + 1], s, Upto(n + 1), h)
        BY <3>1, <3>2, <3>3
      <3> QED BY <2>2, <3>1, <3>4
    <2>4. CASE n + 1 \notin K
      <3>1. f[n + 1] = f[n]
        <4>1. n + 1 # 0 /\ (n + 1) - 1 = n
          BY <2>2
        <4> QED BY <1>2, <2>2, <2>4, <4>1
      <3>2. Upto(n + 1) = Upto(n)
        BY <2>2, <2>4
      <3> HIDE DEF Upto, N
      <3> QED BY <2>1, <2>2, <3>1, <3>2
    <2> QED BY <2>3, <2>4
  <1>6. T \in SUBSET Nat
    BY <1>3
  <1>7. N \in T
    <2> HIDE DEF T, N
    <2> QED BY <1>3, <1>4, <1>5, <1>6, Climb
  <1>8. Upto(N) = K
    BY <1>3
  <1> HIDE DEF Upto
  <1> QED BY <1>1, <1>7, <1>8

-----------------------------------------------------------------------------
(* Digested *)

\* t is s with some entries left out.
Thins(t, s) == \E K \in SUBSET (DOMAIN s) : \E g : Picks(t, s, K, g)

\* Leaving nothing out leaves the list as it is.
LEMMA AllPicked ==
  ASSUME NEW S, NEW s \in Seq(S)
  PROVE  Picks(s, s, DOMAIN s, [i \in DOMAIN s |-> i])
  BY DEF Picks

\* Picking from what was picked is picking.
LEMMA PicksCompose ==
  ASSUME NEW r, NEW s, NEW t,
         NEW K \in SUBSET (DOMAIN s), NEW L, NEW h, Picks(s, r, L, h), NEW f, Picks(t, s, K, f)
  PROVE  Picks(t, r, {h[k] : k \in K}, [i \in DOMAIN t |-> h[f[i]]])
  BY DEF Picks

\* Setting the replays aside leaves entries out.
LEMMA FreshOnlyThins ==
  ASSUME NEW S, NEW burst \in Seq(S)
  PROVE  /\ FreshOnly(burst) \in Seq(S)
         /\ Thins(FreshOnly(burst), burst)
  <1> DEFINE fresh == {i \in DOMAIN burst : ~burst[i].replay}
  <1>1. CASE fresh # {}
    <2>1. FreshOnly(burst) = Kept(burst, fresh)
      BY <1>1 DEF FreshOnly
    <2>2. fresh \in SUBSET (DOMAIN burst)
      OBVIOUS
    <2> HIDE DEF fresh
    <2> QED BY <2>1, <2>2, KeptPicks DEF Thins
  <1>2. CASE fresh = {}
    <2>1. FreshOnly(burst) = burst
      BY <1>2 DEF FreshOnly
    <2> QED BY <2>1, AllPicked DEF Thins
  <1> QED BY <1>1, <1>2

\* So does trimming a backlog.
LEMMA TrimmedThins ==
  ASSUME NEW S, NEW entries \in Seq(S)
  PROVE  /\ Trimmed(entries) \in Seq(S)
         /\ Thins(Trimmed(entries), entries)
  <1> DEFINE cut == Len(entries) - MaxBurst
  <1> DEFINE K == OlderDirects(entries, cut) \cup (cut + 1)..Len(entries)
  <1>1. CASE cut > 0
    <2>1. Trimmed(entries) = Kept(entries, K)
      BY <1>1 DEF Trimmed
    <2>2. K \in SUBSET (DOMAIN entries)
      BY <1>1, PlanAssumption DEF OlderDirects
    <2> HIDE DEF K
    <2> QED BY <2>1, <2>2, KeptPicks DEF Thins
  <1>2. CASE ~(cut > 0)
    <2>1. Trimmed(entries) = entries
      BY <1>2 DEF Trimmed
    <2> QED BY <2>1, AllPicked DEF Thins
  <1> QED BY <1>1, <1>2

\* And one after the other.
LEMMA ThinsCompose ==
  ASSUME NEW r, NEW s, NEW t, Thins(t, s), Thins(s, r)
  PROVE  Thins(t, r)
  <1>1. PICK L \in SUBSET (DOMAIN r) : \E h : Picks(s, r, L, h)
    BY DEF Thins
  <1>2. PICK h : Picks(s, r, L, h)
    BY <1>1
  <1>3. PICK K \in SUBSET (DOMAIN s) : \E f : Picks(t, s, K, f)
    BY DEF Thins
  <1>4. PICK f : Picks(t, s, K, f)
    BY <1>3
  <1>5. Picks(t, r, {h[k] : k \in K}, [i \in DOMAIN t |-> h[f[i]]])
    BY <1>2, <1>4, PicksCompose
  <1>6. {h[k] : k \in K} \in SUBSET (DOMAIN r)
    BY <1>2 DEF Picks
  <1> QED BY <1>5, <1>6 DEF Thins

\* A turn digests entries of its burst, each at most once and in their order.
LEMMA DigestedThins ==
  ASSUME NEW S, NEW burst \in Seq(S)
  PROVE  Digested(burst) \in Seq(S) /\ Thins(Digested(burst), burst)
  BY FreshOnlyThins, TrimmedThins, ThinsCompose DEF Digested

-----------------------------------------------------------------------------
(* Finite orders *)

\* Going down in a finite strict order one comes to an element with nothing below.
LEMMA Lowest ==
  ASSUME NEW P, IsFiniteSet(P), P # {},
         NEW Below, Below \in [P -> SUBSET P],
         \A x \in P : \A y \in Below[x] : Below[y] \subseteq Below[x] /\ y \notin Below[y]
  PROVE  \E x \in P : Below[x] = {}
  <1> DEFINE T == {Below[x] : x \in P}
  <1>1. IsWellFoundedOn(StrictSubsetOrdering(P), FiniteSubsetsOf(P))
    BY FS_StrictSubsetOrderingWellFounded
  <1>2. T \subseteq FiniteSubsetsOf(P) /\ T # {}
    BY FS_Subset DEF FiniteSubsetsOf
  <1>3. PICK s \in T : \A t \in T : ~(<<t, s>> \in StrictSubsetOrdering(P))
    <2> HIDE DEF T
    <2> QED BY <1>1, <1>2, WFMin
  <1>4. PICK x \in P : s = Below[x]
    OBVIOUS
  <1>5. ASSUME NEW y \in Below[x] PROVE FALSE
    <2>1. y \in P /\ Below[y] \subseteq Below[x] /\ y \notin Below[y]
      OBVIOUS
    <2>2. <<Below[y], Below[x]>> \in StrictSubsetOrdering(P)
      BY <2>1 DEF StrictSubsetOrdering
    <2> QED BY <1>3, <1>4, <2>1, <2>2
  <1> QED BY <1>5

\* The maximum of the community modules is one, and the minimum as well.
LEMMA MaxIs ==
  ASSUME NEW S \in SUBSET Nat, IsFiniteSet(S), S # {}
  PROVE  Max(S) \in S /\ \A y \in S : y <= Max(S)
  <1>1. PICK Above : Above = [x \in S |-> {y \in S : y > x}]
    OBVIOUS
  <1>2. PICK x \in S : Above[x] = {}
    <2>1. Above \in [S -> SUBSET S]
      BY <1>1
    <2>2. ASSUME NEW z \in S, NEW y \in Above[z]
          PROVE  Above[y] \subseteq Above[z] /\ y \notin Above[y]
      <3>1. y \in S /\ y > z
        BY <1>1
      <3>2. ASSUME NEW w \in Above[y] PROVE w \in Above[z]
        <4>1. w \in S /\ w > y
          BY <1>1, <3>1
        <4>2. w \in Nat /\ y \in Nat /\ z \in Nat
          BY <3>1, <4>1
        <4>3. w > z
          BY <3>1, <4>1, <4>2
        <4> QED BY <1>1, <4>1, <4>3
      <3>3. y \notin Above[y]
        BY <1>1, <3>1
      <3> QED BY <3>2, <3>3
    <2> QED BY <2>1, <2>2, Lowest
  <1>3. \A y \in S : x >= y
    BY <1>1, <1>2
  <1> QED BY <1>3 DEF Max

LEMMA MinIs ==
  ASSUME NEW S \in SUBSET Nat, IsFiniteSet(S), S # {}
  PROVE  Min(S) \in S
  <1>1. PICK Under : Under = [x \in S |-> {y \in S : y < x}]
    OBVIOUS
  <1>2. PICK x \in S : Under[x] = {}
    <2>1. Under \in [S -> SUBSET S]
      BY <1>1
    <2>2. ASSUME NEW z \in S, NEW y \in Under[z]
          PROVE  Under[y] \subseteq Under[z] /\ y \notin Under[y]
      <3>1. y \in S /\ y < z
        BY <1>1
      <3>2. ASSUME NEW w \in Under[y] PROVE w \in Under[z]
        <4>1. w \in S /\ w < y
          BY <1>1, <3>1
        <4>2. w \in Nat /\ y \in Nat /\ z \in Nat
          BY <3>1, <4>1
        <4>3. w < z
          BY <3>1, <4>1, <4>2
        <4> QED BY <1>1, <4>1, <4>3
      <3>3. y \notin Under[y]
        BY <1>1, <3>1
      <3> QED BY <3>2, <3>3
    <2> QED BY <2>1, <2>2, Lowest
  <1>3. \A y \in S : x <= y
    BY <1>1, <1>2
  <1> QED BY <1>3 DEF Min

-----------------------------------------------------------------------------
(* The anchor *)

\* Sets of positions of a list are finite sets of naturals.
LEMMA Positions ==
  ASSUME NEW T, NEW es \in Seq(T), NEW S \in SUBSET DOMAIN es
  PROVE  IsFiniteSet(S) /\ S \in SUBSET Nat
  <1>1. DOMAIN es = 1..Len(es) /\ Len(es) \in Nat
    OBVIOUS
  <1>2. IsFiniteSet(DOMAIN es)
    BY <1>1, FS_Interval
  <1> QED BY <1>1, <1>2, FS_Subset

\* One entry at most; a direct one if there is any; one if any is no edit.
LEMMA AnchorIs ==
  ASSUME NEW T, NEW es \in Seq(T), NEW S \in SUBSET DOMAIN es
  PROVE  /\ Anchor(es, S) \subseteq S
         /\ \A i, j \in Anchor(es, S) : i = j
         /\ (\E k \in S : es[k].direct) => \E i \in Anchor(es, S) : es[i].direct
         /\ (\E k \in S : ~es[k].isEdit) => Anchor(es, S) # {}
  <1> DEFINE direct == {i \in S : es[i].direct}
             plain  == {i \in S : ~es[i].isEdit}
  <1>1. /\ direct # {} => Max(direct) \in direct
        /\ plain # {} => Max(plain) \in plain
    <2>1. /\ direct \in SUBSET Nat /\ IsFiniteSet(direct)
          /\ plain \in SUBSET Nat /\ IsFiniteSet(plain)
      BY Positions, FS_Subset
    <2> QED BY <2>1, MaxIs
  <1>2. Anchor(es, S) = IF direct # {} THEN {Max(direct)}
                        ELSE IF plain # {} THEN {Max(plain)} ELSE {}
    BY DEF Anchor
  <1> QED BY <1>1, <1>2

\* The newest position of a set.
LEMMA NewestIs ==
  ASSUME NEW T, NEW es \in Seq(T), NEW S \in SUBSET DOMAIN es, S # {}
  PROVE  Max(S) \in S /\ \A k \in S : k <= Max(S)
  BY Positions, MaxIs

\* The two loops of the multi path find what the two of the single path find.
LEMMA GroupPickIs ==
  ASSUME NEW T, NEW es \in Seq(T), NEW S \in SUBSET DOMAIN es
  PROVE  GroupPick(es, S) = Anchor(es, S)
  <1> DEFINE direct == {i \in S : es[i].direct}
             plain  == {i \in S : ~es[i].isEdit}
  <1>1. S \in SUBSET Nat
    BY Positions
  <1>2. Anchor(es, S) = IF direct # {} THEN {Max(direct)}
                        ELSE IF plain # {} THEN {Max(plain)} ELSE {}
    BY DEF Anchor
  <1>3. CASE direct # {}
    <2>1. Max(direct) \in direct /\ \A k \in direct : k <= Max(direct)
      BY <1>3, NewestIs
    <2>2. PICK d : d = Max(direct)
      OBVIOUS
    <2>3. d \in direct /\ \A k \in direct : k <= d
      BY <2>1, <2>2
    <2>4. GroupPick(es, S) = {i \in direct : \A k \in direct : ~(k > i)}
      BY <1>3 DEF GroupPick
    <2>5. GroupPick(es, S) = {d}
      BY <1>1, <2>3, <2>4
    <2> QED BY <1>2, <1>3, <2>2, <2>5
  <1>4. CASE direct = {} /\ plain # {}
    <2>1. Max(plain) \in plain /\ \A k \in plain : k <= Max(plain)
      BY <1>4, NewestIs
    <2>2. PICK d : d = Max(plain)
      OBVIOUS
    <2>3. d \in plain /\ \A k \in plain : k <= d
      BY <2>1, <2>2
    <2>4. GroupPick(es, S) = {i \in plain : \A k \in plain : ~(k > i)}
      BY <1>4 DEF GroupPick
    <2>5. GroupPick(es, S) = {d}
      BY <1>1, <2>3, <2>4
    <2> QED BY <1>2, <1>4, <2>2, <2>5
  <1>5. CASE direct = {} /\ plain = {}
    BY <1>2, <1>5 DEF GroupPick
  <1> QED BY <1>3, <1>4, <1>5

\* Only entries of the burst are judged.
LEMMA JudgedIn ==
  ASSUME NEW T, NEW es \in Seq(T), NEW mode
  PROVE  Judged(es, mode) \in SUBSET DOMAIN es
  <1>1. Commands(es) \subseteq DOMAIN es /\ Candidates(es, mode) \subseteq DOMAIN es
    BY DEF Commands, Candidates
  <1>2. PICK S \in SUBSET DOMAIN es : S = Candidates(es, mode)
    BY <1>1
  <1>3. Anchor(es, S) \subseteq S
    BY AnchorIs
  <1>4. GroupAnchors(es, S) \subseteq S
    <2>1. ASSUME NEW u PROVE GroupPick(es, GroupOf(es, S, u)) \subseteq S
      <3>1. GroupOf(es, S, u) \subseteq S
        BY DEF GroupOf
      <3>2. GroupPick(es, GroupOf(es, S, u)) \subseteq GroupOf(es, S, u)
        BY DEF GroupPick
      <3> QED BY <3>1, <3>2
    <2> QED BY <2>1 DEF GroupAnchors
  <1>5. PickMultiAnchorGroups(es, S, AnchorBudget) \subseteq S
    BY <1>4 DEF PickMultiAnchorGroups
  <1>6. Anchors(es, mode) \subseteq S
    BY <1>2, <1>3, <1>5 DEF Anchors
  <1> QED BY <1>1, <1>2, <1>6 DEF Judged

-----------------------------------------------------------------------------
(* Trimming and the call *)

\* However much is trimmed, a direct entry is left if there was one.
LEMMA TrimmedKeepsDirect ==
  ASSUME NEW T, NEW es \in Seq(T), HasDirect(es)
  PROVE  HasDirect(Trimmed(es))
  <1> DEFINE cut == Len(es) - MaxBurst
             K == OlderDirects(es, cut) \cup (cut + 1)..Len(es)
             D == {i \in 1..cut : es[i].direct}
  <1>1. CASE cut > 0
    <2>1. Trimmed(es) = Kept(es, K)
      BY <1>1 DEF Trimmed
    <2>2. K \in SUBSET DOMAIN es /\ cut \in Nat /\ D \in SUBSET DOMAIN es
      BY <1>1, PlanAssumption DEF OlderDirects
    <2>3. PICK q \in K : es[q].direct
      <3>1. PICK p \in DOMAIN es : es[p].direct
        BY DEF HasDirect
      <3>2. CASE p > cut
        <4>1. p \in K
          BY <2>2, <3>1, <3>2
        <4> QED BY <3>1, <4>1
      <3>3. CASE ~(p > cut)
        <4>1. p \in D
          BY <2>2, <3>1, <3>3
        <4>2. PICK m \in D : \A y \in D : y <= m
          <5> HIDE DEF D
          <5>1. IsFiniteSet(D) /\ D \in SUBSET Nat
            BY <2>2, Positions
          <5> QED BY <4>1, <5>1, MaxIs
        <4>3. {k \in D : k > m} = {}
          <5>1. \A k \in D : k \in Nat
            BY <2>2
          <5> HIDE DEF D
          <5> QED BY <4>2, <5>1
        <4>4. Cardinality({k \in D : k > m}) < MaxOlderDirects
          <5>1. Cardinality({}) = 0
            BY FS_EmptySet
          <5>2. Cardinality({k \in D : k > m}) = 0
            BY <4>3, <5>1, Zenon
          <5>3. 0 < MaxOlderDirects
            BY PlanAssumption
          <5> QED BY <5>2, <5>3
        <4>5. m \in OlderDirects(es, cut)
          <5>1. OlderDirects(es, cut) = {i \in D : Cardinality({k \in D : k > i}) < MaxOlderDirects}
            BY DEF OlderDirects
          <5> HIDE DEF D
          <5> QED BY <4>2, <4>4, <5>1
        <4> QED BY <4>2, <4>5
      <3> QED BY <3>2, <3>3
    <2> HIDE DEF K
    <2>4. PICK g : Picks(Kept(es, K), es, K, g)
      BY <2>2, KeptPicks
    <2>5. PICK i \in DOMAIN Kept(es, K) : g[i] = q
      BY <2>3, <2>4 DEF Picks
    <2>6. Kept(es, K)[i] = es[q]
      BY <2>4, <2>5 DEF Picks
    <2> QED BY <2>1, <2>3, <2>5, <2>6 DEF HasDirect
  <1>2. CASE ~(cut > 0)
    BY <1>2 DEF Trimmed
  <1> QED BY <1>1, <1>2
=============================================================================
