-------------------------- MODULE PageStoreProofs --------------------------
(***************************************************************************)
(* The store keeps its chats apart, its free list true, and what memory    *)
(* knows of the chats in step with the file, as long as it is closed and   *)
(* never killed: for every number of chats, keys, pages, messages, trims,  *)
(* checkpoints and restarts.                                               *)
(*                                                                         *)
(* The first sections, up to "What the hot chain holds", say what the      *)
(* operators on a page file do to its free list, its chains and its hot    *)
(* pages, whatever the number of pages and the length of the chains; the   *)
(* others are about the store.                                             *)
(***************************************************************************)
EXTENDS PageStoreProps, Integers, FiniteSetTheorems, WellFoundedInduction, TLAPS

-----------------------------------------------------------------------------
(* Induction over the positions of a list *)

\* A set of naturals that is not empty has a least element.
LEMMA LeastOf ==
  ASSUME NEW T \in SUBSET Nat, NEW n \in T
  PROVE  \E x \in T : \A y \in T : x <= y
  <1> DEFINE less == OpToRel(<, Nat)
  <1>1. IsWellFoundedOn(less, Nat)
    BY NatLessThanWellFounded
  <1>2. PICK x \in T : \A y \in T : ~(<<y, x>> \in less)
    BY <1>1, WFMin
  <1>3. ASSUME NEW y \in T, y < x
        PROVE  <<y, x>> \in less
    BY <1>3, Zenon DEF OpToRel
  <1>4. \A y \in T : ~(y < x)
    BY <1>2, <1>3, Zenon
  <1> QED BY <1>4

\* What holds of 0 and climbs step by step holds of n.
LEMMA Climb ==
  ASSUME NEW T \in SUBSET Nat, 0 \in T, NEW n \in Nat,
         \A i \in 0..(n - 1) : i \in T => i + 1 \in T
  PROVE  n \in T
  <1> SUFFICES ASSUME n \notin T PROVE FALSE
    OBVIOUS
  <1> DEFINE U == {i \in 0..n : i \notin T}
  <1>1. U \in SUBSET Nat /\ n \in U
    OBVIOUS
  <1>2. PICK x \in U : \A y \in U : x <= y
    <2> HIDE DEF U
    <2> QED BY <1>1, LeastOf
  <1>3. x - 1 \in 0..(n - 1) /\ x - 1 \in T
    BY <1>2
  <1> QED BY <1>3

\* G takes every stage but the last from its V to the next one's.
StaysIn(G, N, V) == \A n \in 1..N : \A v \in V[n - 1] : G[<<n, v>>] \in V[n]

\* h are the stages of the recursion that starts with a.
Iterates(V, a, N, G, h) ==
    /\ h = [n \in 0..N |-> h[n]] /\ h[0] = a
    /\ \A n \in 0..N : h[n] \in V[n]
    /\ \A n \in 1..N : h[n] = G[<<n, h[n - 1]>>]

\* A recursion whose step stays in V has a value at every stage.
LEMMA Iterated ==
  ASSUME NEW V, NEW a \in V[0], NEW N \in Nat, NEW G, StaysIn(G, N, V)
  PROVE  \E h : Iterates(V, a, N, G, h)
  <1> DEFINE T == {m \in 0..N : \E h : Iterates(V, a, m, G, h)}
  <1>1. 0 \in T
    <2> DEFINE h == [i \in 0..0 |-> a]
    <2>1. h = [n \in 0..0 |-> h[n]] /\ h[0] = a /\ (\A n \in 0..0 : n = 0) /\ \A n \in 1..0 : FALSE
      OBVIOUS
    <2> HIDE DEF h
    <2>2. Iterates(V, a, 0, G, h)
      BY <2>1 DEF Iterates
    <2> QED BY <2>2
  <1>2. ASSUME NEW m \in 0..(N - 1), m \in T
        PROVE  m + 1 \in T
    <2>1. PICK h : Iterates(V, a, m, G, h)
      BY <1>2
    <2> DEFINE next == G[<<m + 1, h[m]>>]
    <2>2. h[m] \in V[m] /\ m + 1 \in 1..N /\ next \in V[m + 1]
      <3>1. m + 1 \in 1..N /\ (m + 1) - 1 = m /\ m \in 0..m
        OBVIOUS
      <3>2. h[m] \in V[m]
        BY <2>1, <3>1 DEF Iterates
      <3> QED BY <3>1, <3>2 DEF StaysIn
    <2> DEFINE g == [i \in 0..(m + 1) |-> IF i = m + 1 THEN next ELSE h[i]]
    <2>a. g = [n \in 0..(m + 1) |-> g[n]]
      OBVIOUS
    <2>3. /\ g[m + 1] = next /\ \A i \in 0..m : g[i] = h[i]
          /\ \A i \in 0..(m + 1) : i = m + 1 \/ i \in 0..m
      <3>1. \A i \in 0..(m + 1) : i = m + 1 \/ i \in 0..m
        OBVIOUS
      <3> HIDE DEF next
      <3> QED BY <3>1
    <2> HIDE DEF g
    <2>4. ASSUME NEW n \in 1..(m + 1)
          PROVE  g[n] = G[<<n, g[n - 1]>>]
      <3>1. CASE n = m + 1
        <4>1. n - 1 = m /\ g[m] = h[m]
          BY <2>3, <3>1
        <4> QED BY <2>3, <3>1, <4>1
      <3>2. CASE n \in 1..m
        <4>1. g[n] = h[n] /\ g[n - 1] = h[n - 1]
          BY <2>3, <3>2
        <4> QED BY <2>1, <3>2, <4>1 DEF Iterates
      <3> QED BY <3>1, <3>2
    <2>5. Iterates(V, a, m + 1, G, g)
      <3>1. \A n \in 0..(m + 1) : g[n] \in V[n]
        BY <2>1, <2>2, <2>3 DEF Iterates
      <3>2. g[0] = a
        BY <2>1, <2>3 DEF Iterates
      <3> QED BY <2>a, <2>4, <3>1, <3>2, Zenon DEF Iterates
    <2> QED BY <2>2, <2>5
  <1>3. T \in SUBSET Nat
    OBVIOUS
  <1> HIDE DEF T
  <1>4. N \in T
    BY <1>1, <1>2, <1>3, Climb
  <1> QED BY <1>4 DEF T

\* Stages that follow G where they are in V.
Follows(V, a, N, G, u) ==
    /\ u = [n \in 0..N |-> u[n]] /\ u[0] = a
    /\ \A n \in 1..N : u[n - 1] \in V[n - 1] => u[n] = G[<<n, u[n - 1]>>]

\* They are in V.
LEMMA IteratedOnly ==
  ASSUME NEW V, NEW a \in V[0], NEW N \in Nat, NEW G, StaysIn(G, N, V), NEW u, Follows(V, a, N, G, u)
  PROVE  \A n \in 0..N : u[n] \in V[n]
  <1> DEFINE T == {n \in 0..N : u[n] \in V[n]}
  <1>1. 0 \in T
    BY DEF Follows
  <1>2. ASSUME NEW m \in 0..(N - 1), m \in T
        PROVE  m + 1 \in T
    <2>1. u[m] \in V[m]
      BY <1>2
    <2>2. m + 1 \in 1..N /\ (m + 1) - 1 = m
      OBVIOUS
    <2> HIDE DEF T
    <2>3. u[m + 1] = G[<<m + 1, u[m]>>]
      BY <2>1, <2>2 DEF Follows
    <2>4. u[m + 1] \in V[m + 1]
      BY <2>1, <2>2, <2>3 DEF StaysIn
    <2>5. m + 1 \in 0..N
      OBVIOUS
    <2> QED BY <2>4, <2>5 DEF T
  <1>3. T \in SUBSET Nat
    OBVIOUS
  <1>4. \A n \in 0..N : n \in T
    <2> SUFFICES ASSUME NEW n \in 0..N PROVE n \in T
      OBVIOUS
    <2>1. n \in Nat /\ \A i \in 0..(n - 1) : i \in 0..(N - 1)
      OBVIOUS
    <2> HIDE DEF T
    <2> QED BY <1>1, <1>2, <1>3, <2>1, Climb
  <1> QED BY <1>4

-----------------------------------------------------------------------------
(* Files *)

\* A message of a chat, or a hot key and its value.
Tuple == (Chats \X Nat) \cup (Keys \X Vals)

\* What a page can hold.
Page == [kind : {"free", "chat", "hot"}, chat : Chats \cup {NoChat}, next : Nat, items : Seq(Tuple)]

\* How many tuples fit.
Size(kind) == IF kind = "hot" THEN HotCap ELSE Cap

\* A file that points to its own pages only and overfills none.
File == {f \in [pg : Seq(Page), free : Nat] :
            /\ f.free <= Len(f.pg)
            /\ \A p \in DOMAIN f.pg :
                  f.pg[p].next <= Len(f.pg) /\ Len(f.pg[p].items) <= Size(f.pg[p].kind)}

\* The fields of a page.
LEMMA PageFacts ==
  ASSUME NEW page \in Page
  PROVE  /\ page.kind \in {"free", "chat", "hot"} /\ page.chat \in Chats \cup {NoChat}
         /\ page.next \in Nat /\ page.items \in Seq(Tuple) /\ Len(page.items) \in Nat
  BY DEF Page

\* The pages of a file, and what they point to.
LEMMA FileFacts ==
  ASSUME NEW f \in File
  PROVE  /\ DOMAIN f = {"pg", "free"} /\ f = [pg |-> f.pg, free |-> f.free]
         /\ f.pg \in Seq(Page) /\ Len(f.pg) \in Nat /\ DOMAIN f.pg = 1..Len(f.pg)
         /\ f.free \in Nat /\ f.free <= Len(f.pg)
         /\ \A p \in DOMAIN f.pg :
               /\ f.pg[p] \in Page
               /\ f.pg[p].next \in Nat /\ f.pg[p].next <= Len(f.pg)
               /\ Len(f.pg[p].items) <= Size(f.pg[p].kind)
  <1>1. /\ DOMAIN f = {"pg", "free"} /\ f = [pg |-> f.pg, free |-> f.free]
        /\ f.pg \in Seq(Page) /\ f.free \in Nat /\ f.free <= Len(f.pg)
        /\ \A p \in DOMAIN f.pg :
              f.pg[p].next <= Len(f.pg) /\ Len(f.pg[p].items) <= Size(f.pg[p].kind)
    BY DEF File
  <1>2. /\ Len(f.pg) \in Nat /\ DOMAIN f.pg = 1..Len(f.pg)
        /\ \A p \in DOMAIN f.pg : f.pg[p] \in Page
    BY <1>1
  <1> QED BY <1>1, <1>2, PageFacts

\* g is f with the page p written over.
Writes(g, f, p, page) ==
    /\ DOMAIN g = {"pg", "free"} /\ g.free = f.free
    /\ DOMAIN g.pg = DOMAIN f.pg /\ Len(g.pg) = Len(f.pg)
    /\ \A q \in DOMAIN f.pg : g.pg[q] = IF q = p THEN page ELSE f.pg[q]

\* Writing a page over.
LEMMA WriteEffect ==
  ASSUME NEW f \in File, NEW p \in DOMAIN f.pg, NEW page \in Page,
         page.next <= Len(f.pg), Len(page.items) <= Size(page.kind)
  PROVE  /\ [f EXCEPT !.pg[p] = page] \in File
         /\ Writes([f EXCEPT !.pg[p] = page], f, p, page)
  <1> DEFINE g == [f EXCEPT !.pg[p] = page]
  <1>1. f.pg \in Seq(Page) /\ f.free \in Nat /\ DOMAIN f = {"pg", "free"} /\ Len(f.pg) \in Nat
    BY DEF File
  <1>2. g.pg = [f.pg EXCEPT ![p] = page] /\ g.free = f.free /\ DOMAIN g = {"pg", "free"}
    BY <1>1
  <1>3. g.pg \in Seq(Page) /\ Len(g.pg) = Len(f.pg) /\ DOMAIN g.pg = DOMAIN f.pg
    BY <1>1, <1>2
  <1>4. \A q \in DOMAIN f.pg : g.pg[q] = IF q = p THEN page ELSE f.pg[q]
    BY <1>1, <1>2
  <1>5. g = [pg |-> g.pg, free |-> g.free]
    BY <1>1, SMTT(90)
  <1> HIDE DEF g
  <1>6. g \in [pg : Seq(Page), free : Nat]
    BY <1>1, <1>2, <1>3, <1>5
  <1>7. \A q \in DOMAIN f.pg : f.pg[q].next <= Len(f.pg) /\ Len(f.pg[q].items) <= Size(f.pg[q].kind)
    BY DEF File
  <1>8. f.free <= Len(f.pg)
    BY DEF File
  <1>9. g \in File
    BY <1>2, <1>3, <1>4, <1>6, <1>7, <1>8 DEF File
  <1>10. Writes(g, f, p, page)
    BY <1>2, <1>3, <1>4 DEF Writes
  <1> QED BY <1>9, <1>10 DEF g

\* A fresh page.
LEMMA BlankPage ==
  ASSUME NEW kind \in {"free", "chat", "hot"}
  PROVE  /\ Blank(kind) \in Page /\ Blank(kind).kind = kind /\ Blank(kind).next = 0
         /\ Blank(kind).items = <<>> /\ Len(Blank(kind).items) = 0
         /\ Len(Blank(kind).items) <= Size(kind)
  BY PagesAssumption DEF Blank, Page, Size

\* A tuple is put on a page with room.
LEMMA PutEffect ==
  ASSUME NEW f \in File, NEW p \in DOMAIN f.pg, Room(f.pg[p]), NEW x \in Tuple
  PROVE  /\ Put(f, p, x) \in File
         /\ Writes(Put(f, p, x), f, p, [f.pg[p] EXCEPT !.items = Append(@, x)])
  <1> DEFINE page == [f.pg[p] EXCEPT !.items = Append(@, x)]
  <1>1. f.pg[p] \in Page /\ f.pg[p].items \in Seq(Tuple) /\ f.pg[p].next <= Len(f.pg)
    BY FileFacts, PageFacts
  <1>2. /\ page \in Page /\ page.next <= Len(f.pg) /\ page.kind = f.pg[p].kind
        /\ page.items = Append(f.pg[p].items, x)
    <2>1. Append(f.pg[p].items, x) \in Seq(Tuple)
      BY <1>1
    <2> DEFINE old == f.pg[p]
    <2> DEFINE more == Append(f.pg[p].items, x)
    <2>2. old \in Page /\ more \in Seq(Tuple) /\ page = [old EXCEPT !.items = more] /\ old.next <= Len(f.pg)
      BY <1>1, <2>1
    <2> HIDE DEF old, more, page
    <2>3. page \in Page /\ page.next = old.next /\ page.kind = old.kind /\ page.items = more
      BY <2>2 DEF Page
    <2> QED BY <2>2, <2>3 DEF old, more
  <1>3. Len(page.items) <= Size(page.kind)
    BY <1>1, <1>2, PagesAssumption DEF Room, Size
  <1>4. Put(f, p, x) = [f EXCEPT !.pg[p] = page]
    BY DEF Put
  <1> HIDE DEF page
  <1>5. [f EXCEPT !.pg[p] = page] \in File /\ Writes([f EXCEPT !.pg[p] = page], f, p, page)
    BY <1>2, <1>3, WriteEffect
  <1> QED BY <1>4, <1>5 DEF page

\* A page is linked from another.
LEMMA LinkEffect ==
  ASSUME NEW f \in File, NEW p \in DOMAIN f.pg, NEW q \in DOMAIN f.pg
  PROVE  /\ [f EXCEPT !.pg[p].next = q] \in File
         /\ Writes([f EXCEPT !.pg[p].next = q], f, p, [f.pg[p] EXCEPT !.next = q])
  <1> DEFINE page == [f.pg[p] EXCEPT !.next = q]
  <1>1. f.pg[p] \in Page /\ Len(f.pg[p].items) <= Size(f.pg[p].kind) /\ q \in Nat /\ q <= Len(f.pg)
    BY DEF File
  <1>2. /\ page \in Page /\ page.next = q /\ page.kind = f.pg[p].kind
        /\ page.items = f.pg[p].items
    BY <1>1 DEF Page
  <1>3. [f EXCEPT !.pg[p].next = q] = [f EXCEPT !.pg[p] = page]
    OBVIOUS
  <1> HIDE DEF page
  <1>4. [f EXCEPT !.pg[p] = page] \in File /\ Writes([f EXCEPT !.pg[p] = page], f, p, page)
    BY <1>1, <1>2, WriteEffect
  <1> QED BY <1>3, <1>4 DEF page

\* A page is put at the head of the free list.
LEMMA FreeEffect ==
  ASSUME NEW f \in File, NEW p \in DOMAIN f.pg
  PROVE  /\ FreePage(f, p) \in File /\ FreePage(f, p).free = p
         /\ DOMAIN FreePage(f, p).pg = DOMAIN f.pg /\ Len(FreePage(f, p).pg) = Len(f.pg)
         /\ \A q \in DOMAIN f.pg :
               FreePage(f, p).pg[q] = IF q = p THEN [Blank("free") EXCEPT !.next = f.free]
                                      ELSE f.pg[q]
  <1> DEFINE page == [Blank("free") EXCEPT !.next = f.free]
  <1> DEFINE h == [f EXCEPT !.pg[p] = page]
  <1>1. f.free \in Nat /\ f.free <= Len(f.pg) /\ f.pg \in Seq(Page) /\ DOMAIN f = {"pg", "free"}
    BY DEF File
  <1>2. page \in Page /\ page.next = f.free /\ Len(page.items) <= Size(page.kind)
    <2>1. page = [kind |-> "free", chat |-> NoChat, next |-> f.free, items |-> <<>>]
      BY DEF Blank
    <2> HIDE DEF page
    <2>2. <<>> \in Seq(Tuple) /\ Len(<<>>) = 0 /\ 0 <= Size("free")
      BY PagesAssumption DEF Size
    <2> QED BY <1>1, <2>1, <2>2 DEF Page
  <1>3. FreePage(f, p) = [pg |-> [f.pg EXCEPT ![p] = page], free |-> p]
    BY DEF FreePage
  <1>4. h.pg = [f.pg EXCEPT ![p] = page]
    BY <1>1
  <1> HIDE DEF page
  <1>5. h \in File /\ Writes(h, f, p, page)
    BY <1>1, <1>2, WriteEffect
  <1>6. FreePage(f, p) = [pg |-> h.pg, free |-> p] /\ p \in Nat /\ p <= Len(f.pg)
    BY <1>1, <1>3, <1>4
  <1> HIDE DEF h
  <1>7. FreePage(f, p).pg = h.pg /\ FreePage(f, p).free = p
    BY <1>6
  <1>8. FreePage(f, p) \in File
    BY <1>5, <1>6 DEF File, Writes
  <1> QED BY <1>5, <1>7, <1>8 DEF Writes, page

\* g is f with a page taken from the free list, or appended.
Takes(g, f, page) ==
    /\ g \in File /\ Allocated(f) \in DOMAIN g.pg /\ g.pg[Allocated(f)] = page
    /\ \A q \in DOMAIN f.pg : q \in DOMAIN g.pg /\ (q # Allocated(f) => g.pg[q] = f.pg[q])
    /\ \A q \in DOMAIN g.pg : q = Allocated(f) \/ q \in DOMAIN f.pg
    /\ IF f.free > 0 THEN Len(g.pg) = Len(f.pg) /\ g.free = f.pg[f.free].next
       ELSE Len(g.pg) = Len(f.pg) + 1 /\ g.free = 0

\* A page is taken: the head of the free list, or a new one at the end.
LEMMA AllocEffect ==
  ASSUME NEW f \in File, NEW kind \in {"chat", "hot"}
  PROVE  Takes(Alloc(f, kind), f, Blank(kind))
  <1> DEFINE page == Blank(kind)
  <1> DEFINE g == Alloc(f, kind)
  <1>1. f.free \in Nat /\ f.free <= Len(f.pg) /\ f.pg \in Seq(Page) /\ DOMAIN f = {"pg", "free"}
    BY DEF File
  <1>2. page \in Page /\ page.next = 0 /\ Len(page.items) <= Size(page.kind)
    BY BlankPage
  <1>3. CASE f.free > 0
    <2> DEFINE h == [f EXCEPT !.pg[f.free] = page]
    <2>1. f.free \in DOMAIN f.pg
      BY <1>1, <1>3
    <2>2. h.pg = [f.pg EXCEPT ![f.free] = page]
      BY <1>1
    <2>3. g = [pg |-> [f.pg EXCEPT ![f.free] = page], free |-> f.pg[f.free].next]
      BY <1>3 DEF Alloc
    <2> HIDE DEF page
    <2>4. h \in File /\ Writes(h, f, f.free, page)
      BY <1>1, <1>2, <2>1, WriteEffect
    <2>5. g = [pg |-> h.pg, free |-> f.pg[f.free].next]
      BY <2>2, <2>3
    <2>6. f.pg[f.free].next \in Nat /\ f.pg[f.free].next <= Len(f.pg)
      BY <2>1, FileFacts
    <2> HIDE DEF h, g
    <2>7. g \in File
      BY <2>4, <2>5, <2>6 DEF File, Writes
    <2>8. Allocated(f) = f.free
      BY <1>3 DEF Allocated
    <2> QED BY <1>3, <2>1, <2>4, <2>5, <2>7, <2>8 DEF Takes, Writes, g, page
  <1>4. CASE f.free = 0
    <2>1. g = [f EXCEPT !.pg = Append(f.pg, page)]
      BY <1>4 DEF Alloc
    <2> HIDE DEF page
    <2>2. g.pg = Append(f.pg, page) /\ g.free = 0 /\ g = [pg |-> g.pg, free |-> g.free]
      BY <1>1, <1>4, <2>1
    <2> HIDE DEF g
    <2>3. /\ g.pg \in Seq(Page) /\ Len(g.pg) = Len(f.pg) + 1
          /\ g.pg[Len(f.pg) + 1] = page /\ DOMAIN g.pg = 1..(Len(f.pg) + 1)
          /\ \A q \in DOMAIN f.pg : g.pg[q] = f.pg[q]
          /\ DOMAIN f.pg = 1..Len(f.pg) /\ Len(f.pg) \in Nat
      BY <1>1, <1>2, <2>2
    <2>4. \A q \in DOMAIN f.pg : f.pg[q].next \in Nat /\ f.pg[q].next <= Len(f.pg) /\ Len(f.pg[q].items) <= Size(f.pg[q].kind)
      BY FileFacts
    <2>5. \A q \in DOMAIN g.pg : g.pg[q].next <= Len(g.pg) /\ Len(g.pg[q].items) <= Size(g.pg[q].kind)
      BY <1>2, <2>3, <2>4, SMTT(90)
    <2>6. g \in File
      <3>1. g \in [pg : Seq(Page), free : Nat] /\ g.free <= Len(g.pg)
        BY <2>2, <2>3, SMTT(90)
      <3> QED BY <2>5, <3>1 DEF File
    <2>7. Allocated(f) = Len(f.pg) + 1
      BY <1>4 DEF Allocated
    <2> QED BY <1>4, <2>2, <2>3, <2>6, <2>7 DEF Takes, g, page
  <1> QED BY <1>1, <1>3, <1>4

-----------------------------------------------------------------------------
(* Paths *)

\* s goes from page to page to the end of a chain.
Path(f, s) ==
    /\ s \in Seq(DOMAIN f.pg)
    /\ \A i, j \in DOMAIN s : s[i] = s[j] => i = j
    /\ \A i \in DOMAIN s : f.pg[s[i]].next = IF i = Len(s) THEN 0 ELSE s[i + 1]

\* The first and the last page of a path, 0 if it is empty.
HeadOf(s) == IF s = <<>> THEN 0 ELSE s[1]
LastOf(s) == IF s = <<>> THEN 0 ELSE s[Len(s)]

\* A path stays one where its pages keep their next page.
LEMMA PathKept ==
  ASSUME NEW f, NEW g, NEW s, Path(f, s),
         \A q \in DOMAIN f.pg : q \in DOMAIN g.pg,
         \A i \in DOMAIN s : g.pg[s[i]].next = f.pg[s[i]].next
  PROVE  Path(g, s)
  <1>1. s \in Seq(DOMAIN g.pg)
    BY DEF Path
  <1> QED BY <1>1 DEF Path

\* The path without its first page.
LEMMA PathTail ==
  ASSUME NEW f, NEW s, Path(f, s), s # <<>>
  PROVE  /\ s[1] \in DOMAIN f.pg /\ s[1] \notin ToSet(Tail(s)) /\ ToSet(s) = {s[1]} \cup ToSet(Tail(s))
         /\ Path(f, Tail(s)) /\ f.pg[s[1]].next = HeadOf(Tail(s))
  <1>1. /\ s \in Seq(DOMAIN f.pg) /\ Len(s) \in Nat \ {0} /\ DOMAIN s = 1..Len(s) /\ 1 \in DOMAIN s
        /\ Tail(s) \in Seq(DOMAIN f.pg) /\ Len(Tail(s)) = Len(s) - 1
        /\ DOMAIN Tail(s) = 1..(Len(s) - 1)
        /\ \A i \in 1..(Len(s) - 1) : Tail(s)[i] = s[i + 1] /\ i + 1 \in DOMAIN s
    BY DEF Path
  <1>2. s[1] \in DOMAIN f.pg
    BY <1>1
  <1>3. \A i \in 1..(Len(s) - 1) : s[i + 1] # s[1]
    BY <1>1 DEF Path
  <1>4. s[1] \notin ToSet(Tail(s))
    BY <1>1, <1>3 DEF ToSet
  <1>5. \A i \in DOMAIN s : i = 1 \/ (i - 1 \in 1..(Len(s) - 1) /\ (i - 1) + 1 = i)
    BY <1>1
  <1>6. ToSet(s) = {s[1]} \cup ToSet(Tail(s))
    BY <1>1, <1>5 DEF ToSet
  <1>7. Path(f, Tail(s))
    <2>1. ASSUME NEW i \in DOMAIN Tail(s), NEW j \in DOMAIN Tail(s), Tail(s)[i] = Tail(s)[j]
          PROVE  i = j
      BY <1>1, <2>1 DEF Path
    <2>2. ASSUME NEW i \in DOMAIN Tail(s)
          PROVE  f.pg[Tail(s)[i]].next = IF i = Len(Tail(s)) THEN 0 ELSE Tail(s)[i + 1]
      BY <1>1, SMTT(30) DEF Path
    <2> QED BY <1>1, <2>1, <2>2 DEF Path
  <1>8. f.pg[s[1]].next = HeadOf(Tail(s))
    <2>1. CASE Len(s) = 1
      <3>1. Tail(s) = <<>>
        BY <1>1, <2>1
      <3> QED BY <1>1, <2>1, <3>1 DEF Path, HeadOf
    <2>2. CASE Len(s) # 1
      <3>1. 1 \in 1..(Len(s) - 1) /\ 1 + 1 = 2 /\ Len(Tail(s)) # 0
        BY <1>1, <2>2
      <3>2. Tail(s)[1] = s[2]
        BY <1>1, <3>1
      <3>3. Tail(s) # <<>>
        BY <3>1, SMTT(90)
      <3> QED BY <1>1, <2>2, <3>2, <3>3, SMTT(30) DEF Path, HeadOf
    <2> QED BY <2>1, <2>2
  <1> QED BY <1>2, <1>4, <1>6, <1>7, <1>8

\* A list of one.
LEMMA Singleton ==
  ASSUME NEW S, NEW x \in S
  PROVE  <<x>> \in Seq(S) /\ Len(<<x>>) = 1 /\ <<x>>[1] = x
  OBVIOUS

\* A page in front of the path.
LEMMA PathPush ==
  ASSUME NEW f, NEW s, Path(f, s), NEW p \in DOMAIN f.pg, p \notin ToSet(s),
         f.pg[p].next = HeadOf(s)
  PROVE  /\ Path(f, <<p>> \o s) /\ HeadOf(<<p>> \o s) = p
         /\ ToSet(<<p>> \o s) = {p} \cup ToSet(s) /\ Len(<<p>> \o s) = Len(s) + 1
  <1> DEFINE t == <<p>> \o s
  <1>1. s \in Seq(DOMAIN f.pg) /\ Len(s) \in Nat /\ DOMAIN s = 1..Len(s)
    BY DEF Path
  <1>2. /\ t \in Seq(DOMAIN f.pg) /\ Len(t) = Len(s) + 1 /\ DOMAIN t = 1..(Len(s) + 1)
        /\ t[1] = p /\ \A i \in 2..(Len(s) + 1) : t[i] = s[i - 1] /\ i - 1 \in DOMAIN s
    <2>1. <<p>> \in Seq(DOMAIN f.pg) /\ Len(<<p>>) = 1 /\ <<p>>[1] = p
      BY Singleton
    <2>2. t \in Seq(DOMAIN f.pg) /\ Len(t) = Len(s) + 1 /\ DOMAIN t = 1..(Len(s) + 1)
      BY <1>1, <2>1
    <2>3. t[1] = p
      BY <1>1, <2>1
    <2>4. ASSUME NEW i \in 2..(Len(s) + 1)
          PROVE  t[i] = s[i - 1] /\ i - 1 \in DOMAIN s
      BY <1>1, <2>1
    <2> HIDE DEF t
    <2> QED BY <2>2, <2>3, <2>4
  <1>3. t # <<>>
    BY <1>2
  <1> HIDE DEF t
  <1>4. \A i \in DOMAIN s : s[i] # p /\ t[i + 1] = s[i] /\ i + 1 \in DOMAIN t
    BY <1>1, <1>2 DEF ToSet
  <1>5. \A i \in DOMAIN t : i = 1 \/ i \in 2..(Len(s) + 1)
    BY <1>1, <1>2
  <1>6. ASSUME NEW i \in DOMAIN t, NEW j \in DOMAIN t, t[i] = t[j]
        PROVE  i = j
    <2>1. CASE i = 1 \/ j = 1
      BY <1>2, <1>4, <1>5, <1>6, <2>1
    <2>2. CASE i # 1 /\ j # 1
      <3>1. i - 1 \in DOMAIN s /\ j - 1 \in DOMAIN s /\ s[i - 1] = s[j - 1]
        BY <1>2, <1>5, <1>6, <2>2
      <3>2. i - 1 = j - 1
        BY <3>1 DEF Path
      <3> QED BY <1>1, <1>2, <3>2
    <2> QED BY <2>1, <2>2
  <1>7. ASSUME NEW i \in DOMAIN t
        PROVE  f.pg[t[i]].next = IF i = Len(t) THEN 0 ELSE t[i + 1]
    <2>1. CASE i = 1
      <3>1. CASE s = <<>>
        BY <1>2, <2>1, <3>1 DEF HeadOf
      <3>2. CASE s # <<>>
        <4>1. Len(s) # 0
          BY <1>1, <3>2
        <4> QED BY <1>1, <1>2, <2>1, <3>2, <4>1 DEF HeadOf
      <3> QED BY <3>1, <3>2
    <2>2. CASE i # 1
      <3>1. i - 1 \in DOMAIN s /\ t[i] = s[i - 1] /\ (i = Len(t) <=> i - 1 = Len(s))
        BY <1>1, <1>2, <1>5, <2>2
      <3>2. f.pg[s[i - 1]].next = IF i - 1 = Len(s) THEN 0 ELSE s[(i - 1) + 1]
        BY <3>1 DEF Path
      <3>3. i # Len(t) => t[i + 1] = s[(i - 1) + 1]
        BY <1>1, <1>2, <2>2
      <3> QED BY <3>1, <3>2, <3>3
    <2> QED BY <2>1, <2>2
  <1>8. Path(f, t)
    BY <1>2, <1>6, <1>7 DEF Path
  <1>9. ToSet(t) = {p} \cup ToSet(s)
    <2>1. 1 \in DOMAIN t
      BY <1>1, <1>2
    <2> QED BY <1>2, <1>4, <1>5, <2>1 DEF ToSet
  <1> QED BY <1>2, <1>3, <1>8, <1>9 DEF HeadOf, t

\* In g the page p comes after the path s.
Extends(g, f, s, p) ==
    /\ Path(f, s) /\ p \in DOMAIN f.pg /\ p \notin ToSet(s) /\ f.pg[p].next = 0
    /\ \A q \in DOMAIN f.pg : q \in DOMAIN g.pg
    /\ \A q \in DOMAIN f.pg :
          g.pg[q].next = IF s # <<>> /\ q = LastOf(s) THEN p ELSE f.pg[q].next

\* A page at the end of the path.
LEMMA PathAppend ==
  ASSUME NEW f, NEW g, NEW s, NEW p, Extends(g, f, s, p)
  PROVE  /\ Path(g, Append(s, p)) /\ LastOf(Append(s, p)) = p
         /\ ToSet(Append(s, p)) = ToSet(s) \cup {p}
         /\ HeadOf(Append(s, p)) = IF s = <<>> THEN p ELSE HeadOf(s)
  <1> DEFINE t == Append(s, p)
  <1> USE DEF Extends
  <1>1. s \in Seq(DOMAIN f.pg) /\ Len(s) \in Nat /\ DOMAIN s = 1..Len(s)
    BY DEF Path
  <1>2. /\ t \in Seq(DOMAIN f.pg) /\ Len(t) = Len(s) + 1 /\ DOMAIN t = 1..(Len(s) + 1)
        /\ t[Len(s) + 1] = p /\ \A i \in DOMAIN s : t[i] = s[i] /\ i \in DOMAIN t
        /\ t # <<>>
    BY <1>1
  <1> HIDE DEF t
  <1>3. t \in Seq(DOMAIN g.pg)
    BY <1>2
  <1>4. \A i \in DOMAIN t : i = Len(s) + 1 \/ i \in DOMAIN s
    BY <1>1, <1>2
  <1>5. \A i \in DOMAIN s : s[i] # p /\ s[i] \in DOMAIN f.pg
    BY <1>1 DEF ToSet
  <1>6. ASSUME NEW i \in DOMAIN t, NEW j \in DOMAIN t, t[i] = t[j]
        PROVE  i = j
    BY <1>2, <1>4, <1>5, <1>6 DEF Path
  <1>7. ASSUME NEW i \in DOMAIN t
        PROVE  g.pg[t[i]].next = IF i = Len(t) THEN 0 ELSE t[i + 1]
    <2>1. CASE i = Len(s) + 1
      <3>1. s # <<>> => LastOf(s) # p
        BY <1>1, <1>5 DEF LastOf
      <3> QED BY <1>2, <2>1, <3>1
    <2>2. CASE i \in DOMAIN s
      <3>1. s # <<>> /\ i # Len(t) /\ t[i] = s[i]
        BY <1>1, <1>2, <2>2, SMTT(30)
      <3>2. CASE i = Len(s)
        BY <1>1, <1>2, <1>5, <2>2, <3>1, <3>2, ZenonT(30) DEF LastOf
      <3>3. CASE i # Len(s)
        <4>1. Len(s) \in DOMAIN s /\ i + 1 \in DOMAIN s
          BY <1>1, <2>2, <3>3
        <4>2. s[i] # s[Len(s)] /\ f.pg[s[i]].next = s[i + 1]
          BY <2>2, <3>3, <4>1 DEF Path
        <4> QED BY <1>2, <1>5, <2>2, <3>1, <4>1, <4>2 DEF LastOf
      <3> QED BY <3>2, <3>3
    <2> QED BY <1>4, <2>1, <2>2
  <1>8. Path(g, t)
    BY <1>3, <1>6, <1>7 DEF Path
  <1>9. ToSet(t) = ToSet(s) \cup {p}
    <2>1. Len(s) + 1 \in DOMAIN t
      BY <1>1, <1>2
    <2> QED BY <1>2, <1>4, <2>1 DEF ToSet
  <1>10. HeadOf(t) = IF s = <<>> THEN p ELSE HeadOf(s)
    <2>1. s # <<>> => 1 \in DOMAIN s
      BY <1>1
    <2>2. s = <<>> => t[1] = p
      BY <1>1, <1>2
    <2> QED BY <1>2, <2>1, <2>2 DEF HeadOf
  <1> QED BY <1>2, <1>8, <1>9, <1>10 DEF LastOf, t

\* One page further on.
Onward(f) == [seen \in Seq(Nat) |->
                 LET next == f.pg[Last(seen)].next
                 IN  IF next \in {0} \cup ToSet(seen) THEN seen ELSE Append(seen, next)]

\* u is the walk from head, stage by stage.
Walks(f, head, u) ==
    u = [n \in 0..Len(f.pg) |-> IF n = 0 THEN <<head>> ELSE Onward(f)[u[n - 1]]]

\* The walk from a page has a value at every stage.
LEMMA ChainStages ==
  ASSUME NEW f \in File, NEW V \in SUBSET (DOMAIN f.pg), NEW head \in V,
         \A p \in V : f.pg[p].next \in V \cup {0}
  PROVE  \E u \in [0..Len(f.pg) -> Seq(V) \ {<<>>}] :
            /\ u[0] = <<head>> /\ \A n \in 1..Len(f.pg) : u[n] = Onward(f)[u[n - 1]]
            /\ Chain(f, head) = u[Len(f.pg)]
  <1> DEFINE L == Len(f.pg)
  <1> DEFINE W == Seq(V) \ {<<>>}
  <1> DEFINE G == [nv \in (1..L) \X W |-> Onward(f)[nv[2]]]
  <1> DEFINE all == [n \in 0..L |-> W]
  <1>1. L \in Nat /\ DOMAIN f.pg = 1..L /\ head # 0
    BY FileFacts
  <1>2. <<head>> \in W
    BY Singleton
  <1>3. ASSUME NEW seen \in W
        PROVE  Onward(f)[seen] \in W
    <2>1. seen \in Seq(Nat) /\ Last(seen) \in V /\ Append(seen, f.pg[Last(seen)].next) # <<>>
      BY <1>1 DEF Last
    <2>2. f.pg[Last(seen)].next = 0 \/ f.pg[Last(seen)].next \in V
      BY <2>1
    <2>3. Onward(f)[seen] = IF f.pg[Last(seen)].next \in {0} \cup ToSet(seen) THEN seen
                            ELSE Append(seen, f.pg[Last(seen)].next)
      BY <2>1 DEF Onward
    <2> QED BY <2>1, <2>2, <2>3
  <1> HIDE DEF W, L
  <1>4. \A n \in 1..L, seen \in W : G[<<n, seen>>] = Onward(f)[seen]
    OBVIOUS
  <1> HIDE DEF G
  <1>5. StaysIn(G, L, all)
    <2>1. \A n \in 1..L : n \in 0..L /\ n - 1 \in 0..L
      BY <1>1
    <2> QED BY <1>3, <1>4, <2>1 DEF StaysIn
  <1>a. <<head>> \in all[0] /\ \A n \in 0..L : all[n] = W
    <2>1. 0 \in 0..L
      BY <1>1
    <2> QED BY <1>2, <2>1
  <1> HIDE DEF all
  <1>6. \E u : Walks(f, head, u)
    <2>1. PICK h : Iterates(all, <<head>>, L, G, h)
      BY <1>1, <1>a, <1>5, Iterated
    <2>2. ASSUME NEW n \in 0..L
          PROVE  h[n] = IF n = 0 THEN <<head>> ELSE Onward(f)[h[n - 1]]
      <3>1. n # 0 => n \in 1..L /\ n - 1 \in 0..L
        BY <1>1
      <3> QED BY <1>4, <1>a, <2>1, <3>1, ZenonT(30) DEF Iterates
    <2>3. h = [n \in 0..L |-> h[n]]
      BY <2>1 DEF Iterates
    <2>4. h = [n \in 0..L |-> IF n = 0 THEN <<head>> ELSE Onward(f)[h[n - 1]]]
      BY <2>2, <2>3
    <2> QED BY <2>4 DEF Walks, L
  <1> DEFINE u == CHOOSE u : Walks(f, head, u)
  <1>7. Walks(f, head, u)
    BY <1>6
  <1>8. Chain(f, head) = u[L]
    BY <1>1, Zenon DEF Chain, Walks, Onward, L
  <1> HIDE DEF u
  <1>9. u = [n \in 0..L |-> IF n = 0 THEN <<head>> ELSE Onward(f)[u[n - 1]]]
    BY <1>7 DEF Walks, L
  <1>10. u[0] = <<head>> /\ \A n \in 1..L : u[n] = Onward(f)[u[n - 1]]
    <2>1. \A n \in 0..L : u[n] = IF n = 0 THEN <<head>> ELSE Onward(f)[u[n - 1]]
      BY <1>9
    <2>2. 0 \in 0..L /\ \A n \in 1..L : n \in 0..L /\ n # 0
      BY <1>1
    <2> QED BY <2>1, <2>2
  <1>11. Follows(all, <<head>>, L, G, u)
    <2>1. u = [n \in 0..L |-> u[n]]
      BY <1>9
    <2>2. \A n \in 1..L : u[n - 1] \in all[n - 1] => u[n] = G[<<n, u[n - 1]>>]
      <3>1. \A n \in 1..L : n - 1 \in 0..L
        BY <1>1
      <3> QED BY <1>4, <1>10, <1>a, <3>1
    <2> QED BY <1>10, <2>1, <2>2, Zenon DEF Follows
  <1>12. u \in [0..L -> W]
    <2>1. \A n \in 0..L : u[n] \in W
      BY <1>1, <1>a, <1>5, <1>11, IteratedOnly, SMTT(30)
    <2> QED BY <1>9, <2>1
  <1> QED BY <1>8, <1>10, <1>12 DEF L, W

\* A list without repetitions is no longer than what it is drawn from.
LEMMA NoRepetition ==
  ASSUME NEW L \in Nat, NEW s \in Seq(1..L), \A i, j \in DOMAIN s : s[i] = s[j] => i = j
  PROVE  Len(s) <= L
  <1> DEFINE S == 1..Len(s)
  <1>1. Len(s) \in Nat /\ DOMAIN s = S /\ s \in [S -> 1..L]
    OBVIOUS
  <1>2. IsFiniteSet(S) /\ Cardinality(S) = Len(s)
    <2>1. \A n \in Nat : IsFiniteSet(1..n) /\ Cardinality(1..n) = n
      <3> SUFFICES ASSUME NEW n \in Nat PROVE IsFiniteSet(1..n) /\ Cardinality(1..n) = n
        OBVIOUS
      <3>1. IsFiniteSet(1..n) /\ Cardinality(1..n) = IF 1 > n THEN 0 ELSE n - 1 + 1
        BY FS_Interval
      <3> QED BY <3>1
    <2> QED BY <1>1, <2>1
  <1>3. IsFiniteSet(1..L) /\ Cardinality(1..L) = L
    <2>1. IsFiniteSet(1..L) /\ Cardinality(1..L) = IF 1 > L THEN 0 ELSE L - 1 + 1
      BY FS_Interval
    <2> QED BY <2>1
  <1>4. ASSUME L < Len(s)
        PROVE  FALSE
    <2> HIDE DEF S
    <2>1. Cardinality(1..L) < Cardinality(S)
      BY <1>2, <1>3, <1>4
    <2>2. \E x, y \in S : x # y /\ s[x] = s[y]
      BY <1>1, <1>2, <1>3, <2>1, FS_PigeonHole, ZenonT(30)
    <2> QED BY <1>1, <2>2
  <1> QED BY <1>1, <1>4

\* The walk along a path is the path.
LEMMA ChainOfPath ==
  ASSUME NEW f \in File, NEW s, Path(f, s)
  PROVE  Chain(f, HeadOf(s)) = s
  <1>1. CASE s = <<>>
    BY <1>1 DEF HeadOf, Chain
  <1>2. CASE s # <<>>
    <2> DEFINE L == Len(f.pg)
    <2> DEFINE N == Len(s)
    <2> DEFINE V == ToSet(s)
    <2>1. /\ s \in Seq(1..L) /\ N \in Nat /\ N # 0 /\ DOMAIN s = 1..N /\ L \in Nat
          /\ DOMAIN f.pg = 1..L /\ HeadOf(s) = s[1]
      BY <1>2, FileFacts DEF Path, HeadOf
    <2>2. N <= L
      BY <2>1, NoRepetition DEF Path
    <2>3. V \in SUBSET (DOMAIN f.pg) /\ s[1] \in V /\ \A i \in DOMAIN s : s[i] \in V /\ s[i] # 0
      BY <2>1, SMTT(90) DEF ToSet
    <2>4. \A p \in V : f.pg[p].next \in V \cup {0}
      <3> SUFFICES ASSUME NEW p \in V PROVE f.pg[p].next \in V \cup {0}
        OBVIOUS
      <3>1. PICK i \in DOMAIN s : s[i] = p
        BY DEF ToSet
      <3>2. f.pg[p].next = IF i = N THEN 0 ELSE s[i + 1]
        BY <3>1 DEF Path
      <3>3. i # N => i + 1 \in DOMAIN s
        BY <2>1
      <3> HIDE DEF V, N
      <3> QED BY <2>3, <3>2, <3>3
    <2> HIDE DEF V
    <2>5. PICK u \in [0..Len(f.pg) -> Seq(V) \ {<<>>}] :
             /\ u[0] = <<s[1]>> /\ \A n \in 1..Len(f.pg) : u[n] = Onward(f)[u[n - 1]]
             /\ Chain(f, s[1]) = u[Len(f.pg)]
      BY <2>3, <2>4, ChainStages
    <2> DEFINE Upto(n) == IF n + 1 <= N THEN n + 1 ELSE N
    <2> DEFINE Same(r, m) == Len(r) = m /\ \A i \in 1..m : r[i] = s[i]
    <2> DEFINE T == {n \in 0..L : Same(u[n], Upto(n))}
    <2> HIDE DEF N, L
    <2>6. 0 \in T
      <3>1. Upto(0) = 1 /\ 0 \in 0..L
        BY <2>1, <2>2
      <3>2. Same(u[0], 1)
        <4>1. \A i \in 1..1 : i = 1
          OBVIOUS
        <4>2. Len(<<s[1]>>) = 1 /\ <<s[1]>>[1] = s[1]
          OBVIOUS
        <4> QED BY <2>5, <4>1, <4>2
      <3> HIDE DEF Upto, Same
      <3> QED BY <3>1, <3>2
    <2>7. ASSUME NEW n \in 0..(L - 1), n \in T
          PROVE  n + 1 \in T
      <3> DEFINE seen == u[n]
      <3>1. PICK m : m = Upto(n)
        OBVIOUS
      <3>2. m \in 1..N /\ n \in 0..L /\ n + 1 \in 0..L
        BY <2>1, <3>1
      <3>3. Same(seen, m)
        <4> HIDE DEF Upto, Same
        <4> QED BY <2>7, <3>1
      <3>4. seen \in Seq(V) /\ u[n + 1] = Onward(f)[seen] /\ DOMAIN seen = 1..m
        <4>1. seen \in Seq(V)
          BY <2>1, <2>5, <3>2 DEF L
        <4>2. n + 1 \in 1..L /\ (n + 1) - 1 = n
          BY <2>1
        <4>3. u[n + 1] = Onward(f)[seen]
          BY <2>5, <4>2 DEF L
        <4> HIDE DEF seen
        <4> QED BY <3>3, <4>1, <4>3
      <3> HIDE DEF seen, T
      <3>5. seen \in Seq(Nat) /\ Last(seen) = s[m]
        <4>1. \A p \in V : p \in Nat
          BY <2>1, <2>3
        <4> QED BY <3>2, <3>3, <3>4, <4>1 DEF Last
      <3>6. u[n + 1] = IF f.pg[s[m]].next \in {0} \cup ToSet(seen) THEN seen
                       ELSE Append(seen, f.pg[s[m]].next)
        BY <3>4, <3>5, SMTT(90) DEF Onward
      <3>7. f.pg[s[m]].next = IF m = N THEN 0 ELSE s[m + 1]
        BY <2>1, <3>2 DEF Path, N
      <3>8. CASE m = N
        <4>1. Upto(n + 1) = m
          BY <2>1, <3>1, <3>8
        <4>2. u[n + 1] = seen
          BY <3>6, <3>7, <3>8
        <4> HIDE DEF Upto, Same
        <4> QED BY <3>2, <3>3, <4>1, <4>2 DEF T
      <3>9. CASE m # N
        <4>1. Upto(n + 1) = m + 1 /\ m + 1 \in DOMAIN s /\ m \in Nat
          BY <2>1, <3>1, <3>2, <3>9
        <4>2. f.pg[s[m]].next = s[m + 1] /\ s[m + 1] # 0
          BY <2>3, <3>7, <3>9, <4>1
        <4>3. s[m + 1] \notin ToSet(seen)
          <5>1. \A i \in 1..m : i \in DOMAIN s /\ i # m + 1
            BY <2>1, <3>2
          <5>2. \A i \in 1..m : s[i] # s[m + 1]
            BY <4>1, <5>1 DEF Path
          <5> QED BY <3>3, <3>4, <5>2 DEF ToSet
        <4>4. u[n + 1] = Append(seen, s[m + 1])
          BY <3>6, <4>2, <4>3
        <4>5. \A i \in 1..(m + 1) : i = m + 1 \/ i \in 1..m
          BY <4>1
        <4>6. Same(u[n + 1], m + 1)
          <5>1. Len(u[n + 1]) = m + 1 /\ u[n + 1][m + 1] = s[m + 1] /\ \A i \in 1..m : u[n + 1][i] = seen[i]
            BY <3>3, <3>4, <4>1, <4>4
          <5> QED BY <3>3, <4>5, <5>1
        <4> HIDE DEF Upto, Same
        <4> QED BY <3>2, <4>1, <4>6 DEF T
      <3> QED BY <3>8, <3>9
    <2>8. T \in SUBSET Nat
      BY <2>1
    <2>9. L \in T
      <3> HIDE DEF T, L
      <3> QED BY <2>1, <2>6, <2>7, <2>8, Climb
    <2>10. Upto(L) = N
      BY <2>1, <2>2
    <2>11. Same(u[L], N)
      <3> HIDE DEF Upto, Same
      <3> QED BY <2>9, <2>10
    <2>12. u[L] \in Seq(V)
      BY <2>1, <2>5, SMTT(30) DEF L
    <2> HIDE DEF T
    <2>13. u[L] = s
      BY <2>1, <2>11, <2>12 DEF N
    <2> QED BY <2>1, <2>5, <2>13 DEF L
  <1> QED BY <1>1, <1>2

-----------------------------------------------------------------------------
(* The shape of a file *)

\* fr is the free list: the free pages, and no other.
FreeTrue(f, fr) ==
    /\ Path(f, fr) /\ f.free = HeadOf(fr)
    /\ \A p \in DOMAIN f.pg : f.pg[p].kind = "free" <=> p \in ToSet(fr)

\* s is a chain of pages of the chat c.
ChatPath(f, c, s) ==
    /\ Path(f, s)
    /\ \A i \in DOMAIN s : f.pg[s[i]].kind = "chat" /\ f.pg[s[i]].chat = c

\* A hot page leads to hot pages only.
HotTrue(f) ==
    /\ HotRoot \in DOMAIN f.pg /\ f.pg[HotRoot].kind = "hot"
    /\ \A p \in DOMAIN f.pg :
          f.pg[p].kind = "hot" /\ f.pg[p].next # 0 => f.pg[f.pg[p].next].kind = "hot"

\* A hot key and its value.
Setting == Keys \X Vals

\* A chat page has messages of its chat, of the m that there are, and a hot page
\* has hot keys.
OwnPage(page, m) ==
    /\ page.kind = "chat" => \A i \in DOMAIN page.items : page.items[i] \in {page.chat} \X (1..m)
    /\ page.kind = "hot" => \A i \in DOMAIN page.items : page.items[i] \in Setting

\* The file f with the free list fr and the chains ch.
Shape(f, fr, ch, m) ==
    /\ f \in File
    /\ FreeTrue(f, fr)
    /\ \A c \in Chats : ChatPath(f, c, ch[c])
    /\ HotTrue(f)
    /\ \A p \in DOMAIN f.pg : OwnPage(f.pg[p], m)

\* A page is written over by one of its kind and chat.
LEMMA KeepShape ==
  ASSUME NEW f, NEW fr, NEW ch, NEW m \in Nat, Shape(f, fr, ch, m), NEW p \in DOMAIN f.pg, NEW page,
         page.kind = f.pg[p].kind, page.kind = "hot" \/ page.chat = f.pg[p].chat,
         \/ page.next = f.pg[p].next
         \/ page.kind = "hot" /\ (page.next = 0 \/ f.pg[page.next].kind = "hot"),
         OwnPage(page, m),
         NEW g \in File, Writes(g, f, p, page)
  PROVE  Shape(g, fr, ch, m)
  <1>1. /\ DOMAIN g.pg = DOMAIN f.pg /\ g.free = f.free
        /\ \A q \in DOMAIN f.pg : g.pg[q] = IF q = p THEN page ELSE f.pg[q]
    BY DEF Writes
  <1>2. /\ \A q \in DOMAIN f.pg : g.pg[q].kind = f.pg[q].kind
        /\ \A q \in DOMAIN f.pg : f.pg[q].kind # "hot" => g.pg[q].next = f.pg[q].next /\ g.pg[q].chat = f.pg[q].chat
    BY <1>1
  <1>3. FreeTrue(g, fr)
    <2>1. \A i \in DOMAIN fr : fr[i] \in DOMAIN f.pg /\ f.pg[fr[i]].kind = "free"
      BY DEF Shape, FreeTrue, Path, ToSet
    <2>2. Path(g, fr)
      BY <1>1, <1>2, <2>1, PathKept DEF Shape, FreeTrue
    <2> QED BY <1>1, <1>2, <2>2 DEF Shape, FreeTrue
  <1>4. ASSUME NEW c \in Chats
        PROVE  ChatPath(g, c, ch[c])
    <2>1. Path(f, ch[c]) /\ \A i \in DOMAIN ch[c] : ch[c][i] \in DOMAIN f.pg /\ f.pg[ch[c][i]].kind = "chat" /\ f.pg[ch[c][i]].chat = c
      BY DEF Shape, ChatPath, Path
    <2>2. Path(g, ch[c])
      BY <1>1, <1>2, <2>1, PathKept
    <2> QED BY <1>2, <2>1, <2>2, SMTT(30) DEF ChatPath
  <1>5. HotTrue(g)
    <2>1. \A q \in DOMAIN f.pg : f.pg[q].next # 0 => f.pg[q].next \in DOMAIN f.pg
      BY FileFacts DEF Shape
    <2>2. \A q \in DOMAIN g.pg : g.pg[q].next # 0 => g.pg[q].next \in DOMAIN g.pg
      BY FileFacts
    <2>3. ASSUME NEW q \in DOMAIN g.pg, g.pg[q].kind = "hot", g.pg[q].next # 0
          PROVE  g.pg[g.pg[q].next].kind = "hot"
      <3>1. CASE g.pg[q].next = f.pg[q].next
        BY <1>1, <1>2, <2>1, <2>3, <3>1 DEF Shape, HotTrue
      <3>2. CASE g.pg[q].next # f.pg[q].next
        <4>1. q = p /\ f.pg[page.next].kind = "hot" /\ g.pg[q].next = page.next
          BY <1>1, <2>3, <3>2
        <4> QED BY <1>1, <1>2, <2>2, <2>3, <4>1
      <3> QED BY <3>1, <3>2
    <2> QED BY <1>1, <1>2, <2>3 DEF Shape, HotTrue
  <1>6. \A q \in DOMAIN g.pg : OwnPage(g.pg[q], m)
    BY <1>1 DEF Shape
  <1> QED BY <1>3, <1>4, <1>5, <1>6 DEF Shape

\* The free list without its head.
Popped(fr) == IF fr = <<>> THEN <<>> ELSE Tail(fr)

\* A page is taken from the free list.
LEMMA TakeShape ==
  ASSUME NEW f, NEW fr, NEW ch, NEW m \in Nat, Shape(f, fr, ch, m),
         NEW page, page.kind \in {"chat", "hot"}, page.next = 0, page.items = <<>>,
         NEW g, Takes(g, f, page)
  PROVE  /\ Shape(g, Popped(fr), ch, m)
         /\ \A c \in Chats : Allocated(f) \notin ToSet(ch[c])
         /\ Allocated(f) # 0 /\ Allocated(f) \in DOMAIN f.pg => f.pg[Allocated(f)].kind = "free"
         /\ fr # <<>> => Len(g.pg) = Len(f.pg)
  <1> DEFINE new == Allocated(f)
  <1>1. /\ f \in File /\ g \in File /\ f.free \in Nat /\ DOMAIN f.pg = 1..Len(f.pg) /\ Len(f.pg) \in Nat
        /\ Path(f, fr) /\ f.free = HeadOf(fr)
    BY FileFacts DEF Shape, Takes, FreeTrue
  <1>2. fr \in Seq(DOMAIN f.pg) /\ \A i \in DOMAIN fr : fr[i] \in DOMAIN f.pg /\ fr[i] # 0
    BY <1>1 DEF Path
  <1>3. IF fr = <<>> THEN f.free = 0 /\ new = Len(f.pg) + 1 /\ new \notin DOMAIN f.pg
        ELSE f.free > 0 /\ f.free = fr[1] /\ new = fr[1] /\ new \in DOMAIN f.pg /\ new \in ToSet(fr)
    <2>1. CASE fr = <<>>
      BY <1>1, <2>1 DEF HeadOf, Allocated
    <2>2. CASE fr # <<>>
      <3>1. 1 \in DOMAIN fr
        BY <1>2, <2>2
      <3> QED BY <1>1, <1>2, <2>2, <3>1 DEF HeadOf, Allocated, ToSet
    <2> QED BY <2>1, <2>2
  <1>4. new \in DOMAIN f.pg => f.pg[new].kind = "free"
    BY <1>3 DEF Shape, FreeTrue
  <1>5. /\ new \in DOMAIN g.pg /\ g.pg[new] = page
        /\ \A q \in DOMAIN f.pg : q \in DOMAIN g.pg /\ (q # new => g.pg[q] = f.pg[q])
        /\ \A q \in DOMAIN g.pg : q = new \/ q \in DOMAIN f.pg
    BY DEF Takes
  <1>6. \A c \in Chats : new \notin ToSet(ch[c])
    BY <1>4 DEF Shape, ChatPath, Path, ToSet
  <1>7. FreeTrue(g, Popped(fr))
    <2>1. CASE fr = <<>>
      <3>1. g.free = 0 /\ Popped(fr) = <<>>
        BY <1>3, <2>1 DEF Takes, Popped
      <3>2. Path(g, <<>>)
        BY DEF Path
      <3>3. ToSet(<<>>) = {}
        BY DEF ToSet
      <3>4. \A q \in DOMAIN f.pg : f.pg[q].kind # "free"
        BY <2>1, <3>3 DEF Shape, FreeTrue
      <3>5. \A q \in DOMAIN g.pg : g.pg[q].kind # "free"
        BY <1>5, <3>4
      <3> QED BY <3>1, <3>2, <3>3, <3>5 DEF FreeTrue, HeadOf
    <2>2. CASE fr # <<>>
      <3>1. Popped(fr) = Tail(fr) /\ g.free = f.pg[new].next
        BY <1>3, <2>2 DEF Takes, Popped
      <3>2. /\ new \notin ToSet(Tail(fr)) /\ ToSet(fr) = {new} \cup ToSet(Tail(fr))
            /\ Path(f, Tail(fr)) /\ f.pg[new].next = HeadOf(Tail(fr))
        BY <1>1, <1>3, <2>2, PathTail
      <3>3. \A i \in DOMAIN Tail(fr) : Tail(fr)[i] \in DOMAIN f.pg /\ Tail(fr)[i] # new
        BY <3>2 DEF Path, ToSet
      <3>4. Path(g, Tail(fr))
        BY <1>5, <3>2, <3>3, PathKept, ZenonT(90)
      <3>5. \A q \in DOMAIN g.pg : g.pg[q].kind = "free" <=> q \in ToSet(Tail(fr))
        BY <1>3, <1>5, <2>2, <3>2 DEF Shape, FreeTrue
      <3> QED BY <3>1, <3>2, <3>4, <3>5 DEF FreeTrue
    <2> QED BY <2>1, <2>2
  <1>8. ASSUME NEW c \in Chats
        PROVE  ChatPath(g, c, ch[c])
    <2>1. Path(f, ch[c]) /\ \A i \in DOMAIN ch[c] : ch[c][i] \in DOMAIN f.pg /\ ch[c][i] # new /\ f.pg[ch[c][i]].kind = "chat" /\ f.pg[ch[c][i]].chat = c
      BY <1>6 DEF Shape, ChatPath, Path, ToSet
    <2>2. Path(g, ch[c])
      BY <1>5, <2>1, PathKept
    <2> QED BY <1>5, <2>1, <2>2 DEF ChatPath
  <1>9. HotTrue(g)
    <2>1. HotRoot \in DOMAIN f.pg /\ f.pg[HotRoot].kind = "hot" /\ HotRoot # new
      BY <1>4 DEF Shape, HotTrue
    <2>2. \A q \in DOMAIN f.pg : f.pg[q].next # 0 => f.pg[q].next \in DOMAIN f.pg
      BY <1>1, FileFacts
    <2>3. ASSUME NEW q \in DOMAIN g.pg, g.pg[q].kind = "hot", g.pg[q].next # 0
          PROVE  g.pg[g.pg[q].next].kind = "hot"
      <3>1. q # new /\ q \in DOMAIN f.pg /\ g.pg[q] = f.pg[q]
        BY <1>5, <2>3
      <3>2. f.pg[f.pg[q].next].kind = "hot" /\ f.pg[q].next \in DOMAIN f.pg
        BY <2>2, <2>3, <3>1 DEF Shape, HotTrue
      <3>3. f.pg[q].next # new
        BY <1>4, <3>2
      <3> QED BY <1>5, <3>1, <3>2, <3>3
    <2> QED BY <1>5, <2>1, <2>3 DEF HotTrue
  <1>10. ASSUME NEW q \in DOMAIN g.pg
         PROVE  OwnPage(g.pg[q], m)
    BY <1>5 DEF Shape, OwnPage
  <1>11. fr # <<>> => Len(g.pg) = Len(f.pg)
    BY <1>3 DEF Takes
  <1> QED BY <1>1, <1>3, <1>4, <1>6, <1>7, <1>8, <1>9, <1>10, <1>11 DEF Shape

\* The chains with s for the chat c.
With(ch, c, s) == [d \in Chats |-> IF d = c THEN s ELSE ch[d]]

\* The head of a chat's chain goes to the free list.
LEMMA FreeShape ==
  ASSUME NEW f, NEW fr, NEW ch, NEW m \in Nat, Shape(f, fr, ch, m), NEW c \in Chats, ch[c] # <<>>
  PROVE  Shape(FreePage(f, ch[c][1]), <<ch[c][1]>> \o fr, With(ch, c, Tail(ch[c])), m)
  <1> DEFINE p == ch[c][1]
  <1> DEFINE r == Tail(ch[c])
  <1> DEFINE g == FreePage(f, p)
  <1> DEFINE gr == <<p>> \o fr
  <1>1. f \in File /\ Path(f, ch[c]) /\ Path(f, fr) /\ f.free = HeadOf(fr)
    BY DEF Shape, ChatPath, FreeTrue
  <1>2. /\ p \in DOMAIN f.pg /\ p \notin ToSet(r) /\ ToSet(ch[c]) = {p} \cup ToSet(r)
        /\ Path(f, r)
    BY <1>1, PathTail
  <1>3. f.pg[p].kind = "chat" /\ f.pg[p].chat = c
    <2>1. \E i \in DOMAIN ch[c] : ch[c][i] = p
      BY <1>2 DEF ToSet
    <2> QED BY <2>1 DEF Shape, ChatPath
  <1>4. /\ g \in File /\ g.free = p /\ DOMAIN g.pg = DOMAIN f.pg
        /\ g.pg[p].kind = "free" /\ g.pg[p].next = f.free
        /\ \A q \in DOMAIN f.pg : q # p => g.pg[q] = f.pg[q]
    <2> HIDE DEF p
    <2>1. /\ g \in File /\ g.free = p /\ DOMAIN g.pg = DOMAIN f.pg
          /\ \A q \in DOMAIN f.pg : g.pg[q] = IF q = p THEN [Blank("free") EXCEPT !.next = f.free] ELSE f.pg[q]
      BY <1>1, <1>2, FreeEffect
    <2> HIDE DEF g
    <2>2. g.pg[p] = [Blank("free") EXCEPT !.next = f.free]
      BY <1>2, <2>1
    <2>3. g.pg[p].kind = "free" /\ g.pg[p].next = f.free
      BY <2>2 DEF Blank
    <2> QED BY <2>1, <2>3
  <1>5. p \notin ToSet(fr)
    BY <1>2, <1>3 DEF Shape, FreeTrue
  <1> HIDE DEF p, g, r
  <1>6. Path(g, fr)
    <2>1. \A i \in DOMAIN fr : fr[i] \in DOMAIN f.pg /\ fr[i] # p
      BY <1>1, <1>5 DEF Path, ToSet
    <2> QED BY <1>1, <1>4, <2>1, PathKept
  <1>7. Path(g, gr) /\ HeadOf(gr) = p /\ ToSet(gr) = {p} \cup ToSet(fr)
    BY <1>1, <1>2, <1>4, <1>5, <1>6, PathPush
  <1> HIDE DEF gr
  <1>8. FreeTrue(g, gr)
    <2>1. \A q \in DOMAIN f.pg : f.pg[q].kind = "free" <=> q \in ToSet(fr)
      BY DEF Shape, FreeTrue
    <2>2. \A q \in DOMAIN g.pg : g.pg[q].kind = "free" <=> q \in ToSet(gr)
      BY <1>2, <1>3, <1>4, <1>7, <2>1
    <2> QED BY <1>4, <1>7, <2>2 DEF FreeTrue
  <1>9. ASSUME NEW d \in Chats
        PROVE  ChatPath(g, d, With(ch, c, r)[d])
    <2>1. CASE d = c
      <3>1. With(ch, c, r)[d] = r
        BY <2>1 DEF With
      <3>2. \A i \in DOMAIN r : r[i] \in DOMAIN f.pg /\ r[i] \in ToSet(ch[c]) /\ r[i] # p
        <4>1. r \in Seq(DOMAIN f.pg) /\ \A i \in DOMAIN r : r[i] \in ToSet(r)
          BY <1>2 DEF Path, ToSet
        <4>2. \A i \in DOMAIN r : r[i] \in DOMAIN f.pg
          BY <4>1
        <4> QED BY <1>2, <4>1, <4>2
      <3>3. \A q \in ToSet(ch[c]) : f.pg[q].kind = "chat" /\ f.pg[q].chat = c
        BY DEF Shape, ChatPath, ToSet
      <3>4. Path(g, r)
        BY <1>2, <1>4, <3>2, PathKept
      <3> QED BY <1>4, <2>1, <3>1, <3>2, <3>3, <3>4 DEF ChatPath
    <2>2. CASE d # c
      <3>1. With(ch, c, r)[d] = ch[d]
        BY <2>2 DEF With
      <3>2. \A i \in DOMAIN ch[d] : ch[d][i] \in DOMAIN f.pg /\ ch[d][i] # p /\ f.pg[ch[d][i]].kind = "chat" /\ f.pg[ch[d][i]].chat = d
        BY <1>3, <2>2 DEF Shape, ChatPath, Path
      <3>3. Path(g, ch[d])
        <4>1. Path(f, ch[d])
          BY DEF Shape, ChatPath
        <4> QED BY <1>4, <3>2, <4>1, PathKept
      <3> QED BY <1>4, <3>1, <3>2, <3>3 DEF ChatPath
    <2> QED BY <2>1, <2>2
  <1>10. HotTrue(g)
    <2>1. \A q \in DOMAIN f.pg : f.pg[q].next # 0 => f.pg[q].next \in DOMAIN f.pg
      BY <1>1, FileFacts
    <2>2. ASSUME NEW q \in DOMAIN g.pg, g.pg[q].kind = "hot", g.pg[q].next # 0
          PROVE  g.pg[g.pg[q].next].kind = "hot"
      <3>1. q # p /\ q \in DOMAIN f.pg /\ g.pg[q] = f.pg[q]
        BY <1>4, <2>2
      <3>2. f.pg[f.pg[q].next].kind = "hot" /\ f.pg[q].next \in DOMAIN f.pg
        BY <2>1, <2>2, <3>1 DEF Shape, HotTrue
      <3> QED BY <1>3, <1>4, <3>1, <3>2
    <2> QED BY <1>3, <1>4, <2>2 DEF Shape, HotTrue
  <1>11. ASSUME NEW q \in DOMAIN g.pg
         PROVE  OwnPage(g.pg[q], m)
    BY <1>4 DEF Shape, OwnPage
  <1>12. Shape(g, gr, With(ch, c, r), m)
    BY <1>4, <1>8, <1>9, <1>10, <1>11 DEF Shape
  <1> QED BY <1>12 DEF g, gr, p, r

\* A page of the chat is linked from the last of its chain.
LEMMA LinkShape ==
  ASSUME NEW f, NEW fr, NEW ch, NEW m \in Nat, Shape(f, fr, ch, m), NEW c \in Chats,
         NEW p \in DOMAIN f.pg, p \notin ToSet(ch[c]),
         f.pg[p].kind = "chat", f.pg[p].chat = c, f.pg[p].next = 0,
         NEW g \in File,
         IF ch[c] = <<>> THEN g = f
         ELSE Writes(g, f, LastOf(ch[c]), [f.pg[LastOf(ch[c])] EXCEPT !.next = p])
  PROVE  Shape(g, fr, With(ch, c, Append(ch[c], p)), m)
  <1> DEFINE s == ch[c]
  <1> DEFINE z == LastOf(s)
  <1>1. f \in File /\ Path(f, s) /\ s \in Seq(DOMAIN f.pg)
    BY DEF Shape, ChatPath, Path
  <1>2. s # <<>> => z \in DOMAIN f.pg /\ z \in ToSet(s) /\ f.pg[z].kind = "chat" /\ f.pg[z].chat = c
    <2>1. s # <<>> => Len(s) \in DOMAIN s /\ z = s[Len(s)]
      BY <1>1 DEF LastOf
    <2> QED BY <1>1, <2>1 DEF Shape, ChatPath, ToSet
  <1>3. /\ DOMAIN g.pg = DOMAIN f.pg /\ g.free = f.free
        /\ \A q \in DOMAIN f.pg : g.pg[q] = IF s # <<>> /\ q = z THEN [f.pg[z] EXCEPT !.next = p] ELSE f.pg[q]
    BY <1>2 DEF Writes
  <1>4. \A q \in DOMAIN f.pg : f.pg[q] \in Page /\ f.pg[q].next \in Nat
    BY <1>1, FileFacts, SMTT(30)
  <1> HIDE DEF s, z
  <1>5. \A q \in DOMAIN f.pg : /\ g.pg[q].kind = f.pg[q].kind /\ g.pg[q].chat = f.pg[q].chat
                               /\ g.pg[q].items = f.pg[q].items
                               /\ g.pg[q].next = IF s # <<>> /\ q = z THEN p ELSE f.pg[q].next
    BY <1>3, <1>4 DEF Page
  <1>6. FreeTrue(g, fr)
    <2>1. \A i \in DOMAIN fr : fr[i] \in DOMAIN f.pg /\ f.pg[fr[i]].kind = "free"
      BY DEF Shape, FreeTrue, Path, ToSet
    <2>2. \A i \in DOMAIN fr : g.pg[fr[i]].next = f.pg[fr[i]].next
      BY <1>2, <1>5, <2>1
    <2>3. Path(g, fr)
      BY <1>3, <2>2, PathKept DEF Shape, FreeTrue
    <2> QED BY <1>3, <1>5, <2>3 DEF Shape, FreeTrue
  <1>7. ASSUME NEW d \in Chats
        PROVE  ChatPath(g, d, With(ch, c, Append(s, p))[d])
    <2>1. CASE d = c
      <3>1. With(ch, c, Append(s, p))[d] = Append(s, p)
        BY <2>1 DEF With
      <3>2. Path(g, Append(s, p)) /\ ToSet(Append(s, p)) = ToSet(s) \cup {p}
        <4>1. p \notin ToSet(s)
          BY DEF s
        <4>2. /\ \A q \in DOMAIN f.pg : q \in DOMAIN g.pg
              /\ \A q \in DOMAIN f.pg : g.pg[q].next = IF s # <<>> /\ q = LastOf(s) THEN p ELSE f.pg[q].next
          BY <1>3, <1>5 DEF z
        <4>3. Extends(g, f, s, p)
          BY <1>1, <4>1, <4>2 DEF Extends
        <4> QED BY <4>3, PathAppend
      <3>3. \A q \in ToSet(s) : q \in DOMAIN f.pg /\ f.pg[q].kind = "chat" /\ f.pg[q].chat = c
        BY DEF Shape, ChatPath, ToSet, Path, s
      <3>4. \A i \in DOMAIN Append(s, p) : Append(s, p)[i] \in ToSet(s) \cup {p}
        BY <3>2 DEF ToSet
      <3> QED BY <1>5, <2>1, <3>1, <3>2, <3>3, <3>4 DEF ChatPath
    <2>2. CASE d # c
      <3>1. With(ch, c, Append(s, p))[d] = ch[d]
        BY <2>2 DEF With
      <3>2. Path(f, ch[d]) /\ \A i \in DOMAIN ch[d] : ch[d][i] \in DOMAIN f.pg /\ f.pg[ch[d][i]].kind = "chat" /\ f.pg[ch[d][i]].chat = d
        BY DEF Shape, ChatPath, Path
      <3>3. Path(g, ch[d])
        BY <1>2, <1>3, <1>5, <2>2, <3>2, PathKept
      <3> QED BY <1>5, <3>1, <3>2, <3>3 DEF ChatPath
    <2> QED BY <2>1, <2>2
  <1>8. HotTrue(g)
    <2>1. \A q \in DOMAIN f.pg : f.pg[q].next # 0 => f.pg[q].next \in DOMAIN f.pg
      BY <1>1, FileFacts, SMTT(30)
    <2>2. ASSUME NEW q \in DOMAIN g.pg, g.pg[q].kind = "hot", g.pg[q].next # 0
          PROVE  g.pg[g.pg[q].next].kind = "hot"
      <3>1. q \in DOMAIN f.pg /\ f.pg[q].kind = "hot" /\ g.pg[q].next = f.pg[q].next
        BY <1>2, <1>3, <1>5, <2>2
      <3> QED BY <1>5, <2>1, <2>2, <3>1 DEF Shape, HotTrue
    <2> QED BY <1>3, <1>5, <2>2 DEF Shape, HotTrue
  <1>9. ASSUME NEW q \in DOMAIN g.pg
        PROVE  OwnPage(g.pg[q], m)
    BY <1>3, <1>5 DEF Shape, OwnPage
  <1> QED BY <1>6, <1>7, <1>8, <1>9 DEF Shape, s

-----------------------------------------------------------------------------
(* The hot chain *)

\* The least number of a set.
LEMMA MinFacts ==
  ASSUME NEW T \in SUBSET Nat, T # {}
  PROVE  Min(T) \in T /\ \A y \in T : Min(T) <= y
  <1>1. PICK n \in T : TRUE
    OBVIOUS
  <1>2. PICK x \in T : \A y \in T : x <= y
    BY <1>1, LeastOf
  <1> QED BY <1>2, Zenon DEF Min

\* The place of the first page with room, or 0.
LEMMA FirstRoom ==
  ASSUME NEW f, NEW s, Len(s) \in Nat
  PROVE  \/ RoomAt(f, s) = 0 /\ \A i \in 1..Len(s) : ~Room(f.pg[s[i]])
         \/ RoomAt(f, s) \in 1..Len(s) /\ Room(f.pg[s[RoomAt(f, s)]]) /\ RoomAt(f, s) > 0
  <1> DEFINE I == {i \in 1..Len(s) : Room(f.pg[s[i]])}
  <1>1. RoomAt(f, s) = IF I # {} THEN Min(I) ELSE 0
    BY DEF RoomAt, SelectInSeq
  <1>2. CASE I = {}
    BY <1>1, <1>2
  <1>3. CASE I # {}
    <2>1. I \in SUBSET Nat
      OBVIOUS
    <2> HIDE DEF I
    <2>2. Min(I) \in I
      BY <1>3, <2>1, MinFacts
    <2>3. RoomAt(f, s) \in 1..Len(s) /\ Room(f.pg[s[RoomAt(f, s)]])
      BY <1>1, <1>3, <2>2 DEF I
    <2> QED BY <2>3
  <1> QED BY <1>2, <1>3

\* Of the pages that f has, only hot and free ones are others in g.
SameButHot(g, f) ==
    /\ \A q \in DOMAIN f.pg :
          /\ q \in DOMAIN g.pg
          /\ f.pg[q].kind = "chat" => g.pg[q] = f.pg[q]
          /\ f.pg[q].kind = "hot" => g.pg[q].kind = "hot"
    /\ \A q \in DOMAIN g.pg : g.pg[q].kind \in {"chat", "free"} =>
          q \in DOMAIN f.pg /\ f.pg[q].kind = g.pg[q].kind

\* Two changes to the hot pages are one.
LEMMA SameButHotTrans ==
  ASSUME NEW f, NEW g, NEW h, SameButHot(g, f), SameButHot(h, g)
  PROVE  SameButHot(h, f)
  BY DEF SameButHot

\* A hot page is written over.
LEMMA HotWrite ==
  ASSUME NEW f, NEW fr, NEW ch, NEW m \in Nat, Shape(f, fr, ch, m), NEW p \in DOMAIN f.pg,
         f.pg[p].kind = "hot", NEW page, page.kind = "hot",
         \A i \in DOMAIN page.items : page.items[i] \in Setting,
         page.next \in {0, f.pg[p].next} \/ f.pg[page.next].kind = "hot",
         NEW g \in File, Writes(g, f, p, page)
  PROVE  Shape(g, fr, ch, m) /\ SameButHot(g, f)
  <1>1. OwnPage(page, m)
    BY DEF OwnPage
  <1>2. Shape(g, fr, ch, m)
    BY <1>1, KeepShape
  <1>3. SameButHot(g, f)
    BY DEF Writes, SameButHot
  <1> QED BY <1>2, <1>3

\* The walk from a hot page meets hot pages only.
LEMMA HotWalk ==
  ASSUME NEW f, NEW fr, NEW ch, NEW m, Shape(f, fr, ch, m), NEW p \in DOMAIN f.pg, f.pg[p].kind = "hot"
  PROVE  /\ Chain(f, p) \in Seq(DOMAIN f.pg) /\ Len(Chain(f, p)) \in Nat \ {0}
         /\ DOMAIN Chain(f, p) = 1..Len(Chain(f, p))
         /\ \A i \in DOMAIN Chain(f, p) :
               Chain(f, p)[i] \in DOMAIN f.pg /\ f.pg[Chain(f, p)[i]].kind = "hot"
  <1> DEFINE V == {q \in DOMAIN f.pg : f.pg[q].kind = "hot"}
  <1>1. f \in File /\ Len(f.pg) \in Nat
    BY FileFacts DEF Shape
  <1>2. \A q \in V : f.pg[q].next \in V \cup {0}
    <2>1. \A q \in DOMAIN f.pg : f.pg[q].next # 0 => f.pg[q].next \in DOMAIN f.pg
      BY <1>1, FileFacts
    <2> QED BY <2>1 DEF Shape, HotTrue
  <1>3. V \in SUBSET (DOMAIN f.pg) /\ p \in V
    OBVIOUS
  <1> HIDE DEF V
  <1>4. PICK u \in [0..Len(f.pg) -> Seq(V) \ {<<>>}] : Chain(f, p) = u[Len(f.pg)]
    BY <1>1, <1>2, <1>3, ChainStages
  <1>5. Chain(f, p) \in Seq(V) \ {<<>>}
    BY <1>1, <1>4
  <1>6. /\ Len(Chain(f, p)) \in Nat \ {0} /\ DOMAIN Chain(f, p) = 1..Len(Chain(f, p))
        /\ \A i \in DOMAIN Chain(f, p) : Chain(f, p)[i] \in V
    BY <1>5
  <1>7. Chain(f, p) \in Seq(DOMAIN f.pg)
    BY <1>3, <1>5
  <1> QED BY <1>6, <1>7 DEF V

\* The elements of a list with one more.
LEMMA AppendSet ==
  ASSUME NEW S, NEW w \in Seq(S), NEW x \in S
  PROVE  Append(w, x) \in Seq(S) /\ ToSet(Append(w, x)) = ToSet(w) \cup {x}
  <1>1. PICK L \in Nat : L = Len(w) /\ DOMAIN w = 1..L
    OBVIOUS
  <1>2. /\ Append(w, x) \in Seq(S) /\ DOMAIN Append(w, x) = 1..(L + 1) /\ Append(w, x)[L + 1] = x
        /\ \A i \in 1..L : Append(w, x)[i] = w[i]
    BY <1>1
  <1>3. \A i \in 1..(L + 1) : i = L + 1 \/ i \in 1..L
    BY <1>1
  <1>4. L + 1 \in 1..(L + 1) /\ \A i \in 1..L : i \in 1..(L + 1)
    BY <1>1
  <1> QED BY <1>1, <1>2, <1>3, <1>4 DEF ToSet

\* What hot pages hold is held by a list of theirs with one more.
LEMMA SettingsMore ==
  ASSUME NEW w \in Seq(Tuple), \A i \in DOMAIN w : w[i] \in Setting, NEW x \in Setting
  PROVE  \A i \in DOMAIN Append(w, x) : Append(w, x)[i] \in Setting
  <1>1. x \in Tuple
    BY DEF Setting, Tuple
  <1>2. ToSet(Append(w, x)) = ToSet(w) \cup {x}
    BY <1>1, AppendSet
  <1> QED BY <1>2 DEF ToSet

\* A tuple goes to the hot chain.
LEMMA HotInsert ==
  ASSUME NEW f, NEW fr, NEW ch, NEW m \in Nat, Shape(f, fr, ch, m), NEW x \in Setting
  PROVE  /\ \E gr : Shape(InsertIntoChain(f, HotRoot, "hot", x), gr, ch, m)
         /\ SameButHot(InsertIntoChain(f, HotRoot, "hot", x), f)
  <1> DEFINE chain == Chain(f, HotRoot)
  <1> DEFINE at == RoomAt(f, chain)
  <1> DEFINE new == Allocated(f)
  <1> DEFINE a == Alloc(f, "hot")
  <1> DEFINE z == Last(chain)
  <1> DEFINE b == [a EXCEPT !.pg[z].next = new]
  <1> DEFINE g == IF at > 0 THEN Put(f, chain[at], x) ELSE Put(b, new, x)
  <1>1. g = InsertIntoChain(f, HotRoot, "hot", x)
    BY DEF InsertIntoChain
  <1>2. f \in File /\ HotRoot \in DOMAIN f.pg /\ f.pg[HotRoot].kind = "hot"
    BY DEF Shape, HotTrue
  <1>a. x \in Tuple
    BY DEF Setting, Tuple
  <1>3. /\ Len(chain) \in Nat \ {0} /\ DOMAIN chain = 1..Len(chain)
        /\ \A i \in DOMAIN chain : chain[i] \in DOMAIN f.pg /\ f.pg[chain[i]].kind = "hot"
    BY <1>2, HotWalk
  <1>4. \/ at = 0
        \/ at \in 1..Len(chain) /\ Room(f.pg[chain[at]]) /\ at > 0
    <2> HIDE DEF chain
    <2> QED BY <1>3, FirstRoom
  <1> HIDE DEF chain, at
  <1>5. CASE at \in 1..Len(chain) /\ Room(f.pg[chain[at]]) /\ at > 0
    <2>1. chain[at] \in DOMAIN f.pg /\ f.pg[chain[at]].kind = "hot" /\ g = Put(f, chain[at], x)
      BY <1>3, <1>5
    <2> DEFINE page == [f.pg[chain[at]] EXCEPT !.items = Append(@, x)]
    <2>2. g \in File /\ Writes(g, f, chain[at], page)
      BY <1>2, <1>a, <1>5, <2>1, PutEffect
    <2>3. /\ page.kind = "hot" /\ page.chat = f.pg[chain[at]].chat /\ page.next = f.pg[chain[at]].next
          /\ \A i \in DOMAIN page.items : page.items[i] \in Setting
      <3>1. f.pg[chain[at]] \in Page /\ f.pg[chain[at]].items \in Seq(Tuple)
        BY <1>2, <2>1, FileFacts, PageFacts
      <3>2. OwnPage(f.pg[chain[at]], m)
        BY <2>1 DEF Shape
      <3>3. \A i \in DOMAIN Append(f.pg[chain[at]].items, x) : Append(f.pg[chain[at]].items, x)[i] \in Setting
        BY <2>1, <3>1, <3>2, SettingsMore DEF OwnPage
      <3>4. page.kind = "hot" /\ page.chat = f.pg[chain[at]].chat /\ page.next = f.pg[chain[at]].next
            /\ page.items = Append(f.pg[chain[at]].items, x)
        BY <2>1, <3>1 DEF Page
      <3> QED BY <3>3, <3>4
    <2> HIDE DEF page, g
    <2>4. Shape(g, fr, ch, m) /\ SameButHot(g, f)
      BY <2>1, <2>2, <2>3, HotWrite
    <2> QED BY <1>1, <2>4 DEF g
  <1>6. CASE at = 0
    <2>1. g = Put(b, new, x)
      BY <1>6
    <2>2. Takes(a, f, Blank("hot"))
      BY <1>2, AllocEffect
    <2>3. /\ Blank("hot").kind = "hot" /\ Blank("hot").next = 0 /\ Blank("hot").items = <<>>
          /\ Blank("hot").chat = NoChat
      BY DEF Blank
    <2> HIDE DEF a, g
    <2>4. /\ Shape(a, Popped(fr), ch, m)
          /\ Allocated(f) # 0 /\ Allocated(f) \in DOMAIN f.pg => f.pg[Allocated(f)].kind = "free"
      BY <2>2, <2>3, TakeShape
    <2>5. SameButHot(a, f)
      BY <2>2, <2>3, <2>4, SMTT(30) DEF SameButHot, Takes
    <2>6. z \in DOMAIN f.pg /\ f.pg[z].kind = "hot" /\ z # 0
      <3>1. Len(chain) \in DOMAIN chain /\ z = chain[Len(chain)]
        BY <1>3 DEF Last
      <3>2. DOMAIN f.pg = 1..Len(f.pg)
        BY <1>2, FileFacts
      <3> QED BY <1>3, <3>1, <3>2
    <2>7. z \in DOMAIN a.pg /\ a.pg[z].kind = "hot" /\ z # new /\ a.pg[z] = f.pg[z]
      BY <2>2, <2>4, <2>5, <2>6 DEF SameButHot, Takes
    <2>8. new \in DOMAIN a.pg /\ a.pg[new] = Blank("hot") /\ a \in File
      BY <2>2 DEF Takes
    <2> HIDE DEF z, new
    <2> DEFINE page == [a.pg[z] EXCEPT !.next = new]
    <2>9. b \in File /\ Writes(b, a, z, page)
      BY <2>7, <2>8, LinkEffect
    <2>10. page.kind = "hot" /\ page.chat = a.pg[z].chat /\ page.next = new
           /\ \A i \in DOMAIN page.items : page.items[i] \in Setting
      <3>1. a.pg[z] \in Page
        BY <2>7, <2>8, FileFacts
      <3>2. OwnPage(a.pg[z], m)
        BY <2>4, <2>7 DEF Shape
      <3>3. page.kind = "hot" /\ page.chat = a.pg[z].chat /\ page.next = new /\ page.items = a.pg[z].items
        BY <2>7, <3>1 DEF Page
      <3> QED BY <2>7, <3>2, <3>3 DEF OwnPage
    <2> HIDE DEF b, page
    <2>11. Shape(b, Popped(fr), ch, m) /\ SameButHot(b, a)
      BY <2>3, <2>4, <2>7, <2>8, <2>9, <2>10, HotWrite
    <2>12. new \in DOMAIN b.pg /\ b.pg[new] = Blank("hot")
      BY <2>7, <2>8, <2>9 DEF Writes
    <2>13. Room(b.pg[new])
      BY <2>3, <2>12, PagesAssumption DEF Room
    <2> DEFINE last == [b.pg[new] EXCEPT !.items = Append(@, x)]
    <2>14. g \in File /\ Writes(g, b, new, last)
      BY <1>a, <2>1, <2>9, <2>12, <2>13, PutEffect
    <2>15. last.kind = "hot" /\ last.chat = b.pg[new].chat /\ last.next = b.pg[new].next
           /\ \A i \in DOMAIN last.items : last.items[i] \in Setting
      <3>1. b.pg[new] \in Page
        BY <2>9, <2>12, FileFacts
      <3>2. last.kind = "hot" /\ last.chat = b.pg[new].chat /\ last.next = b.pg[new].next /\ last.items = Append(<<>>, x)
        BY <2>3, <2>12, <3>1 DEF Page
      <3>3. Append(<<>>, x) = <<x>> /\ DOMAIN <<x>> = {1} /\ <<x>>[1] = x
        OBVIOUS
      <3> QED BY <3>2, <3>3
    <2> HIDE DEF last
    <2>16. Shape(g, Popped(fr), ch, m) /\ SameButHot(g, b)
      BY <2>3, <2>11, <2>12, <2>14, <2>15, HotWrite
    <2>17. SameButHot(g, f)
      BY <2>5, <2>11, <2>16, SameButHotTrans
    <2> QED BY <1>1, <2>16, <2>17 DEF g
  <1> QED BY <1>4, <1>5, <1>6

-----------------------------------------------------------------------------
(* The stages of the recursions over a list.  A lemma cannot take the step   *)
(* as a parameter, so there is one for each recursion of the model.         *)

\* u has the stages of the recursion.
GatherSteps(f, chain, u) ==
    u = [n \in 0..Len(chain) |-> IF n = 0 THEN <<>> ELSE u[n - 1] \o f.pg[chain[n]].items]

\* V is closed under the step.
GatherClosed(f, chain, V) ==
    /\ <<>> \in V[0]
    /\ \A n \in 1..Len(chain) : \A v \in V[n - 1] : v \o f.pg[chain[n]].items \in V[n]

\* u has them, each in V, and ends in the result.
GatherUpTo(f, chain, V, u) ==
    /\ Tuples(f, chain) = u[Len(chain)] /\ u[0] = <<>>
    /\ \A n \in 0..Len(chain) : u[n] \in V[n]
    /\ \A n \in 1..Len(chain) : u[n] = u[n - 1] \o f.pg[chain[n]].items

\* Tuples goes through V.
LEMMA GatherStages ==
  ASSUME NEW f, NEW chain, Len(chain) \in Nat, NEW V, GatherClosed(f, chain, V)
  PROVE  \E u : GatherUpTo(f, chain, V, u)
  <1> USE DEF GatherClosed
  <1> DEFINE N == Len(chain)
  <1> DEFINE a == <<>>
  <1> DEFINE W == UNION {V[n] : n \in 0..N}
  <1> DEFINE G == [nv \in (1..N) \X W |-> nv[2] \o f.pg[chain[nv[1]]].items]
  <1> HIDE DEF N
  <1>1. \A n \in 1..N : \A v \in V[n - 1] : v \in W /\ n - 1 \in 0..N /\ n # 0
    <2>1. \A n \in 1..N : n - 1 \in 0..N /\ n # 0
      BY SMTT(90) DEF N
    <2> QED BY <2>1
  <1> HIDE DEF W
  <1>2. \A n \in 1..N : \A v \in V[n - 1] : G[<<n, v>>] = v \o f.pg[chain[n]].items
    BY <1>1
  <1> HIDE DEF G, a
  <1>3. StaysIn(G, N, V) /\ a \in V[0] /\ N \in Nat
    BY <1>2, Zenon DEF StaysIn, N, a
  <1>4. \E u : GatherSteps(f, chain, u)
    <2>1. PICK h : Iterates(V, a, N, G, h)
      BY <1>3, Iterated
    <2>2. ASSUME NEW n \in 0..N
          PROVE  h[n] = IF n = 0 THEN a ELSE h[n - 1] \o f.pg[chain[n]].items
      <3>1. n # 0 => n \in 1..N /\ n - 1 \in 0..N
        BY <1>3
      <3> QED BY <1>2, <2>1, <3>1 DEF Iterates
    <2>3. h = [n \in 0..N |-> h[n]]
      BY <2>1 DEF Iterates
    <2>4. h = [n \in 0..N |-> IF n = 0 THEN a ELSE h[n - 1] \o f.pg[chain[n]].items]
      BY <2>2, <2>3
    <2> QED BY <2>4 DEF GatherSteps, N, a
  <1> DEFINE u == CHOOSE u : GatherSteps(f, chain, u)
  <1>5. GatherSteps(f, chain, u)
    BY <1>4
  <1>6. Tuples(f, chain) = u[N]
    BY Zenon DEF Tuples, GatherSteps, N
  <1> HIDE DEF u
  <1>7. u = [n \in 0..N |-> IF n = 0 THEN a ELSE u[n - 1] \o f.pg[chain[n]].items]
    BY <1>5 DEF GatherSteps, N, a
  <1>8. u[0] = a /\ \A n \in 1..N : u[n] = u[n - 1] \o f.pg[chain[n]].items
    <2>1. \A n \in 0..N : u[n] = IF n = 0 THEN a ELSE u[n - 1] \o f.pg[chain[n]].items
      BY <1>7
    <2>2. 0 \in 0..N /\ \A n \in 1..N : n \in 0..N /\ n # 0
      BY <1>3
    <2> QED BY <2>1, <2>2
  <1>9. Follows(V, a, N, G, u)
    <2>1. u = [n \in 0..N |-> u[n]]
      BY <1>7
    <2>2. \A n \in 1..N : u[n - 1] \in V[n - 1] => u[n] = G[<<n, u[n - 1]>>]
      BY <1>2, <1>8, Zenon
    <2> QED BY <1>8, <2>1, <2>2, Zenon DEF Follows
  <1>10. \A n \in 0..N : u[n] \in V[n]
    BY <1>3, <1>9, IteratedOnly
  <1> QED BY <1>6, <1>8, <1>10, Zenon DEF GatherUpTo, N, a

\* u has the stages of the recursion.
FreeSteps(f, chain, u) ==
    u = [n \in 0..Len(chain) |-> IF n = 0 THEN f ELSE FreePage(u[n - 1], chain[n])]

\* V is closed under the step.
FreeClosed(f, chain, V) ==
    /\ f \in V[0]
    /\ \A n \in 1..Len(chain) : \A v \in V[n - 1] : FreePage(v, chain[n]) \in V[n]

\* u has them, each in V, and ends in the result.
FreeUpTo(f, chain, V, u) ==
    /\ FreeAll(f, chain) = u[Len(chain)] /\ u[0] = f
    /\ \A n \in 0..Len(chain) : u[n] \in V[n]
    /\ \A n \in 1..Len(chain) : u[n] = FreePage(u[n - 1], chain[n])

\* FreeAll goes through V.
LEMMA FreeStages ==
  ASSUME NEW f, NEW chain, Len(chain) \in Nat, NEW V, FreeClosed(f, chain, V)
  PROVE  \E u : FreeUpTo(f, chain, V, u)
  <1> USE DEF FreeClosed
  <1> DEFINE N == Len(chain)
  <1> DEFINE a == f
  <1> DEFINE W == UNION {V[n] : n \in 0..N}
  <1> DEFINE G == [nv \in (1..N) \X W |-> FreePage(nv[2], chain[nv[1]])]
  <1> HIDE DEF N
  <1>1. \A n \in 1..N : \A v \in V[n - 1] : v \in W /\ n - 1 \in 0..N /\ n # 0
    <2>1. \A n \in 1..N : n - 1 \in 0..N /\ n # 0
      BY DEF N
    <2> QED BY <2>1
  <1> HIDE DEF W
  <1>2. \A n \in 1..N : \A v \in V[n - 1] : G[<<n, v>>] = FreePage(v, chain[n])
    BY <1>1
  <1> HIDE DEF G, a
  <1>3. StaysIn(G, N, V) /\ a \in V[0] /\ N \in Nat
    BY <1>2, Zenon DEF StaysIn, N, a
  <1>4. \E u : FreeSteps(f, chain, u)
    <2>1. PICK h : Iterates(V, a, N, G, h)
      BY <1>3, Iterated
    <2>2. ASSUME NEW n \in 0..N
          PROVE  h[n] = IF n = 0 THEN a ELSE FreePage(h[n - 1], chain[n])
      <3>1. n # 0 => n \in 1..N /\ n - 1 \in 0..N
        BY <1>3
      <3> QED BY <1>2, <2>1, <3>1 DEF Iterates
    <2>3. h = [n \in 0..N |-> h[n]]
      BY <2>1 DEF Iterates
    <2>4. h = [n \in 0..N |-> IF n = 0 THEN a ELSE FreePage(h[n - 1], chain[n])]
      BY <2>2, <2>3
    <2> QED BY <2>4 DEF FreeSteps, N, a
  <1> DEFINE u == CHOOSE u : FreeSteps(f, chain, u)
  <1>5. FreeSteps(f, chain, u)
    BY <1>4
  <1>6. FreeAll(f, chain) = u[N]
    BY Zenon DEF FreeAll, FreeSteps, N
  <1> HIDE DEF u
  <1>7. u = [n \in 0..N |-> IF n = 0 THEN a ELSE FreePage(u[n - 1], chain[n])]
    BY <1>5 DEF FreeSteps, N, a
  <1>8. u[0] = a /\ \A n \in 1..N : u[n] = FreePage(u[n - 1], chain[n])
    <2>1. \A n \in 0..N : u[n] = IF n = 0 THEN a ELSE FreePage(u[n - 1], chain[n])
      BY <1>7
    <2>2. 0 \in 0..N /\ \A n \in 1..N : n \in 0..N /\ n # 0
      BY <1>3
    <2> QED BY <2>1, <2>2
  <1>9. Follows(V, a, N, G, u)
    <2>1. u = [n \in 0..N |-> u[n]]
      BY <1>7
    <2>2. \A n \in 1..N : u[n - 1] \in V[n - 1] => u[n] = G[<<n, u[n - 1]>>]
      BY <1>2, <1>8, Zenon
    <2> QED BY <1>8, <2>1, <2>2, Zenon DEF Follows
  <1>10. \A n \in 0..N : u[n] \in V[n]
    BY <1>3, <1>9, IteratedOnly
  <1> QED BY <1>6, <1>8, <1>10, Zenon DEF FreeUpTo, N, a

\* u has the stages of the recursion.
ButSteps(tuples, k, u) ==
    u = [n \in 0..Len(tuples) |-> IF n = 0 THEN <<>> ELSE (IF tuples[n][1] = k THEN u[n - 1] ELSE Append(u[n - 1], tuples[n]))]

\* V is closed under the step.
ButClosed(tuples, k, V) ==
    /\ <<>> \in V[0]
    /\ \A n \in 1..Len(tuples) : \A v \in V[n - 1] : (IF tuples[n][1] = k THEN v ELSE Append(v, tuples[n])) \in V[n]

\* u has them, each in V, and ends in the result.
ButUpTo(tuples, k, V, u) ==
    /\ TuplesBut(tuples, k) = u[Len(tuples)] /\ u[0] = <<>>
    /\ \A n \in 0..Len(tuples) : u[n] \in V[n]
    /\ \A n \in 1..Len(tuples) : u[n] = (IF tuples[n][1] = k THEN u[n - 1] ELSE Append(u[n - 1], tuples[n]))

\* TuplesBut goes through V.
LEMMA ButStages ==
  ASSUME NEW tuples, NEW k, Len(tuples) \in Nat, NEW V, ButClosed(tuples, k, V)
  PROVE  \E u : ButUpTo(tuples, k, V, u)
  <1> USE DEF ButClosed
  <1> DEFINE N == Len(tuples)
  <1> DEFINE a == <<>>
  <1> DEFINE W == UNION {V[n] : n \in 0..N}
  <1> DEFINE G == [nv \in (1..N) \X W |-> (IF tuples[nv[1]][1] = k THEN nv[2] ELSE Append(nv[2], tuples[nv[1]]))]
  <1> HIDE DEF N
  <1>1. \A n \in 1..N : \A v \in V[n - 1] : v \in W /\ n - 1 \in 0..N /\ n # 0
    <2>1. \A n \in 1..N : n - 1 \in 0..N /\ n # 0
      BY DEF N
    <2> QED BY <2>1
  <1> HIDE DEF W
  <1>2. \A n \in 1..N : \A v \in V[n - 1] : G[<<n, v>>] = (IF tuples[n][1] = k THEN v ELSE Append(v, tuples[n]))
    BY <1>1
  <1> HIDE DEF G, a
  <1>3. StaysIn(G, N, V) /\ a \in V[0] /\ N \in Nat
    BY <1>2, Zenon DEF StaysIn, N, a
  <1>4. \E u : ButSteps(tuples, k, u)
    <2>1. PICK h : Iterates(V, a, N, G, h)
      BY <1>3, Iterated
    <2>2. ASSUME NEW n \in 0..N
          PROVE  h[n] = IF n = 0 THEN a ELSE (IF tuples[n][1] = k THEN h[n - 1] ELSE Append(h[n - 1], tuples[n]))
      <3>1. n # 0 => n \in 1..N /\ n - 1 \in 0..N
        BY <1>3
      <3> QED BY <1>2, <2>1, <3>1 DEF Iterates
    <2>3. h = [n \in 0..N |-> h[n]]
      BY <2>1 DEF Iterates
    <2>4. h = [n \in 0..N |-> IF n = 0 THEN a ELSE (IF tuples[n][1] = k THEN h[n - 1] ELSE Append(h[n - 1], tuples[n]))]
      BY <2>2, <2>3
    <2> QED BY <2>4 DEF ButSteps, N, a
  <1> DEFINE u == CHOOSE u : ButSteps(tuples, k, u)
  <1>5. ButSteps(tuples, k, u)
    BY <1>4
  <1>6. TuplesBut(tuples, k) = u[N]
    BY Zenon DEF TuplesBut, ButSteps, N
  <1> HIDE DEF u
  <1>7. u = [n \in 0..N |-> IF n = 0 THEN a ELSE (IF tuples[n][1] = k THEN u[n - 1] ELSE Append(u[n - 1], tuples[n]))]
    BY <1>5 DEF ButSteps, N, a
  <1>8. u[0] = a /\ \A n \in 1..N : u[n] = (IF tuples[n][1] = k THEN u[n - 1] ELSE Append(u[n - 1], tuples[n]))
    <2>1. \A n \in 0..N : u[n] = IF n = 0 THEN a ELSE (IF tuples[n][1] = k THEN u[n - 1] ELSE Append(u[n - 1], tuples[n]))
      BY <1>7
    <2>2. 0 \in 0..N /\ \A n \in 1..N : n \in 0..N /\ n # 0
      BY <1>3
    <2> QED BY <2>1, <2>2
  <1>9. Follows(V, a, N, G, u)
    <2>1. u = [n \in 0..N |-> u[n]]
      BY <1>7
    <2>2. \A n \in 1..N : u[n - 1] \in V[n - 1] => u[n] = G[<<n, u[n - 1]>>]
      BY <1>2, <1>8, Zenon
    <2> QED BY <1>8, <2>1, <2>2, Zenon DEF Follows
  <1>10. \A n \in 0..N : u[n] \in V[n]
    BY <1>3, <1>9, IteratedOnly
  <1> QED BY <1>6, <1>8, <1>10, Zenon DEF ButUpTo, N, a

\* u has the stages of the recursion.
ClearSteps(f, chain, u) ==
    u = [n \in 0..Len(chain) |-> IF n = 0 THEN f ELSE ClearPage(u[n - 1], chain[n])]

\* V is closed under the step.
ClearClosed(f, chain, V) ==
    /\ f \in V[0]
    /\ \A n \in 1..Len(chain) : \A v \in V[n - 1] : ClearPage(v, chain[n]) \in V[n]

\* u has them, each in V, and ends in the result.
ClearUpTo(f, chain, V, u) ==
    /\ ClearAll(f, chain) = u[Len(chain)] /\ u[0] = f
    /\ \A n \in 0..Len(chain) : u[n] \in V[n]
    /\ \A n \in 1..Len(chain) : u[n] = ClearPage(u[n - 1], chain[n])

\* ClearAll goes through V.
LEMMA ClearStages ==
  ASSUME NEW f, NEW chain, Len(chain) \in Nat, NEW V, ClearClosed(f, chain, V)
  PROVE  \E u : ClearUpTo(f, chain, V, u)
  <1> USE DEF ClearClosed
  <1> DEFINE N == Len(chain)
  <1> DEFINE a == f
  <1> DEFINE W == UNION {V[n] : n \in 0..N}
  <1> DEFINE G == [nv \in (1..N) \X W |-> ClearPage(nv[2], chain[nv[1]])]
  <1> HIDE DEF N
  <1>1. \A n \in 1..N : \A v \in V[n - 1] : v \in W /\ n - 1 \in 0..N /\ n # 0
    <2>1. \A n \in 1..N : n - 1 \in 0..N /\ n # 0
      BY DEF N
    <2> QED BY <2>1
  <1> HIDE DEF W
  <1>2. \A n \in 1..N : \A v \in V[n - 1] : G[<<n, v>>] = ClearPage(v, chain[n])
    BY <1>1
  <1> HIDE DEF G, a
  <1>3. StaysIn(G, N, V) /\ a \in V[0] /\ N \in Nat
    BY <1>2, Zenon DEF StaysIn, N, a
  <1>4. \E u : ClearSteps(f, chain, u)
    <2>1. PICK h : Iterates(V, a, N, G, h)
      BY <1>3, Iterated
    <2>2. ASSUME NEW n \in 0..N
          PROVE  h[n] = IF n = 0 THEN a ELSE ClearPage(h[n - 1], chain[n])
      <3>1. n # 0 => n \in 1..N /\ n - 1 \in 0..N
        BY <1>3
      <3> QED BY <1>2, <2>1, <3>1 DEF Iterates
    <2>3. h = [n \in 0..N |-> h[n]]
      BY <2>1 DEF Iterates
    <2>4. h = [n \in 0..N |-> IF n = 0 THEN a ELSE ClearPage(h[n - 1], chain[n])]
      BY <2>2, <2>3
    <2> QED BY <2>4 DEF ClearSteps, N, a
  <1> DEFINE u == CHOOSE u : ClearSteps(f, chain, u)
  <1>5. ClearSteps(f, chain, u)
    BY <1>4
  <1>6. ClearAll(f, chain) = u[N]
    BY Zenon DEF ClearAll, ClearSteps, N
  <1> HIDE DEF u
  <1>7. u = [n \in 0..N |-> IF n = 0 THEN a ELSE ClearPage(u[n - 1], chain[n])]
    BY <1>5 DEF ClearSteps, N, a
  <1>8. u[0] = a /\ \A n \in 1..N : u[n] = ClearPage(u[n - 1], chain[n])
    <2>1. \A n \in 0..N : u[n] = IF n = 0 THEN a ELSE ClearPage(u[n - 1], chain[n])
      BY <1>7
    <2>2. 0 \in 0..N /\ \A n \in 1..N : n \in 0..N /\ n # 0
      BY <1>3
    <2> QED BY <2>1, <2>2
  <1>9. Follows(V, a, N, G, u)
    <2>1. u = [n \in 0..N |-> u[n]]
      BY <1>7
    <2>2. \A n \in 1..N : u[n - 1] \in V[n - 1] => u[n] = G[<<n, u[n - 1]>>]
      BY <1>2, <1>8, Zenon
    <2> QED BY <1>8, <2>1, <2>2, Zenon DEF Follows
  <1>10. \A n \in 0..N : u[n] \in V[n]
    BY <1>3, <1>9, IteratedOnly
  <1> QED BY <1>6, <1>8, <1>10, Zenon DEF ClearUpTo, N, a

\* u has the stages of the recursion.
FillSteps(f, tuples, u) ==
    u = [n \in 0..Len(tuples) |-> IF n = 0 THEN f ELSE InsertIntoChain(u[n - 1], HotRoot, "hot", tuples[n])]

\* V is closed under the step.
FillClosed(f, tuples, V) ==
    /\ f \in V[0]
    /\ \A n \in 1..Len(tuples) : \A v \in V[n - 1] : InsertIntoChain(v, HotRoot, "hot", tuples[n]) \in V[n]

\* u has them, each in V, and ends in the result.
FillUpTo(f, tuples, V, u) ==
    /\ InsertAll(f, tuples) = u[Len(tuples)] /\ u[0] = f
    /\ \A n \in 0..Len(tuples) : u[n] \in V[n]
    /\ \A n \in 1..Len(tuples) : u[n] = InsertIntoChain(u[n - 1], HotRoot, "hot", tuples[n])

\* InsertAll goes through V.
LEMMA FillStages ==
  ASSUME NEW f, NEW tuples, Len(tuples) \in Nat, NEW V, FillClosed(f, tuples, V)
  PROVE  \E u : FillUpTo(f, tuples, V, u)
  <1> USE DEF FillClosed
  <1> DEFINE N == Len(tuples)
  <1> DEFINE a == f
  <1> DEFINE W == UNION {V[n] : n \in 0..N}
  <1> DEFINE G == [nv \in (1..N) \X W |-> InsertIntoChain(nv[2], HotRoot, "hot", tuples[nv[1]])]
  <1> HIDE DEF N
  <1>1. \A n \in 1..N : \A v \in V[n - 1] : v \in W /\ n - 1 \in 0..N /\ n # 0
    <2>1. \A n \in 1..N : n - 1 \in 0..N /\ n # 0
      BY DEF N
    <2> QED BY <2>1
  <1> HIDE DEF W
  <1>2. \A n \in 1..N : \A v \in V[n - 1] : G[<<n, v>>] = InsertIntoChain(v, HotRoot, "hot", tuples[n])
    BY <1>1
  <1> HIDE DEF G, a
  <1>3. StaysIn(G, N, V) /\ a \in V[0] /\ N \in Nat
    BY <1>2, Zenon DEF StaysIn, N, a
  <1>4. \E u : FillSteps(f, tuples, u)
    <2>1. PICK h : Iterates(V, a, N, G, h)
      BY <1>3, Iterated
    <2>2. ASSUME NEW n \in 0..N
          PROVE  h[n] = IF n = 0 THEN a ELSE InsertIntoChain(h[n - 1], HotRoot, "hot", tuples[n])
      <3>1. n # 0 => n \in 1..N /\ n - 1 \in 0..N
        BY <1>3
      <3> QED BY <1>2, <2>1, <3>1 DEF Iterates
    <2>3. h = [n \in 0..N |-> h[n]]
      BY <2>1 DEF Iterates
    <2>4. h = [n \in 0..N |-> IF n = 0 THEN a ELSE InsertIntoChain(h[n - 1], HotRoot, "hot", tuples[n])]
      BY <2>2, <2>3
    <2> QED BY <2>4 DEF FillSteps, N, a
  <1> DEFINE u == CHOOSE u : FillSteps(f, tuples, u)
  <1>5. FillSteps(f, tuples, u)
    BY <1>4
  <1>6. InsertAll(f, tuples) = u[N]
    BY Zenon DEF InsertAll, FillSteps, N
  <1> HIDE DEF u
  <1>7. u = [n \in 0..N |-> IF n = 0 THEN a ELSE InsertIntoChain(u[n - 1], HotRoot, "hot", tuples[n])]
    BY <1>5 DEF FillSteps, N, a
  <1>8. u[0] = a /\ \A n \in 1..N : u[n] = InsertIntoChain(u[n - 1], HotRoot, "hot", tuples[n])
    <2>1. \A n \in 0..N : u[n] = IF n = 0 THEN a ELSE InsertIntoChain(u[n - 1], HotRoot, "hot", tuples[n])
      BY <1>7
    <2>2. 0 \in 0..N /\ \A n \in 1..N : n \in 0..N /\ n # 0
      BY <1>3
    <2> QED BY <2>1, <2>2
  <1>9. Follows(V, a, N, G, u)
    <2>1. u = [n \in 0..N |-> u[n]]
      BY <1>7
    <2>2. \A n \in 1..N : u[n - 1] \in V[n - 1] => u[n] = G[<<n, u[n - 1]>>]
      BY <1>2, <1>8, Zenon
    <2> QED BY <1>8, <2>1, <2>2, Zenon DEF Follows
  <1>10. \A n \in 0..N : u[n] \in V[n]
    BY <1>3, <1>9, IteratedOnly
  <1> QED BY <1>6, <1>8, <1>10, Zenon DEF FillUpTo, N, a

\* u has the stages of the recursion.
RewriteSteps(f, c, kept, u) ==
    u = [n \in 0..Len(kept) |-> IF n = 0 THEN [f |-> AllocFor(f, c), cur |-> Allocated(f), index |-> {}] ELSE Rewrite(u[n - 1], c, kept[n])]

\* V is closed under the step.
RewriteClosed(f, c, kept, V) ==
    /\ [f |-> AllocFor(f, c), cur |-> Allocated(f), index |-> {}] \in V[0]
    /\ \A n \in 1..Len(kept) : \A v \in V[n - 1] : Rewrite(v, c, kept[n]) \in V[n]

\* u has them, each in V, and ends in the result.
RewriteUpTo(f, c, kept, V, u) ==
    /\ Rewritten(f, c, kept) = u[Len(kept)] /\ u[0] = [f |-> AllocFor(f, c), cur |-> Allocated(f), index |-> {}]
    /\ \A n \in 0..Len(kept) : u[n] \in V[n]
    /\ \A n \in 1..Len(kept) : u[n] = Rewrite(u[n - 1], c, kept[n])

\* Rewritten goes through V.
LEMMA RewriteStages ==
  ASSUME NEW f, NEW c, NEW kept, Len(kept) \in Nat, NEW V, RewriteClosed(f, c, kept, V)
  PROVE  \E u : RewriteUpTo(f, c, kept, V, u)
  <1> USE DEF RewriteClosed
  <1> DEFINE N == Len(kept)
  <1> DEFINE a == [f |-> AllocFor(f, c), cur |-> Allocated(f), index |-> {}]
  <1> DEFINE W == UNION {V[n] : n \in 0..N}
  <1> DEFINE G == [nv \in (1..N) \X W |-> Rewrite(nv[2], c, kept[nv[1]])]
  <1> HIDE DEF N
  <1>1. \A n \in 1..N : \A v \in V[n - 1] : v \in W /\ n - 1 \in 0..N /\ n # 0
    <2>1. \A n \in 1..N : n - 1 \in 0..N /\ n # 0
      BY DEF N
    <2> QED BY <2>1
  <1> HIDE DEF W
  <1>2. \A n \in 1..N : \A v \in V[n - 1] : G[<<n, v>>] = Rewrite(v, c, kept[n])
    BY <1>1
  <1> HIDE DEF G, a
  <1>3. StaysIn(G, N, V) /\ a \in V[0] /\ N \in Nat
    BY <1>2, Zenon DEF StaysIn, N, a
  <1>4. \E u : RewriteSteps(f, c, kept, u)
    <2>1. PICK h : Iterates(V, a, N, G, h)
      BY <1>3, Iterated
    <2>2. ASSUME NEW n \in 0..N
          PROVE  h[n] = IF n = 0 THEN a ELSE Rewrite(h[n - 1], c, kept[n])
      <3>1. n # 0 => n \in 1..N /\ n - 1 \in 0..N
        BY <1>3
      <3> QED BY <1>2, <2>1, <3>1 DEF Iterates
    <2>3. h = [n \in 0..N |-> h[n]]
      BY <2>1 DEF Iterates
    <2>4. h = [n \in 0..N |-> IF n = 0 THEN a ELSE Rewrite(h[n - 1], c, kept[n])]
      BY <2>2, <2>3
    <2> QED BY <2>4 DEF RewriteSteps, N, a
  <1> DEFINE u == CHOOSE u : RewriteSteps(f, c, kept, u)
  <1>5. RewriteSteps(f, c, kept, u)
    BY <1>4
  <1>6. Rewritten(f, c, kept) = u[N]
    BY Zenon DEF Rewritten, RewriteSteps, N
  <1> HIDE DEF u
  <1>7. u = [n \in 0..N |-> IF n = 0 THEN a ELSE Rewrite(u[n - 1], c, kept[n])]
    BY <1>5 DEF RewriteSteps, N, a
  <1>8. u[0] = a /\ \A n \in 1..N : u[n] = Rewrite(u[n - 1], c, kept[n])
    <2>1. \A n \in 0..N : u[n] = IF n = 0 THEN a ELSE Rewrite(u[n - 1], c, kept[n])
      BY <1>7
    <2>2. 0 \in 0..N /\ \A n \in 1..N : n \in 0..N /\ n # 0
      BY <1>3
    <2> QED BY <2>1, <2>2
  <1>9. Follows(V, a, N, G, u)
    <2>1. u = [n \in 0..N |-> u[n]]
      BY <1>7
    <2>2. \A n \in 1..N : u[n - 1] \in V[n - 1] => u[n] = G[<<n, u[n - 1]>>]
      BY <1>2, <1>8, Zenon
    <2> QED BY <1>8, <2>1, <2>2, Zenon DEF Follows
  <1>10. \A n \in 0..N : u[n] \in V[n]
    BY <1>3, <1>9, IteratedOnly
  <1> QED BY <1>6, <1>8, <1>10, Zenon DEF RewriteUpTo, N, a

-----------------------------------------------------------------------------
(* Setting and deleting a hot key *)

\* The tuples of the other keys, in their order.
LEMMA TuplesButFacts ==
  ASSUME NEW tuples \in Seq(Tuple), NEW k
  PROVE  /\ TuplesBut(tuples, k) \in Seq(Tuple) /\ Len(TuplesBut(tuples, k)) <= Len(tuples)
         /\ ToSet(TuplesBut(tuples, k)) = {x \in ToSet(tuples) : x[1] # k}
  <1> DEFINE N == Len(tuples)
  <1> DEFINE Others(n) == {tuples[i] : i \in {j \in 1..n : tuples[j][1] # k}}
  <1> DEFINE V == [n \in 0..N |-> {s \in Seq(Tuple) : Len(s) <= n /\ ToSet(s) = Others(n)}]
  <1>1. N \in Nat /\ DOMAIN tuples = 1..N
    OBVIOUS
  <1>2. \A n \in 0..N : V[n] = {s \in Seq(Tuple) : Len(s) <= n /\ ToSet(s) = Others(n)}
    OBVIOUS
  <1> HIDE DEF V
  <1>3. <<>> \in V[0]
    <2>1. 0 \in 0..N /\ <<>> \in Seq(Tuple) /\ Len(<<>>) <= 0 /\ ToSet(<<>>) = {} /\ Others(0) = {}
      BY <1>1 DEF ToSet
    <2> QED BY <1>2, <2>1
  <1>4. ASSUME NEW n \in 1..N, NEW s \in V[n - 1]
        PROVE  (IF tuples[n][1] = k THEN s ELSE Append(s, tuples[n])) \in V[n]
    <2>1. n \in 0..N /\ n - 1 \in 0..N /\ tuples[n] \in Tuple
      BY <1>1
    <2>2. s \in Seq(Tuple) /\ Len(s) <= n - 1 /\ ToSet(s) = Others(n - 1) /\ Len(s) \in Nat
      BY <1>2, <2>1, SMTT(30)
    <2>3. \A j \in 1..n : j = n \/ j \in 1..(n - 1)
      OBVIOUS
    <2>4. CASE tuples[n][1] = k
      <3>1. Others(n) = Others(n - 1)
        BY <2>3, <2>4
      <3> QED BY <1>2, <2>1, <2>2, <2>4, <3>1, SMTT(90)
    <2>5. CASE tuples[n][1] # k
      <3>1. Others(n) = Others(n - 1) \cup {tuples[n]}
        BY <2>3, <2>5
      <3>2. Append(s, tuples[n]) \in Seq(Tuple) /\ Len(Append(s, tuples[n])) <= n
        BY <2>1, <2>2
      <3>3. ToSet(Append(s, tuples[n])) = ToSet(s) \cup {tuples[n]}
        <4>1. \A i \in 1..(Len(s) + 1) : i = Len(s) + 1 \/ i \in 1..Len(s)
          BY <2>2
        <4>2. /\ DOMAIN Append(s, tuples[n]) = 1..(Len(s) + 1) /\ DOMAIN s = 1..Len(s)
              /\ Append(s, tuples[n])[Len(s) + 1] = tuples[n]
              /\ \A i \in 1..Len(s) : Append(s, tuples[n])[i] = s[i] /\ i \in 1..(Len(s) + 1)
              /\ Len(s) + 1 \in 1..(Len(s) + 1)
          BY <2>2
        <4> QED BY <4>1, <4>2 DEF ToSet
      <3> HIDE DEF Others
      <3> QED BY <1>2, <2>1, <2>2, <2>5, <3>1, <3>2, <3>3
    <2> QED BY <2>4, <2>5
  <1>5. TuplesBut(tuples, k) \in V[N]
    <2> HIDE DEF Others
    <2>1. ButClosed(tuples, k, V)
      BY <1>3, <1>4 DEF ButClosed
    <2>2. PICK u : ButUpTo(tuples, k, V, u)
      BY <1>1, <2>1, ButStages
    <2> QED BY <1>1, <2>2 DEF ButUpTo
  <1>6. TuplesBut(tuples, k) \in V[N] /\ N \in 0..N
    BY <1>1, <1>5
  <1>7. Others(N) = {x \in ToSet(tuples) : x[1] # k}
    BY <1>1 DEF ToSet
  <1> HIDE DEF Others
  <1> QED BY <1>2, <1>6, <1>7

\* The tuples of the first pages, page by page.
TuplesUpTo(f, s, u) ==
    /\ Tuples(f, s) = u[Len(s)] /\ u[0] = <<>>
    /\ \A n \in 0..Len(s) : u[n] \in Seq(Tuple)
    /\ \A n \in 1..Len(s) : u[n] = u[n - 1] \o f.pg[s[n]].items

\* The tuples of a chain.
LEMMA TuplesSeq ==
  ASSUME NEW f \in File, NEW s \in Seq(DOMAIN f.pg)
  PROVE  Tuples(f, s) \in Seq(Tuple) /\ \E u : TuplesUpTo(f, s, u)
  <1> DEFINE N == Len(s)
  <1> DEFINE V == [n \in 0..N |-> Seq(Tuple)]
  <1>1. N \in Nat /\ DOMAIN s = 1..N /\ \A n \in 1..N : f.pg[s[n]].items \in Seq(Tuple)
    BY FileFacts, PageFacts
  <1>2. \A n \in 0..N : V[n] = Seq(Tuple)
    OBVIOUS
  <1>3. 0 \in 0..N /\ N \in 0..N /\ \A n \in 1..N : n \in 0..N /\ n - 1 \in 0..N
    BY <1>1
  <1> HIDE DEF V, N
  <1>4. \A n \in 1..N : \A v \in V[n - 1] : v \o f.pg[s[n]].items \in V[n]
    <2> SUFFICES ASSUME NEW n \in 1..N, NEW v \in V[n - 1] PROVE v \o f.pg[s[n]].items \in V[n]
      OBVIOUS
    <2>1. v \in Seq(Tuple) /\ f.pg[s[n]].items \in Seq(Tuple)
      BY <1>1, <1>2, <1>3
    <2>2. v \o f.pg[s[n]].items \in Seq(Tuple)
      BY <2>1
    <2> QED BY <1>2, <1>3, <2>2
  <1>5. <<>> \in V[0]
    <2>1. <<>> \in Seq(Tuple)
      OBVIOUS
    <2> QED BY <1>2, <1>3, <2>1
  <1>6. GatherClosed(f, s, V) /\ Len(s) \in Nat
    BY <1>1, <1>4, <1>5, Zenon DEF GatherClosed, N
  <1>7. PICK u : GatherUpTo(f, s, V, u)
    BY <1>6, GatherStages
  <1>8. \A n \in 0..N : u[n] \in Seq(Tuple)
    BY <1>2, <1>7, Zenon DEF GatherUpTo, N
  <1>9. TuplesUpTo(f, s, u)
    BY <1>7, <1>8, Zenon DEF GatherUpTo, TuplesUpTo, N
  <1>10. Tuples(f, s) \in Seq(Tuple)
    BY <1>3, <1>8, <1>9, Zenon DEF TuplesUpTo, N
  <1> QED BY <1>9, <1>10

\* What is on the pages, and nothing else.
LEMMA TuplesSet ==
  ASSUME NEW f \in File, NEW s \in Seq(DOMAIN f.pg)
  PROVE  ToSet(Tuples(f, s)) = UNION {ToSet(f.pg[p].items) : p \in ToSet(s)}
  <1>1. PICK u : TuplesUpTo(f, s, u)
    BY TuplesSeq
  <1> DEFINE N == Len(s)
  <1> DEFINE On(n) == UNION {ToSet(f.pg[s[i]].items) : i \in 1..n}
  <1> DEFINE T == {n \in 0..N : ToSet(u[n]) = On(n)}
  <1>2. N \in Nat /\ DOMAIN s = 1..N /\ T \in SUBSET Nat
    OBVIOUS
  <1>3. 0 \in T
    <2>1. ToSet(<<>>) = {} /\ On(0) = {}
      BY DEF ToSet
    <2> QED BY <1>1, <1>2, <2>1 DEF TuplesUpTo
  <1>4. ASSUME NEW n \in 0..(N - 1), n \in T
        PROVE  n + 1 \in T
    <2> DEFINE v == u[n]
    <2> DEFINE w == f.pg[s[n + 1]].items
    <2>1. n + 1 \in 1..N /\ (n + 1) - 1 = n /\ n \in 0..N /\ n + 1 \in 0..N
      BY <1>2
    <2>2. u[n + 1] = v \o w /\ v \in Seq(Tuple) /\ w \in Seq(Tuple)
      <3>1. u[n + 1] = u[(n + 1) - 1] \o f.pg[s[n + 1]].items
        BY <1>1, <2>1 DEF TuplesUpTo
      <3>2. v \in Seq(Tuple)
        BY <1>1, <2>1 DEF TuplesUpTo
      <3>3. w \in Seq(Tuple)
        BY <1>2, <2>1, FileFacts, PageFacts
      <3> QED BY <2>1, <3>1, <3>2, <3>3
    <2>3. ToSet(v \o w) = ToSet(v) \cup ToSet(w)
      <3> HIDE DEF v, w
      <3>1. /\ Len(v) \in Nat /\ Len(w) \in Nat /\ DOMAIN v = 1..Len(v) /\ DOMAIN w = 1..Len(w)
            /\ DOMAIN (v \o w) = 1..(Len(v) + Len(w))
            /\ \A i \in 1..(Len(v) + Len(w)) : (v \o w)[i] = IF i <= Len(v) THEN v[i] ELSE w[i - Len(v)]
        BY <2>2
      <3>2. /\ \A i \in 1..(Len(v) + Len(w)) : IF i <= Len(v) THEN i \in 1..Len(v) ELSE i - Len(v) \in 1..Len(w)
            /\ \A i \in 1..Len(v) : i \in 1..(Len(v) + Len(w)) /\ i <= Len(v)
            /\ \A i \in 1..Len(w) : i + Len(v) \in 1..(Len(v) + Len(w)) /\ ~(i + Len(v) <= Len(v)) /\ (i + Len(v)) - Len(v) = i
        BY <3>1
      <3>3. ToSet(v \o w) \subseteq ToSet(v) \cup ToSet(w)
        BY <3>1, <3>2 DEF ToSet
      <3>4. ToSet(v) \subseteq ToSet(v \o w)
        BY <3>1, <3>2 DEF ToSet
      <3>5. ToSet(w) \subseteq ToSet(v \o w)
        BY <3>1, <3>2 DEF ToSet
      <3> QED BY <3>3, <3>4, <3>5
    <2>4. On(n + 1) = On(n) \cup ToSet(w)
      <3>1. \A i \in 1..(n + 1) : i = n + 1 \/ i \in 1..n
        BY <2>1
      <3>2. n + 1 \in 1..(n + 1) /\ \A i \in 1..n : i \in 1..(n + 1)
        BY <2>1
      <3> QED BY <3>1, <3>2
    <2>5. ToSet(v) = On(n)
      BY <1>4
    <2> HIDE DEF On, v, w
    <2> QED BY <2>1, <2>2, <2>3, <2>4, <2>5
  <1>5. N \in T
    <2> HIDE DEF T, N
    <2> QED BY <1>2, <1>3, <1>4, Climb
  <1>6. On(N) = UNION {ToSet(f.pg[p].items) : p \in ToSet(s)}
    BY <1>2 DEF ToSet
  <1> HIDE DEF On
  <1> QED BY <1>1, <1>5, <1>6 DEF TuplesUpTo

\* Clearing hot pages leaves the chats alone.
LEMMA ClearAllEffect ==
  ASSUME NEW f, NEW fr, NEW ch, NEW m \in Nat, Shape(f, fr, ch, m),
         NEW s, Len(s) \in Nat,
         \A i \in 1..Len(s) : s[i] \in DOMAIN f.pg /\ f.pg[s[i]].kind = "hot"
  PROVE  Shape(ClearAll(f, s), fr, ch, m) /\ SameButHot(ClearAll(f, s), f)
  <1> DEFINE N == Len(s)
  <1> DEFINE W == {g \in File : Shape(g, fr, ch, m) /\ SameButHot(g, f)}
  <1> DEFINE V == [n \in 0..N |-> W]
  <1>1. f \in W
    BY DEF SameButHot, Shape
  <1>2. ASSUME NEW g \in W, NEW i \in 1..N
        PROVE  ClearPage(g, s[i]) \in W
    <2>1. g \in File /\ s[i] \in DOMAIN g.pg /\ g.pg[s[i]].kind = "hot"
      BY DEF SameButHot
    <2>2. Blank("hot") \in Page /\ Blank("hot").kind = "hot" /\ Blank("hot").next = 0 /\ Len(Blank("hot").items) <= Size("hot")
      BY BlankPage
    <2>3. Len(g.pg) \in Nat
      BY FileFacts
    <2>4. ClearPage(g, s[i]) \in File /\ Writes(ClearPage(g, s[i]), g, s[i], Blank("hot"))
      BY <2>1, <2>2, <2>3, WriteEffect, SMTT(30) DEF ClearPage
    <2>5. Shape(ClearPage(g, s[i]), fr, ch, m) /\ SameButHot(ClearPage(g, s[i]), g)
      <3>1. \A j \in DOMAIN Blank("hot").items : Blank("hot").items[j] \in Setting
        BY DEF Blank
      <3> QED BY <2>1, <2>2, <2>4, <3>1, HotWrite
    <2>6. SameButHot(ClearPage(g, s[i]), f)
      BY <2>5, SameButHotTrans
    <2> QED BY <2>4, <2>5, <2>6
  <1> HIDE DEF W, N
  <1>3. N \in Nat /\ 0 \in 0..N /\ N \in 0..N /\ \A n \in 1..N : n \in 0..N /\ n - 1 \in 0..N
    BY DEF N
  <1>4. \A n \in 0..N : V[n] = W
    OBVIOUS
  <1> HIDE DEF V
  <1>5. f \in V[0] /\ \A n \in 1..N : \A g \in V[n - 1] : ClearPage(g, s[n]) \in V[n]
    BY <1>1, <1>2, <1>3, <1>4
  <1>6. PICK u : ClearUpTo(f, s, V, u)
    <2>1. ClearClosed(f, s, V)
      BY <1>5 DEF ClearClosed, N
    <2> QED BY <2>1, ClearStages
  <1>7. ClearAll(f, s) \in W
    BY <1>3, <1>4, <1>6 DEF ClearUpTo, N
  <1> QED BY <1>7 DEF W

\* Filling the hot chain leaves the chats alone.
LEMMA InsertAllEffect ==
  ASSUME NEW f, NEW fr, NEW ch, NEW m \in Nat, Shape(f, fr, ch, m), NEW tuples \in Seq(Setting)
  PROVE  /\ \E gr : Shape(InsertAll(f, tuples), gr, ch, m)
         /\ SameButHot(InsertAll(f, tuples), f)
  <1> DEFINE N == Len(tuples)
  <1> DEFINE W == {g \in File : (\E gr : Shape(g, gr, ch, m)) /\ SameButHot(g, f)}
  <1> DEFINE V == [n \in 0..N |-> W]
  <1>1. f \in W
    BY DEF SameButHot, Shape
  <1>2. ASSUME NEW g \in W, NEW i \in 1..N
        PROVE  InsertIntoChain(g, HotRoot, "hot", tuples[i]) \in W
    <2>1. PICK gr : Shape(g, gr, ch, m)
      OBVIOUS
    <2>2. tuples[i] \in Setting
      OBVIOUS
    <2> DEFINE h == InsertIntoChain(g, HotRoot, "hot", tuples[i])
    <2>3. (\E hr : Shape(h, hr, ch, m)) /\ SameButHot(h, g)
      BY <2>1, <2>2, HotInsert
    <2> HIDE DEF h
    <2>4. h \in File
      BY <2>3 DEF Shape
    <2>5. SameButHot(h, f)
      BY <2>3, SameButHotTrans
    <2> QED BY <2>3, <2>4, <2>5 DEF h
  <1> HIDE DEF W, N
  <1>3. N \in Nat /\ 0 \in 0..N /\ N \in 0..N /\ \A n \in 1..N : n \in 0..N /\ n - 1 \in 0..N
    BY DEF N
  <1>4. \A n \in 0..N : V[n] = W
    OBVIOUS
  <1> HIDE DEF V
  <1>5. f \in V[0] /\ \A n \in 1..N : \A g \in V[n - 1] : InsertIntoChain(g, HotRoot, "hot", tuples[n]) \in V[n]
    BY <1>1, <1>2, <1>3, <1>4
  <1>6. PICK u : FillUpTo(f, tuples, V, u)
    <2>1. FillClosed(f, tuples, V) /\ Len(tuples) \in Nat
      BY <1>3, <1>5 DEF FillClosed, N
    <2> QED BY <2>1, FillStages
  <1>7. InsertAll(f, tuples) \in W
    BY <1>3, <1>4, <1>6 DEF FillUpTo, N
  <1> QED BY <1>7 DEF W

\* What is put back when a key is set.
LEMMA NewSettings ==
  ASSUME NEW f, NEW fr, NEW ch, NEW m \in Nat, Shape(f, fr, ch, m), NEW k \in Keys, NEW v \in Vals
  PROVE  Append(TuplesBut(Contents(f, HotRoot), k), <<k, v>>) \in Seq(Setting)
  <1> DEFINE chain == Chain(f, HotRoot)
  <1> DEFINE b == TuplesBut(Contents(f, HotRoot), k)
  <1>1. f \in File /\ HotRoot \in DOMAIN f.pg /\ f.pg[HotRoot].kind = "hot"
    BY DEF Shape, HotTrue
  <1>2. /\ chain \in Seq(DOMAIN f.pg) /\ Len(chain) \in Nat /\ DOMAIN chain = 1..Len(chain)
        /\ \A i \in DOMAIN chain : chain[i] \in DOMAIN f.pg /\ f.pg[chain[i]].kind = "hot"
    BY <1>1, HotWalk
  <1>3. Contents(f, HotRoot) \in Seq(Tuple)
    BY <1>1, <1>2, TuplesSeq DEF Contents
  <1>4. b \in Seq(Tuple) /\ ToSet(b) \subseteq ToSet(Contents(f, HotRoot))
    BY <1>3, TuplesButFacts
  <1>5. ToSet(Contents(f, HotRoot)) \subseteq Setting
    <2>1. ToSet(Contents(f, HotRoot)) = UNION {ToSet(f.pg[p].items) : p \in ToSet(chain)}
      BY <1>1, <1>2, TuplesSet DEF Contents
    <2>2. ASSUME NEW p \in ToSet(chain)
          PROVE  ToSet(f.pg[p].items) \subseteq Setting
      <3>1. p \in DOMAIN f.pg /\ f.pg[p].kind = "hot"
        BY <1>2 DEF ToSet
      <3>2. OwnPage(f.pg[p], m)
        BY <3>1 DEF Shape
      <3> QED BY <3>1, <3>2 DEF OwnPage, ToSet
    <2> HIDE DEF chain
    <2> QED BY <2>1, <2>2
  <1> HIDE DEF b
  <1>6. b \in Seq(Setting)
    <2>1. Len(b) \in Nat /\ DOMAIN b = 1..Len(b) /\ b = [i \in 1..Len(b) |-> b[i]]
      BY <1>4
    <2>2. \A i \in 1..Len(b) : b[i] \in Setting
      BY <1>4, <1>5, <2>1 DEF ToSet
    <2> QED BY <2>1, <2>2
  <1>7. <<k, v>> \in Setting
    BY DEF Setting
  <1>8. Append(b, <<k, v>>) \in Seq(Setting)
    BY <1>6, <1>7
  <1> QED BY <1>8 DEF b

\* Setting a hot key leaves the pages of the chats alone.
LEMMA WriteHotEffect ==
  ASSUME NEW f, NEW fr, NEW ch, NEW m \in Nat, Shape(f, fr, ch, m), NEW k \in Keys, NEW v \in Vals
  PROVE  /\ \E gr : Shape(WriteHot(f, k, v), gr, ch, m)
         /\ SameButHot(WriteHot(f, k, v), f)
  <1> DEFINE chain == Chain(f, HotRoot)
  <1> DEFINE g == ClearAll(f, chain)
  <1> DEFINE tuples == Append(TuplesBut(Contents(f, HotRoot), k), <<k, v>>)
  <1>1. f \in File /\ HotRoot \in DOMAIN f.pg /\ f.pg[HotRoot].kind = "hot"
    BY DEF Shape, HotTrue
  <1>2. /\ chain \in Seq(DOMAIN f.pg) /\ Len(chain) \in Nat /\ DOMAIN chain = 1..Len(chain)
        /\ \A i \in DOMAIN chain : chain[i] \in DOMAIN f.pg /\ f.pg[chain[i]].kind = "hot"
    BY <1>1, HotWalk
  <1>3. Shape(g, fr, ch, m) /\ SameButHot(g, f)
    BY <1>2, ClearAllEffect
  <1>5. tuples \in Seq(Setting)
    BY NewSettings
  <1>6. WriteHot(f, k, v) = InsertAll(g, tuples)
    BY DEF WriteHot
  <1> HIDE DEF g, tuples
  <1>7. /\ \E gr : Shape(InsertAll(g, tuples), gr, ch, m)
        /\ SameButHot(InsertAll(g, tuples), g)
    BY <1>3, <1>5, InsertAllEffect
  <1> QED BY <1>3, <1>6, <1>7, SameButHotTrans

\* So does deleting one.
LEMMA DeleteHotEffect ==
  ASSUME NEW f, NEW fr, NEW ch, NEW m \in Nat, Shape(f, fr, ch, m), NEW k \in Keys,
         NEW p \in DOMAIN f.pg, f.pg[p].kind = "hot"
  PROVE  /\ Shape(DeleteHot(f, k, p), fr, ch, m) /\ SameButHot(DeleteHot(f, k, p), f)
         /\ Len(DeleteHot(f, k, p).pg) = Len(f.pg)
  <1> DEFINE q == HotPage(f, k, p)
  <1>1. f \in File
    BY DEF Shape
  <1>2. CASE q = 0
    <2>1. DeleteHot(f, k, p) = f
      BY <1>2 DEF DeleteHot
    <2> QED BY <2>1 DEF SameButHot
  <1>3. CASE q # 0
    <2>1. q \in DOMAIN f.pg /\ f.pg[q].kind = "hot"
      <3> DEFINE chain == Chain(f, p)
      <3> DEFINE I == {i \in 1..Len(chain) : \E t \in ToSet(f.pg[chain[i]].items) : t[1] = k}
      <3>1. KeyAt(f, chain, k) = IF I # {} THEN Min(I) ELSE 0
        BY DEF KeyAt, SelectInSeq
      <3>2. q = IF KeyAt(f, chain, k) > 0 THEN chain[KeyAt(f, chain, k)] ELSE 0
        BY DEF HotPage
      <3>3. I \in SUBSET Nat /\ I \in SUBSET (1..Len(chain))
        OBVIOUS
      <3> HIDE DEF q, I
      <3>4. I # {}
        BY <1>3, <3>1, <3>2
      <3>5. Min(I) \in I
        BY <3>3, <3>4, MinFacts
      <3>6. KeyAt(f, chain, k) \in 1..Len(chain) /\ q = chain[KeyAt(f, chain, k)]
        BY <1>3, <3>1, <3>2, <3>3, <3>4, <3>5
      <3> HIDE DEF chain
      <3>7. DOMAIN chain = 1..Len(chain) /\ \A i \in DOMAIN chain : chain[i] \in DOMAIN f.pg /\ f.pg[chain[i]].kind = "hot"
        BY HotWalk DEF chain
      <3> QED BY <3>6, <3>7
    <2> DEFINE page == [Blank("hot") EXCEPT !.items = TuplesBut(f.pg[q].items, k)]
    <2>2. DeleteHot(f, k, p) = [f EXCEPT !.pg[q] = page]
      BY <1>3 DEF DeleteHot
    <2> HIDE DEF q
    <2>3. f.pg[q] \in Page /\ f.pg[q].items \in Seq(Tuple) /\ Len(f.pg[q].items) <= Size("hot") /\ Len(f.pg) \in Nat
      BY <1>1, <2>1, FileFacts, PageFacts
    <2>4. TuplesBut(f.pg[q].items, k) \in Seq(Tuple) /\ Len(TuplesBut(f.pg[q].items, k)) <= Size("hot")
      <3>1. TuplesBut(f.pg[q].items, k) \in Seq(Tuple) /\ Len(TuplesBut(f.pg[q].items, k)) <= Len(f.pg[q].items)
        BY <2>3, TuplesButFacts
      <3>2. Size("hot") \in Nat /\ Len(f.pg[q].items) \in Nat /\ Len(TuplesBut(f.pg[q].items, k)) \in Nat
        BY <2>3, <3>1, PagesAssumption, SMTT(30) DEF Size
      <3> QED BY <2>3, <3>1, <3>2, SMTT(30)
    <2>5. page = [kind |-> "hot", chat |-> NoChat, next |-> 0, items |-> TuplesBut(f.pg[q].items, k)]
      BY DEF Blank
    <2> HIDE DEF page
    <2>6. page \in Page /\ page.next = 0 /\ page.kind = "hot" /\ Len(page.items) <= Size(page.kind)
      BY <2>4, <2>5 DEF Page
    <2>7. [f EXCEPT !.pg[q] = page] \in File /\ Writes([f EXCEPT !.pg[q] = page], f, q, page)
      <3>1. page.next <= Len(f.pg) /\ page \in Page /\ Len(page.items) <= Size(page.kind)
        BY <2>3, <2>6
      <3>2. f \in File /\ q \in DOMAIN f.pg
        BY <1>1, <2>1
      <3> HIDE DEF page, q
      <3> QED BY <3>1, <3>2, WriteEffect
    <2>a. \A i \in DOMAIN page.items : page.items[i] \in Setting
      <3>1. ToSet(page.items) \subseteq ToSet(f.pg[q].items)
        BY <2>3, <2>5, TuplesButFacts
      <3>2. OwnPage(f.pg[q], m)
        BY <2>1 DEF Shape
      <3> QED BY <2>1, <3>1, <3>2 DEF ToSet, OwnPage
    <2>8. Shape(DeleteHot(f, k, p), fr, ch, m) /\ SameButHot(DeleteHot(f, k, p), f)
      BY <2>1, <2>2, <2>6, <2>7, <2>a, HotWrite
    <2> QED BY <2>2, <2>7, <2>8 DEF Writes
  <1> QED BY <1>2, <1>3

-----------------------------------------------------------------------------
(* The tuples of a chain *)

\* No page has no tuple.
LEMMA TuplesNone ==
  ASSUME NEW f
  PROVE  Tuples(f, <<>>) = <<>>
  <1> DEFINE V == [n \in 0..0 |-> {<<>>}]
  <1>1. Len(<<>>) = 0 /\ <<>> \in V[0] /\ V[0] = {<<>>} /\ \A n \in 1..0 : FALSE
    OBVIOUS
  <1> HIDE DEF V
  <1>2. Len(<<>>) \in Nat /\ GatherClosed(f, <<>>, V)
    BY <1>1 DEF GatherClosed
  <1>3. PICK u : GatherUpTo(f, <<>>, V, u)
    BY <1>2, GatherStages
  <1>4. Tuples(f, <<>>) = u[Len(<<>>)] /\ u[0] = <<>>
    BY <1>3, Zenon DEF GatherUpTo
  <1> QED BY <1>1, <1>4

\* Pages with the same tuples.
LEMMA TuplesSame ==
  ASSUME NEW f \in File, NEW s \in Seq(DOMAIN f.pg), NEW g,
         \A i \in DOMAIN s : g.pg[s[i]].items = f.pg[s[i]].items
  PROVE  Tuples(g, s) = Tuples(f, s)
  <1>1. PICK u : TuplesUpTo(f, s, u)
    BY TuplesSeq
  <1> DEFINE N == Len(s)
  <1> DEFINE V == [n \in 0..N |-> {u[n]}]
  <1>2. N \in Nat /\ DOMAIN s = 1..N
    OBVIOUS
  <1>3. \A n \in 0..N : V[n] = {u[n]}
    OBVIOUS
  <1>4. 0 \in 0..N /\ N \in 0..N /\ \A n \in 1..N : n \in 0..N /\ n - 1 \in 0..N
    BY <1>2
  <1> HIDE DEF V, N
  <1>5. <<>> \in V[0]
    BY <1>1, <1>3, <1>4 DEF TuplesUpTo
  <1>6. \A n \in 1..N : \A v \in V[n - 1] : v \o g.pg[s[n]].items \in V[n]
    <2> SUFFICES ASSUME NEW n \in 1..N, NEW v \in V[n - 1] PROVE v \o g.pg[s[n]].items \in V[n]
      OBVIOUS
    <2>1. v = u[n - 1] /\ g.pg[s[n]].items = f.pg[s[n]].items /\ u[n] = u[n - 1] \o f.pg[s[n]].items
      BY <1>1, <1>2, <1>3, <1>4 DEF TuplesUpTo, N
    <2> QED BY <1>3, <1>4, <2>1, ZenonT(30)
  <1>7. GatherClosed(g, s, V) /\ Len(s) \in Nat
    BY <1>2, <1>5, <1>6, Zenon DEF GatherClosed, N
  <1>a. PICK w : GatherUpTo(g, s, V, w)
    BY <1>7, GatherStages
  <1>8. Tuples(g, s) = u[N]
    BY <1>3, <1>4, <1>a, SMTT(30) DEF GatherUpTo, N
  <1> QED BY <1>1, <1>8 DEF TuplesUpTo, N

\* One page more.
LEMMA TuplesAppend ==
  ASSUME NEW f \in File, NEW s \in Seq(DOMAIN f.pg), NEW p \in DOMAIN f.pg
  PROVE  Tuples(f, Append(s, p)) = Tuples(f, s) \o f.pg[p].items
  <1>1. PICK u : TuplesUpTo(f, s, u)
    BY TuplesSeq
  <1> DEFINE t == Append(s, p)
  <1> DEFINE N == Len(s)
  <1> DEFINE w == [n \in 0..(N + 1) |-> IF n = N + 1 THEN u[N] \o f.pg[p].items ELSE u[n]]
  <1> DEFINE V == [n \in 0..(N + 1) |-> {w[n]}]
  <1>2. /\ N \in Nat /\ DOMAIN s = 1..N /\ Len(t) = N + 1 /\ t[N + 1] = p
        /\ \A i \in 1..N : t[i] = s[i]
    OBVIOUS
  <1>3. \A n \in 0..(N + 1) : V[n] = {w[n]}
    OBVIOUS
  <1>4. /\ 0 \in 0..(N + 1) /\ N + 1 \in 0..(N + 1)
        /\ \A n \in 1..(N + 1) : n \in 0..(N + 1) /\ n - 1 \in 0..(N + 1) /\ (n = N + 1 \/ n \in 1..N)
    BY <1>2
  <1>5. /\ w[0] = u[0] /\ w[N] = u[N] /\ w[N + 1] = u[N] \o f.pg[p].items
        /\ \A n \in 1..N : w[n] = u[n] /\ w[n - 1] = u[n - 1]
    <2>a. N \in Nat
      BY <1>2
    <2> HIDE DEF N, t, w, V
    <2>1. N + 1 # 0 /\ N \in 0..(N + 1) /\ N # N + 1 /\ 0 \in 0..(N + 1) /\ N + 1 \in 0..(N + 1)
      BY <2>a
    <2>2. \A n \in 1..N : n \in 0..(N + 1) /\ n # N + 1 /\ n - 1 \in 0..(N + 1) /\ n - 1 # N + 1
      BY <2>a
    <2> QED BY <2>1, <2>2 DEF w
  <1> HIDE DEF V, N, w, t
  <1>6. <<>> \in V[0]
    BY <1>1, <1>3, <1>4, <1>5 DEF TuplesUpTo
  <1>7. \A n \in 1..(N + 1) : \A v \in V[n - 1] : v \o f.pg[t[n]].items \in V[n]
    <2> SUFFICES ASSUME NEW n \in 1..(N + 1), NEW v \in V[n - 1] PROVE v \o f.pg[t[n]].items \in V[n]
      OBVIOUS
    <2>1. v = w[n - 1]
      BY <1>3, <1>4
    <2>2. CASE n = N + 1
      <3>1. n - 1 = N /\ n \in 0..(N + 1)
        BY <1>2, <2>2
      <3>2. w[n - 1] = u[N] /\ t[n] = p
        BY <1>2, <1>5, <2>2, <3>1
      <3>3. w[n] = u[N] \o f.pg[p].items
        BY <1>5, <2>2, Zenon
      <3>4. V[n] = {w[n]}
        BY <1>3, <3>1
      <3> QED BY <2>1, <3>2, <3>3, <3>4, Zenon
    <2>3. CASE n \in 1..N
      <3>1. u[n] = u[n - 1] \o f.pg[s[n]].items
        BY <1>1, <2>3, Zenon DEF TuplesUpTo, N
      <3>2. t[n] = s[n] /\ w[n] = u[n] /\ w[n - 1] = u[n - 1]
        BY <1>2, <1>5, <2>3
      <3>3. V[n] = {w[n]}
        BY <1>3, <1>4
      <3> QED BY <2>1, <3>1, <3>2, <3>3, Zenon
    <2> QED BY <1>4, <2>2, <2>3
  <1>8. Tuples(f, t) \in V[N + 1]
    <2>1. Len(t) = N + 1 /\ Len(t) \in Nat
      BY <1>2
    <2>2. GatherClosed(f, t, V)
      BY <1>6, <1>7, <2>1, Zenon DEF GatherClosed
    <2>3. PICK x : GatherUpTo(f, t, V, x)
      BY <2>1, <2>2, GatherStages
    <2> QED BY <1>4, <2>1, <2>3 DEF GatherUpTo
  <1>9. Tuples(f, t) = w[N + 1]
    BY <1>3, <1>4, <1>8
  <1> QED BY <1>1, <1>5, <1>9 DEF TuplesUpTo, N, t

\* A list is its front and its last element.
LEMMA FrontLast ==
  ASSUME NEW S, NEW s \in Seq(S), s # <<>>
  PROVE  /\ Front(s) \in Seq(S) /\ LastOf(s) \in S /\ LastOf(s) = s[Len(s)] /\ Len(s) \in DOMAIN s
         /\ s = Append(Front(s), LastOf(s)) /\ DOMAIN Front(s) = 1..(Len(s) - 1)
         /\ \A i \in DOMAIN Front(s) : Front(s)[i] = s[i] /\ i \in DOMAIN s /\ i # Len(s)
  <1>1. Len(s) \in Nat \ {0} /\ DOMAIN s = 1..Len(s)
    OBVIOUS
  <1>2. /\ Front(s) \in Seq(S) /\ Len(Front(s)) = Len(s) - 1 /\ DOMAIN Front(s) = 1..(Len(s) - 1)
        /\ \A i \in 1..(Len(s) - 1) : Front(s)[i] = s[i]
    BY <1>1 DEF Front
  <1>3. LastOf(s) = s[Len(s)] /\ LastOf(s) \in S
    BY <1>1 DEF LastOf
  <1>4. s = Append(Front(s), LastOf(s))
    <2> DEFINE r == Front(s)
    <2> DEFINE z == LastOf(s)
    <2> DEFINE t == Append(r, z)
    <2> HIDE DEF t
    <2>1. r \in Seq(S) /\ z \in S /\ Len(r) = Len(s) - 1 /\ z = s[Len(s)] /\ \A i \in 1..(Len(s) - 1) : r[i] = s[i]
      BY <1>2, <1>3
    <2> HIDE DEF r, z
    <2>2. t \in Seq(S) /\ Len(t) = Len(s)
      <3>1. t \in Seq(S) /\ Len(t) = Len(r) + 1
        BY <2>1 DEF t
      <3> QED BY <1>1, <2>1, <3>1
    <2>3. \A i \in 1..Len(s) : t[i] = s[i]
      BY <1>1, <2>1, SMTT(30) DEF t
    <2>4. t = s
      BY <2>2, <2>3
    <2> QED BY <2>4 DEF t, r, z
  <1>5. \A i \in DOMAIN Front(s) : Front(s)[i] = s[i] /\ i \in DOMAIN s /\ i # Len(s)
    BY <1>1, <1>2
  <1>6. Len(s) \in DOMAIN s
    BY <1>1
  <1> QED BY <1>2, <1>3, <1>4, <1>5, <1>6, Zenon

\* Kept whole for the provers.
Associates(s, t, x) == s \o Append(t, x) = Append(s \o t, x)

\* Appending to a concatenation.
LEMMA ConcatAppend ==
  ASSUME NEW S, NEW s \in Seq(S), NEW t \in Seq(S), NEW x \in S
  PROVE  Associates(s, t, x)
  <1> DEFINE a == s \o Append(t, x)
  <1> DEFINE b == Append(s \o t, x)
  <1>1. /\ Len(s) \in Nat /\ Len(t) \in Nat
        /\ Append(t, x) \in Seq(S) /\ Len(Append(t, x)) = Len(t) + 1
        /\ \A i \in 1..(Len(t) + 1) : Append(t, x)[i] = IF i = Len(t) + 1 THEN x ELSE t[i]
    OBVIOUS
  <1>2. /\ s \o t \in Seq(S) /\ Len(s \o t) = Len(s) + Len(t)
        /\ \A i \in 1..(Len(s) + Len(t)) : (s \o t)[i] = IF i <= Len(s) THEN s[i] ELSE t[i - Len(s)]
    BY <1>1
  <1>3. /\ a \in Seq(S) /\ Len(a) = Len(s) + (Len(t) + 1)
        /\ \A i \in 1..(Len(s) + (Len(t) + 1)) : a[i] = IF i <= Len(s) THEN s[i] ELSE Append(t, x)[i - Len(s)]
    BY <1>1, SMTT(30)
  <1>4. /\ b \in Seq(S) /\ Len(b) = Len(s) + Len(t) + 1
        /\ \A i \in 1..(Len(s) + Len(t) + 1) : b[i] = IF i = Len(s) + Len(t) + 1 THEN x ELSE (s \o t)[i]
    BY <1>1, <1>2
  <1> HIDE DEF a, b
  <1>5. ASSUME NEW i \in 1..(Len(s) + Len(t) + 1)
        PROVE  a[i] = b[i]
    <2>1. CASE i <= Len(s)
      BY <1>1, <1>2, <1>3, <1>4, <2>1, SMTT(30)
    <2>2. CASE i = Len(s) + Len(t) + 1
      BY <1>1, <1>2, <1>3, <1>4, <2>2
    <2>3. CASE ~(i <= Len(s)) /\ i # Len(s) + Len(t) + 1
      <3>1. i - Len(s) \in 1..(Len(t) + 1) /\ i - Len(s) # Len(t) + 1 /\ i \in 1..(Len(s) + Len(t))
        BY <1>1, <2>3, SMTT(30)
      <3> QED BY <1>1, <1>2, <1>3, <1>4, <2>3, <3>1
    <2> QED BY <2>1, <2>2, <2>3
  <1>6. a = b
    BY <1>1, <1>3, <1>4, <1>5, SMTT(30)
  <1> QED BY <1>6, Zenon DEF a, b, Associates

\* One tuple more on the last page.
LEMMA TuplesPut ==
  ASSUME NEW f \in File, NEW g \in File, NEW s \in Seq(DOMAIN f.pg), s # <<>>, DOMAIN g.pg = DOMAIN f.pg,
         \A i, j \in DOMAIN s : s[i] = s[j] => i = j, NEW x \in Tuple,
         g.pg[LastOf(s)].items = Append(f.pg[LastOf(s)].items, x),
         \A q \in DOMAIN f.pg : q # LastOf(s) => g.pg[q].items = f.pg[q].items
  PROVE  Tuples(g, s) = Append(Tuples(f, s), x)
  <1> DEFINE r == Front(s)
  <1> DEFINE z == LastOf(s)
  <1>1. /\ r \in Seq(DOMAIN f.pg) /\ z \in DOMAIN f.pg /\ s = Append(r, z)
        /\ \A i \in DOMAIN r : r[i] \in DOMAIN f.pg /\ r[i] # z
    <2>1. /\ r \in Seq(DOMAIN f.pg) /\ z \in DOMAIN f.pg /\ s = Append(r, z) /\ z = s[Len(s)]
          /\ Len(s) \in DOMAIN s /\ \A i \in DOMAIN r : r[i] = s[i] /\ i \in DOMAIN s /\ i # Len(s)
      BY FrontLast
    <2> HIDE DEF r, z
    <2> QED BY <2>1
  <1> HIDE DEF r, z
  <1>2. Tuples(g, r) = Tuples(f, r)
    BY <1>1, TuplesSame DEF z
  <1>3. Tuples(f, s) = Tuples(f, r) \o f.pg[z].items
    BY <1>1, TuplesAppend
  <1>4. Tuples(g, s) = Tuples(g, r) \o g.pg[z].items
    BY <1>1, TuplesAppend
  <1>5. Tuples(f, r) \in Seq(Tuple) /\ f.pg[z].items \in Seq(Tuple)
    BY <1>1, TuplesSeq, FileFacts, PageFacts
  <1>6. Tuples(f, r) \o Append(f.pg[z].items, x) = Append(Tuples(f, r) \o f.pg[z].items, x)
    <2> DEFINE a == Tuples(f, r)
    <2> DEFINE b == f.pg[z].items
    <2>1. a \in Seq(Tuple) /\ b \in Seq(Tuple)
      BY <1>5
    <2> HIDE DEF a, b
    <2>2. Associates(a, b, x)
      BY <2>1, ConcatAppend
    <2> QED BY <2>2, Zenon DEF a, b, Associates
  <1> QED BY <1>2, <1>3, <1>4, <1>6, SMTT(30) DEF z

-----------------------------------------------------------------------------
(* The pages of a chat *)

\* A page of the chat with nothing on it.
ChatPage(c) == [Blank("chat") EXCEPT !.chat = c]

\* A fresh page of a chat.
LEMMA ChatPageFacts ==
  ASSUME NEW c \in Chats
  PROVE  /\ ChatPage(c) \in Page /\ ChatPage(c).kind = "chat" /\ ChatPage(c).chat = c
         /\ ChatPage(c).next = 0 /\ ChatPage(c).items = <<>> /\ Len(ChatPage(c).items) <= Size("chat")
  <1>1. ChatPage(c) = [kind |-> "chat", chat |-> c, next |-> 0, items |-> <<>>]
    BY DEF ChatPage, Blank
  <1>2. <<>> \in Seq(Tuple) /\ Len(<<>>) = 0 /\ 0 <= Size("chat")
    BY PagesAssumption DEF Size
  <1> QED BY <1>1, <1>2 DEF Page

\* A page is taken for a chat.
LEMMA AllocForEffect ==
  ASSUME NEW f \in File, NEW c \in Chats
  PROVE  Takes(AllocFor(f, c), f, ChatPage(c))
  <1> DEFINE a == Alloc(f, "chat")
  <1> DEFINE new == Allocated(f)
  <1> DEFINE page == [a.pg[new] EXCEPT !.chat = c]
  <1>1. Takes(a, f, Blank("chat"))
    BY AllocEffect
  <1> HIDE DEF a, new
  <1>2. a \in File /\ new \in DOMAIN a.pg /\ page = ChatPage(c)
    BY <1>1 DEF Takes, ChatPage, new
  <1>3. AllocFor(f, c) = [a EXCEPT !.pg[new] = page]
    BY DEF AllocFor, a, new
  <1> HIDE DEF page
  <1>4. page \in Page /\ page.next <= Len(a.pg) /\ Len(page.items) <= Size(page.kind)
    BY <1>2, ChatPageFacts, FileFacts
  <1>5. [a EXCEPT !.pg[new] = page] \in File /\ Writes([a EXCEPT !.pg[new] = page], a, new, page)
    BY <1>2, <1>4, WriteEffect, SMTT(30)
  <1> DEFINE g == AllocFor(f, c)
  <1>6. g \in File /\ Writes(g, a, new, page)
    BY <1>3, <1>5
  <1> HIDE DEF g
  <1>7. Takes(g, f, page)
    BY <1>1, <1>2, <1>6 DEF Takes, Writes, new
  <1> QED BY <1>2, <1>7 DEF g

\* The pages of the other chats and the hot pages are the same in g as in f.
SameBut(c, g, f) ==
    /\ \A q \in DOMAIN f.pg :
          /\ q \in DOMAIN g.pg
          /\ f.pg[q].kind = "hot" \/ (f.pg[q].kind = "chat" /\ f.pg[q].chat # c) => g.pg[q] = f.pg[q]
    /\ \A q \in DOMAIN g.pg :
          g.pg[q].kind = "chat" /\ g.pg[q].chat # c =>
             q \in DOMAIN f.pg /\ f.pg[q].kind = "chat" /\ f.pg[q].chat # c

\* The pages of the chat.
Owns(f, c) == {q \in DOMAIN f.pg : f.pg[q].kind = "chat" /\ f.pg[q].chat = c}

\* Two changes to a chat are one.
LEMMA SameButTrans ==
  ASSUME NEW c, NEW f, NEW g, NEW h, SameBut(c, g, f), SameBut(c, h, g)
  PROVE  SameBut(c, h, f)
  BY DEF SameBut

\* A page taken for a chat is on no chain.
LEMMA ChatAlloc ==
  ASSUME NEW f, NEW fr, NEW ch, NEW m \in Nat, Shape(f, fr, ch, m), NEW c \in Chats
  PROVE  LET g == AllocFor(f, c)
             new == Allocated(f)
         IN  /\ Shape(g, Popped(fr), ch, m) /\ SameBut(c, g, f)
             /\ new \in DOMAIN g.pg /\ g.pg[new] = ChatPage(c) /\ \A d \in Chats : new \notin ToSet(ch[d])
             /\ \A q \in DOMAIN f.pg : q \in DOMAIN g.pg /\ (f.pg[q].kind = "chat" => g.pg[q] = f.pg[q])
             /\ Owns(g, c) = Owns(f, c) \cup {new}
             /\ fr # <<>> => Len(g.pg) = Len(f.pg)
             /\ fr = <<>> => Len(g.pg) = Len(f.pg) + 1
  <1> DEFINE g == AllocFor(f, c)
  <1> DEFINE new == Allocated(f)
  <1>1. f \in File
    BY DEF Shape
  <1>2. Takes(g, f, ChatPage(c))
    BY <1>1, AllocForEffect
  <1> HIDE DEF g
  <1>3. ChatPage(c).kind = "chat" /\ ChatPage(c).chat = c /\ ChatPage(c).next = 0 /\ ChatPage(c).items = <<>>
    BY ChatPageFacts
  <1>4. /\ Shape(g, Popped(fr), ch, m)
        /\ \A d \in Chats : new \notin ToSet(ch[d])
        /\ new # 0 /\ new \in DOMAIN f.pg => f.pg[new].kind = "free"
        /\ fr # <<>> => Len(g.pg) = Len(f.pg)
    BY <1>2, <1>3, TakeShape
  <1>5. /\ new \in DOMAIN g.pg /\ g.pg[new] = ChatPage(c)
        /\ \A q \in DOMAIN f.pg : q \in DOMAIN g.pg /\ (q # new => g.pg[q] = f.pg[q])
        /\ \A q \in DOMAIN g.pg : q = new \/ q \in DOMAIN f.pg
    BY <1>2 DEF Takes
  <1>6. \A q \in DOMAIN f.pg : q # 0
    BY <1>1, FileFacts
  <1> HIDE DEF new
  <1>7. \A q \in DOMAIN f.pg : f.pg[q].kind # "free" => q # new
    BY <1>4, <1>6
  <1>8. SameBut(c, g, f)
    BY <1>3, <1>5, <1>7 DEF SameBut
  <1>9. Owns(g, c) = Owns(f, c) \cup {new}
    BY <1>3, <1>5, <1>7 DEF Owns
  <1>10. fr = <<>> => Len(g.pg) = Len(f.pg) + 1
    <2> SUFFICES ASSUME fr = <<>> PROVE Len(g.pg) = Len(f.pg) + 1
      OBVIOUS
    <2>1. f.free = 0
      BY DEF Shape, FreeTrue, HeadOf
    <2> QED BY <1>2, <2>1 DEF Takes
  <1> QED BY <1>4, <1>5, <1>7, <1>8, <1>9, <1>10 DEF g, new

\* The page p of the chat is linked to the end of its chain s.
Linked(f, s, p) == IF s = <<>> THEN f ELSE [f EXCEPT !.pg[LastOf(s)].next = p]

\* The page is linked to the end of the chain.
LEMMA ChatLink ==
  ASSUME NEW f, NEW fr, NEW ch, NEW m \in Nat, Shape(f, fr, ch, m), NEW c \in Chats,
         NEW p \in DOMAIN f.pg, p \notin ToSet(ch[c]), f.pg[p] = ChatPage(c)
  PROVE  LET g == Linked(f, ch[c], p)
         IN  /\ Shape(g, fr, With(ch, c, Append(ch[c], p)), m) /\ SameBut(c, g, f)
             /\ DOMAIN g.pg = DOMAIN f.pg /\ Len(g.pg) = Len(f.pg)
             /\ \A q \in DOMAIN f.pg : g.pg[q].kind = f.pg[q].kind /\ g.pg[q].chat = f.pg[q].chat /\ g.pg[q].items = f.pg[q].items
             /\ g.pg[p].next = 0 /\ g.pg[p] = f.pg[p]
             /\ Tuples(g, Append(ch[c], p)) = Tuples(f, ch[c])
  <1> DEFINE s == ch[c]
  <1> DEFINE g == Linked(f, s, p)
  <1> DEFINE z == LastOf(s)
  <1>1. f \in File /\ Path(f, s) /\ s \in Seq(DOMAIN f.pg)
    BY DEF Shape, ChatPath, Path
  <1>2. f.pg[p].kind = "chat" /\ f.pg[p].chat = c /\ f.pg[p].next = 0 /\ f.pg[p].items = <<>>
    BY ChatPageFacts
  <1>3. s # <<>> => z \in DOMAIN f.pg /\ z \in ToSet(s) /\ f.pg[z].kind = "chat" /\ f.pg[z].chat = c /\ z # p
    <2> HIDE DEF z
    <2>1. s # <<>> => Len(s) \in DOMAIN s /\ z = s[Len(s)]
      BY <1>1 DEF LastOf, z
    <2> QED BY <1>1, <2>1 DEF Shape, ChatPath, ToSet
  <1>4. /\ g \in File
        /\ IF s = <<>> THEN g = f ELSE Writes(g, f, z, [f.pg[z] EXCEPT !.next = p])
    BY <1>1, <1>3, LinkEffect DEF Linked
  <1> HIDE DEF g
  <1>5. Shape(g, fr, With(ch, c, Append(s, p)), m)
    BY <1>2, <1>4, LinkShape
  <1>6. \A q \in DOMAIN f.pg : f.pg[q] \in Page
    BY <1>1, FileFacts
  <1> HIDE DEF s, z
  <1>7. /\ DOMAIN g.pg = DOMAIN f.pg /\ Len(g.pg) = Len(f.pg)
        /\ \A q \in DOMAIN f.pg : g.pg[q] = IF s # <<>> /\ q = z THEN [f.pg[z] EXCEPT !.next = p] ELSE f.pg[q]
    BY <1>4 DEF Writes
  <1>8. \A q \in DOMAIN f.pg : g.pg[q].kind = f.pg[q].kind /\ g.pg[q].chat = f.pg[q].chat /\ g.pg[q].items = f.pg[q].items
    BY <1>6, <1>7, SMTT(90) DEF Page
  <1>9. SameBut(c, g, f)
    BY <1>3, <1>7, <1>8 DEF SameBut
  <1>10. g.pg[p] = f.pg[p]
    BY <1>3, <1>7
  <1>11. Tuples(g, Append(s, p)) = Tuples(f, s)
    <2>1. Tuples(g, Append(s, p)) = Tuples(g, s) \o g.pg[p].items
      BY <1>1, <1>4, <1>7, TuplesAppend, ZenonT(90)
    <2>2. Tuples(g, s) = Tuples(f, s)
      <3>1. \A i \in DOMAIN s : g.pg[s[i]].items = f.pg[s[i]].items
        BY <1>1, <1>8
      <3> QED BY <1>1, <3>1, TuplesSame
    <2>3. Tuples(f, s) \in Seq(Tuple)
      BY <1>1, TuplesSeq
    <2> DEFINE all == Tuples(f, s)
    <2>4. all \in Seq(Tuple) /\ Tuples(g, s) = all
      BY <2>2, <2>3
    <2> HIDE DEF all
    <2>5. all \o <<>> = all
      BY <2>4
    <2> QED BY <1>2, <1>10, <2>1, <2>4, <2>5 DEF all
  <1> QED BY <1>2, <1>5, <1>7, <1>8, <1>9, <1>10, <1>11 DEF g, s

\* What the index has of the pages of a chain.
EntriesOf(f, s) == UNION {Entries(f, p) : p \in ToSet(s)}

\* g is f after the message i was put at the end of the chat's chain.
Gained(g, f, fr, ch, c, m, i) ==
    LET z == LastOf(ch[c])
    IN  /\ Shape(g, fr, ch, m) /\ SameBut(c, g, f)
        /\ DOMAIN g.pg = DOMAIN f.pg /\ Len(g.pg) = Len(f.pg) /\ Owns(g, c) = Owns(f, c)
        /\ g.pg[z].items = Append(f.pg[z].items, <<c, i>>)
        /\ Tuples(g, ch[c]) = Append(Tuples(f, ch[c]), <<c, i>>)
        /\ EntriesOf(g, ch[c]) = EntriesOf(f, ch[c]) \cup {<<i, z, NextSlot(f.pg[z])>>}

\* A message is put on the last page of the chain.
LEMMA ChatPut ==
  ASSUME NEW f, NEW fr, NEW ch, NEW m \in Nat, Shape(f, fr, ch, m), NEW c \in Chats, ch[c] # <<>>,
         Room(f.pg[LastOf(ch[c])]), NEW i \in 1..m
  PROVE  Gained(Put(f, LastOf(ch[c]), <<c, i>>), f, fr, ch, c, m, i)
  <1> DEFINE s == ch[c]
  <1> DEFINE z == LastOf(s)
  <1> DEFINE x == <<c, i>>
  <1> DEFINE g == Put(f, z, x)
  <1> DEFINE page == [f.pg[z] EXCEPT !.items = Append(@, x)]
  <1>1. f \in File /\ Path(f, s) /\ s \in Seq(DOMAIN f.pg)
    BY DEF Shape, ChatPath, Path
  <1>2. z \in DOMAIN f.pg /\ z \in ToSet(s) /\ f.pg[z].kind = "chat" /\ f.pg[z].chat = c /\ x \in Tuple
    <2>1. Len(s) \in DOMAIN s /\ z = s[Len(s)]
      <3> HIDE DEF z
      <3> QED BY <1>1 DEF LastOf, z
    <2> HIDE DEF z
    <2>2. x \in Tuple
      BY DEF Tuple
    <2> QED BY <1>1, <2>1, <2>2 DEF Shape, ChatPath, ToSet
  <1> HIDE DEF s, z, x
  <1>3. g \in File /\ Writes(g, f, z, page)
    BY <1>1, <1>2, PutEffect DEF s, z
  <1>4. /\ f.pg[z] \in Page /\ f.pg[z].items \in Seq(Tuple) /\ Len(f.pg[z].items) \in Nat
        /\ DOMAIN f.pg[z].items = 1..Len(f.pg[z].items)
    <2>1. f.pg[z] \in Page
      BY <1>1, <1>2, FileFacts
    <2>2. f.pg[z].items \in Seq(Tuple)
      BY <2>1, PageFacts
    <2> QED BY <2>1, <2>2
  <1>5. page.kind = "chat" /\ page.chat = c /\ page.next = f.pg[z].next /\ page.items = Append(f.pg[z].items, x)
    BY <1>2, <1>4 DEF Page
  <1> HIDE DEF g, page
  <1>6. /\ DOMAIN page.items = 1..(Len(f.pg[z].items) + 1) /\ page.items[Len(f.pg[z].items) + 1] = x
        /\ \A j \in 1..Len(f.pg[z].items) : page.items[j] = f.pg[z].items[j]
        /\ \A j \in DOMAIN page.items : j = Len(f.pg[z].items) + 1 \/ j \in 1..Len(f.pg[z].items)
        /\ \A j \in 1..Len(f.pg[z].items) : j \in DOMAIN page.items
        /\ Len(f.pg[z].items) + 1 \in DOMAIN page.items
    <2> DEFINE old == f.pg[z].items
    <2>1. old \in Seq(Tuple) /\ Len(old) \in Nat /\ page.items = Append(old, x) /\ x \in Tuple
      BY <1>2, <1>4, <1>5
    <2> HIDE DEF old
    <2>2. /\ DOMAIN page.items = 1..(Len(old) + 1) /\ page.items[Len(old) + 1] = x
          /\ \A j \in 1..Len(old) : page.items[j] = old[j]
      BY <2>1
    <2>3. /\ \A j \in 1..(Len(old) + 1) : j = Len(old) + 1 \/ j \in 1..Len(old)
          /\ \A j \in 1..Len(old) : j \in 1..(Len(old) + 1)
          /\ Len(old) + 1 \in 1..(Len(old) + 1)
      BY <2>1, SMTT(30)
    <2> QED BY <2>2, <2>3 DEF old
  <1>7. OwnPage(page, m)
    <2>1. OwnPage(f.pg[z], m)
      BY <1>2 DEF Shape
    <2>2. x \in {c} \X (1..m)
      BY DEF x
    <2> QED BY <1>2, <1>4, <1>5, <1>6, <2>1, <2>2 DEF OwnPage
  <1>8. Shape(g, fr, ch, m)
    BY <1>2, <1>3, <1>5, <1>7, KeepShape
  <1>9. /\ DOMAIN g.pg = DOMAIN f.pg /\ Len(g.pg) = Len(f.pg)
        /\ \A q \in DOMAIN f.pg : g.pg[q] = IF q = z THEN page ELSE f.pg[q]
    BY <1>3 DEF Writes
  <1>10. SameBut(c, g, f) /\ Owns(g, c) = Owns(f, c)
    BY <1>2, <1>5, <1>9, SMTT(30) DEF SameBut, Owns
  <1>11. g.pg[z].items = Append(f.pg[z].items, x)
    BY <1>2, <1>5, <1>9, SMTT(30)
  <1>12. Tuples(g, s) = Append(Tuples(f, s), x)
    <2>1. \A a, b \in DOMAIN s : s[a] = s[b] => a = b
      BY <1>1 DEF Path
    <2>2. \A q \in DOMAIN f.pg : q # LastOf(s) => g.pg[q].items = f.pg[q].items
      BY <1>9 DEF z
    <2> QED BY <1>1, <1>2, <1>3, <1>9, <1>11, <2>1, <2>2, TuplesPut, ZenonT(30) DEF s, z
  <1>13. Entries(g, z) = Entries(f, z) \cup {<<i, z, NextSlot(f.pg[z])>>}
    <2>1. x[2] = i
      BY DEF x
    <2>2. g.pg[z].items = page.items
      BY <1>2, <1>9
    <2> DEFINE n == Len(f.pg[z].items)
    <2>3. NextSlot(f.pg[z]) = n + 1 /\ DOMAIN f.pg[z].items = 1..n
      BY <1>4 DEF NextSlot
    <2> HIDE DEF n
    <2> QED BY <1>6, <2>1, <2>2, <2>3, ZenonT(30) DEF Entries, n
  <1>14. \A q \in DOMAIN f.pg : q # z => Entries(g, q) = Entries(f, q)
    BY <1>9 DEF Entries
  <1>15. EntriesOf(g, s) = EntriesOf(f, s) \cup {<<i, z, NextSlot(f.pg[z])>>}
    <2>1. \A q \in ToSet(s) : q \in DOMAIN f.pg
      BY <1>1 DEF ToSet
    <2> QED BY <1>2, <1>13, <1>14, <2>1 DEF EntriesOf
  <1>16. Gained(g, f, fr, ch, c, m, i)
    BY <1>8, <1>9, <1>10, <1>11, <1>12, <1>15, Zenon DEF Gained, x, z, s
  <1> QED BY <1>16, Zenon DEF g, x, z, s

-----------------------------------------------------------------------------
(* A trim *)

\* A list without its first n.
Drop(s, n) == SubSeq(s, n + 1, Len(s))

\* A list without its first n elements.
LEMMA DropLen ==
  ASSUME NEW S, NEW s \in Seq(S), NEW n \in 0..Len(s)
  PROVE  /\ Drop(s, n) \in Seq(S) /\ Len(Drop(s, n)) = Len(s) - n
         /\ \A i \in 1..(Len(s) - n) : Drop(s, n)[i] = s[n + i]
  <1>1. PICK L \in Nat : L = Len(s) /\ DOMAIN s = 1..L
    OBVIOUS
  <1>2. n \in Nat /\ n <= L
    BY <1>1
  <1>3. CASE n = L
    <2>1. SubSeq(s, n + 1, Len(s)) = <<>>
      BY <1>1, <1>3
    <2> QED BY <1>1, <1>3, <2>1 DEF Drop
  <1>4. CASE n # L
    <2>1. n + 1 \in 1..L /\ L - (n + 1) + 1 = L - n
      BY <1>1, <1>2, <1>4
    <2>2. SubSeq(s, n + 1, L) \in Seq(S) /\ Len(SubSeq(s, n + 1, L)) = L - n
      BY <1>1, <2>1
    <2>3. ASSUME NEW i \in 1..(L - n)
          PROVE  SubSeq(s, n + 1, L)[i] = s[n + i]
      <3>1. SubSeq(s, n + 1, L)[i] = s[(n + 1) + i - 1] /\ (n + 1) + i - 1 = n + i
        BY <1>1, <1>2, <2>1
      <3> QED BY <3>1
    <2> QED BY <1>1, <2>2, <2>3 DEF Drop
  <1> QED BY <1>3, <1>4

\* One element more is dropped.
LEMMA DropFacts ==
  ASSUME NEW S, NEW s \in Seq(S), NEW n \in 1..Len(s)
  PROVE  /\ Drop(s, n - 1) # <<>> /\ Drop(s, n - 1)[1] = s[n] /\ Tail(Drop(s, n - 1)) = Drop(s, n)
         /\ ToSet(Drop(s, n)) \subseteq ToSet(s)
  <1>1. PICK L \in Nat : L = Len(s) /\ DOMAIN s = 1..L
    OBVIOUS
  <1>2. n \in 1..L /\ n - 1 \in 0..L /\ n \in 0..L
    BY <1>1
  <1> DEFINE r == Drop(s, n - 1)
  <1> DEFINE d == Drop(s, n)
  <1>3. /\ r \in Seq(S) /\ Len(r) = L - (n - 1) /\ \A i \in 1..(L - (n - 1)) : r[i] = s[(n - 1) + i]
    BY <1>1, <1>2, DropLen, ZenonT(30)
  <1>4. /\ d \in Seq(S) /\ Len(d) = L - n /\ \A i \in 1..(L - n) : d[i] = s[n + i]
    BY <1>1, <1>2, DropLen
  <1> HIDE DEF r, d
  <1>5. r # <<>> /\ r[1] = s[n]
    BY <1>2, <1>3
  <1> DEFINE t == Tail(r)
  <1>6. t \in Seq(S) /\ Len(t) = L - n /\ \A i \in 1..(L - n) : t[i] = s[n + i]
    BY <1>2, <1>3, <1>5
  <1> HIDE DEF t
  <1>7. t = d
    BY <1>2, <1>4, <1>6
  <1>8. ToSet(d) \subseteq ToSet(s)
    <2>1. DOMAIN d = 1..(L - n) /\ \A i \in 1..(L - n) : d[i] = s[n + i] /\ n + i \in DOMAIN s
      BY <1>1, <1>2, <1>4
    <2> QED BY <2>1 DEF ToSet
  <1> QED BY <1>5, <1>7, <1>8 DEF r, t, d

\* The chain that was set last is the one that counts.
LEMMA WithWith ==
  ASSUME NEW ch, NEW c \in Chats, NEW s, NEW t
  PROVE  With(With(ch, c, s), c, t) = With(ch, c, t) /\ With(ch, c, s)[c] = s
         /\ \A d \in Chats : d # c => With(ch, c, s)[d] = ch[d]
  BY DEF With

\* Shape has to do with the chains of the chats only.
LEMMA ShapeOnly ==
  ASSUME NEW f, NEW fr, NEW ch, NEW m, Shape(f, fr, ch, m), NEW cg, \A d \in Chats : cg[d] = ch[d]
  PROVE  Shape(f, fr, cg, m)
  BY DEF Shape

\* The pages of a chain go to the free list.
Freed(g, f, fr, ch, c, m, n) ==
    /\ \E gr : /\ Shape(g, gr, With(ch, c, Drop(ch[c], n)), m)
               /\ gr \in Seq(Nat) /\ Len(gr) = Len(fr) + n
    /\ SameBut(c, g, f) /\ Len(g.pg) = Len(f.pg)
    /\ Owns(g, c) \subseteq Owns(f, c) \ {ch[c][i] : i \in 1..n}

\* All pages of a chain are freed.
LEMMA FreeAllEffect ==
  ASSUME NEW f, NEW fr, NEW ch, NEW m \in Nat, Shape(f, fr, ch, m), NEW c \in Chats
  PROVE  Freed(FreeAll(f, ch[c]), f, fr, ch, c, m, Len(ch[c]))
  <1> DEFINE s == ch[c]
  <1> DEFINE N == Len(s)
  <1> DEFINE V == [n \in 0..N |-> {g \in File : Freed(g, f, fr, ch, c, m, n)}]
  <1>1. /\ f \in File /\ Path(f, s) /\ s \in Seq(DOMAIN f.pg) /\ N \in Nat /\ DOMAIN s = 1..N
        /\ Path(f, fr) /\ fr \in Seq(Nat) /\ Len(fr) \in Nat
    <2>1. f \in File /\ Path(f, s) /\ s \in Seq(DOMAIN f.pg) /\ Path(f, fr) /\ fr \in Seq(DOMAIN f.pg)
      BY DEF Shape, ChatPath, Path, FreeTrue
    <2>2. DOMAIN f.pg \subseteq Nat
      BY <2>1, FileFacts
    <2> QED BY <2>1, <2>2
  <1> HIDE DEF s
  <1>2. f \in {g \in File : Freed(g, f, fr, ch, c, m, 0)}
    <2>1. Drop(s, 0) = s
      BY <1>1 DEF Drop
    <2>2. \A d \in Chats : With(ch, c, s)[d] = ch[d]
      BY DEF With, s
    <2>3. Shape(f, fr, With(ch, c, s), m)
      BY <2>2, ShapeOnly
    <2>4. Len(fr) = Len(fr) + 0
      BY <1>1
    <2>5. \A i \in 1..0 : FALSE
      OBVIOUS
    <2> QED BY <1>1, <2>1, <2>3, <2>4, <2>5 DEF Freed, SameBut, s
  <1>3. ASSUME NEW n \in 1..N, NEW g \in File, Freed(g, f, fr, ch, c, m, n - 1)
        PROVE  FreePage(g, s[n]) \in File /\ Freed(FreePage(g, s[n]), f, fr, ch, c, m, n)
    <2> DEFINE r == Drop(s, n - 1)
    <2> DEFINE cg == With(ch, c, r)
    <2> DEFINE h == FreePage(g, s[n])
    <2>1. PICK gr : Shape(g, gr, cg, m) /\ gr \in Seq(Nat) /\ Len(gr) = Len(fr) + (n - 1)
      BY <1>3 DEF Freed, s
    <2>2. r # <<>> /\ r[1] = s[n] /\ Tail(r) = Drop(s, n)
      BY <1>1, DropFacts
    <2>3. cg[c] = r /\ With(cg, c, Tail(r)) = With(ch, c, Drop(s, n))
      <3> HIDE DEF r
      <3> QED BY <2>2 DEF With
    <2> HIDE DEF r, cg
    <2>4. Shape(h, <<s[n]>> \o gr, With(ch, c, Drop(s, n)), m)
      <3>1. Shape(FreePage(g, cg[c][1]), <<cg[c][1]>> \o gr, With(cg, c, Tail(cg[c])), m)
        BY <2>1, <2>2, <2>3, FreeShape
      <3> QED BY <2>2, <2>3, <3>1
    <2>5. s[n] \in DOMAIN g.pg /\ g.pg[s[n]].kind = "chat" /\ g.pg[s[n]].chat = c
      <3>1. ChatPath(g, c, r)
        BY <2>1, <2>3 DEF Shape
      <3>2. 1 \in DOMAIN r
        <4>1. r \in Seq(DOMAIN g.pg)
          BY <3>1 DEF ChatPath, Path
        <4> QED BY <2>2, <4>1
      <3> QED BY <2>2, <3>1, <3>2 DEF ChatPath, Path
    <2> DEFINE page == [Blank("free") EXCEPT !.next = g.free]
    <2>6. /\ h \in File /\ DOMAIN h.pg = DOMAIN g.pg /\ Len(h.pg) = Len(g.pg)
          /\ \A q \in DOMAIN g.pg : h.pg[q] = IF q = s[n] THEN page ELSE g.pg[q]
      BY <2>5, FreeEffect
    <2>7. page.kind = "free"
      BY DEF Blank
    <2> HIDE DEF h, page
    <2>8. SameBut(c, h, g)
      BY <2>5, <2>6, <2>7 DEF SameBut
    <2>9. SameBut(c, h, f)
      BY <1>3, <2>8, SameButTrans DEF Freed
    <2>10. <<s[n]>> \o gr \in Seq(Nat) /\ Len(<<s[n]>> \o gr) = Len(fr) + n
      <3>1. s[n] \in Nat
        BY <2>5, FileFacts
      <3>2. <<s[n]>> \in Seq(Nat) /\ Len(<<s[n]>>) = 1
        BY <3>1
      <3>3. <<s[n]>> \o gr \in Seq(Nat) /\ Len(<<s[n]>> \o gr) = 1 + Len(gr)
        BY <2>1, <3>2
      <3> QED BY <1>1, <2>1, <3>3
    <2>11. Owns(h, c) \subseteq Owns(f, c) \ {s[i] : i \in 1..n}
      <3>1. Owns(h, c) = Owns(g, c) \ {s[n]}
        BY <2>5, <2>6, <2>7, SMTT(30) DEF Owns
      <3>2. \A i \in 1..n : i = n \/ i \in 1..(n - 1)
        BY <1>1
      <3> QED BY <1>3, <3>1, <3>2 DEF Freed, s
    <2>12. Len(h.pg) = Len(f.pg)
      BY <1>3, <2>6 DEF Freed
    <2>13. Freed(h, f, fr, ch, c, m, n)
      BY <2>4, <2>9, <2>10, <2>11, <2>12 DEF Freed, s
    <2> QED BY <2>6, <2>13 DEF h
  <1> HIDE DEF N
  <1>4. N \in Nat /\ 0 \in 0..N /\ N \in 0..N /\ \A n \in 1..N : n \in 0..N /\ n - 1 \in 0..N
    BY <1>1
  <1>5. \A n \in 0..N : V[n] = {g \in File : Freed(g, f, fr, ch, c, m, n)}
    OBVIOUS
  <1> HIDE DEF V
  <1>6. FreeClosed(f, s, V)
    <2>1. f \in V[0]
      BY <1>2, <1>4, <1>5
    <2>2. \A n \in 1..N : \A g \in V[n - 1] : FreePage(g, s[n]) \in V[n]
      BY <1>3, <1>4, <1>5
    <2> QED BY <2>1, <2>2 DEF FreeClosed, N
  <1>7. PICK u : FreeUpTo(f, s, V, u)
    BY <1>1, <1>6, FreeStages DEF N
  <1>8. FreeAll(f, s) \in V[N]
    BY <1>4, <1>7 DEF FreeUpTo, N
  <1> QED BY <1>4, <1>5, <1>8 DEF s, N

\* A chain holds no more than its pages have room for.
LEMMA TuplesLen ==
  ASSUME NEW f \in File, NEW s \in Seq(DOMAIN f.pg), \A i \in DOMAIN s : f.pg[s[i]].kind = "chat"
  PROVE  Len(Tuples(f, s)) <= Len(s) * Cap
  <1>1. PICK u : TuplesUpTo(f, s, u)
    BY TuplesSeq
  <1> DEFINE N == Len(s)
  <1> DEFINE T == {n \in 0..N : Len(u[n]) <= n * Cap}
  <1>2. N \in Nat /\ DOMAIN s = 1..N /\ T \in SUBSET Nat /\ Cap \in Nat
    BY PagesAssumption
  <1>3. 0 \in T
    <2>1. u[0] = <<>> /\ 0 * Cap = 0 /\ 0 \in 0..N
      BY <1>1, <1>2 DEF TuplesUpTo
    <2> QED BY <2>1
  <1>4. ASSUME NEW n \in 0..(N - 1), n \in T
        PROVE  n + 1 \in T
    <2> DEFINE v == u[n]
    <2> DEFINE w == f.pg[s[n + 1]].items
    <2>1. n + 1 \in 1..N /\ (n + 1) - 1 = n /\ n \in 0..N /\ n + 1 \in 0..N
      BY <1>2
    <2>2. u[n + 1] = v \o w /\ v \in Seq(Tuple) /\ w \in Seq(Tuple) /\ Len(w) <= Cap
      <3>1. u[n + 1] = u[(n + 1) - 1] \o f.pg[s[n + 1]].items
        BY <1>1, <2>1, Zenon DEF TuplesUpTo
      <3>2. v \in Seq(Tuple)
        BY <1>1, <2>1 DEF TuplesUpTo
      <3>3. s[n + 1] \in DOMAIN f.pg /\ f.pg[s[n + 1]].kind = "chat"
        BY <1>2, <2>1
      <3>4. w \in Seq(Tuple) /\ Len(w) <= Size("chat")
        BY <3>3, FileFacts, PageFacts
      <3> QED BY <2>1, <3>1, <3>2, <3>4 DEF Size
    <2>3. Len(v) <= n * Cap
      BY <1>4
    <2> HIDE DEF v, w
    <2>4. Len(u[n + 1]) = Len(v) + Len(w) /\ Len(v) \in Nat /\ Len(w) \in Nat
      BY <2>2
    <2>5. (n + 1) * Cap = n * Cap + Cap /\ n * Cap \in Nat
      BY <1>2
    <2> QED BY <1>2, <2>1, <2>2, <2>3, <2>4, <2>5, SMTT(30)
  <1>5. N \in T
    <2> HIDE DEF T, N
    <2> QED BY <1>2, <1>3, <1>4, Climb
  <1> QED BY <1>1, <1>5 DEF TuplesUpTo

\* g is f after a new page came to the end of the chat's chain.
Grew(g, f, fr, ch, c, m) ==
    LET new == Allocated(f)
        s == Append(ch[c], new)
    IN  /\ Shape(g, Popped(fr), With(ch, c, s), m) /\ SameBut(c, g, f)
        /\ g.pg[new] = ChatPage(c) /\ new \in DOMAIN g.pg
        /\ Tuples(g, s) = Tuples(f, ch[c]) /\ EntriesOf(g, s) = EntriesOf(f, ch[c])
        /\ Owns(g, c) = Owns(f, c) \cup {new}
        /\ fr # <<>> => Len(g.pg) = Len(f.pg)
        /\ fr = <<>> => Len(g.pg) = Len(f.pg) + 1

\* A page is taken and linked.
LEMMA ChatGrow ==
  ASSUME NEW f, NEW fr, NEW ch, NEW m \in Nat, Shape(f, fr, ch, m), NEW c \in Chats
  PROVE  Grew(Linked(AllocFor(f, c), ch[c], Allocated(f)), f, fr, ch, c, m)
  <1> DEFINE new == Allocated(f)
  <1> DEFINE s == Append(ch[c], new)
  <1> DEFINE a == AllocFor(f, c)
  <1> DEFINE g == Linked(a, ch[c], new)
  <1>1. /\ Shape(a, Popped(fr), ch, m) /\ SameBut(c, a, f)
        /\ new \in DOMAIN a.pg /\ a.pg[new] = ChatPage(c) /\ \A d \in Chats : new \notin ToSet(ch[d])
        /\ \A q \in DOMAIN f.pg : q \in DOMAIN a.pg /\ (f.pg[q].kind = "chat" => a.pg[q] = f.pg[q])
        /\ Owns(a, c) = Owns(f, c) \cup {new}
        /\ fr # <<>> => Len(a.pg) = Len(f.pg)
        /\ fr = <<>> => Len(a.pg) = Len(f.pg) + 1
    BY ChatAlloc
  <1> HIDE DEF a, new
  <1>2. /\ Shape(g, Popped(fr), With(ch, c, s), m) /\ SameBut(c, g, a)
        /\ DOMAIN g.pg = DOMAIN a.pg /\ Len(g.pg) = Len(a.pg)
        /\ \A q \in DOMAIN a.pg : g.pg[q].kind = a.pg[q].kind /\ g.pg[q].chat = a.pg[q].chat /\ g.pg[q].items = a.pg[q].items
        /\ g.pg[new] = a.pg[new]
        /\ Tuples(g, s) = Tuples(a, ch[c])
    BY <1>1, ChatLink
  <1> HIDE DEF g, s
  <1>3. SameBut(c, g, f)
    BY <1>1, <1>2, SameButTrans
  <1>4. f \in File /\ ch[c] \in Seq(DOMAIN f.pg) /\ \A i \in DOMAIN ch[c] : ch[c][i] \in DOMAIN f.pg /\ f.pg[ch[c][i]].kind = "chat"
    BY DEF Shape, ChatPath, Path
  <1>5. Tuples(g, s) = Tuples(f, ch[c])
    <2>1. \A i \in DOMAIN ch[c] : a.pg[ch[c][i]].items = f.pg[ch[c][i]].items
      BY <1>1, <1>4
    <2> QED BY <1>2, <1>4, <2>1, TuplesSame, ZenonT(30)
  <1>6. EntriesOf(g, s) = EntriesOf(f, ch[c])
    <2>1. ToSet(s) = ToSet(ch[c]) \cup {new}
      <3> DEFINE r == ch[c]
      <3>1. r \in Seq(DOMAIN a.pg) /\ s = Append(r, new)
        BY <1>1, <1>4 DEF s
      <3> HIDE DEF r
      <3>2. /\ DOMAIN s = 1..(Len(r) + 1) /\ s[Len(r) + 1] = new /\ DOMAIN r = 1..Len(r) /\ Len(r) \in Nat
            /\ \A i \in 1..Len(r) : s[i] = r[i]
        BY <1>1, <3>1
      <3>3. /\ \A i \in 1..(Len(r) + 1) : i = Len(r) + 1 \/ i \in 1..Len(r)
            /\ Len(r) + 1 \in 1..(Len(r) + 1) /\ \A i \in 1..Len(r) : i \in 1..(Len(r) + 1)
        BY <3>2
      <3>4. ToSet(s) = ToSet(r) \cup {new}
        BY <3>2, <3>3 DEF ToSet
      <3> QED BY <3>4 DEF r
    <2>2. Entries(g, new) = {}
      <3>1. g.pg[new].items = <<>>
        BY <1>1, <1>2, ChatPageFacts
      <3> QED BY <3>1 DEF Entries
    <2>3. ASSUME NEW q \in ToSet(ch[c])
          PROVE  Entries(g, q) = Entries(f, q)
      <3>1. q \in DOMAIN f.pg /\ f.pg[q].kind = "chat"
        BY <1>4 DEF ToSet
      <3>2. g.pg[q].items = f.pg[q].items
        BY <1>1, <1>2, <3>1
      <3> QED BY <3>2 DEF Entries
    <2> QED BY <2>1, <2>2, <2>3 DEF EntriesOf
  <1>7. Owns(g, c) = Owns(f, c) \cup {new}
    <2>1. Owns(g, c) = Owns(a, c)
      BY <1>2 DEF Owns
    <2> QED BY <1>1, <2>1
  <1>8. /\ fr # <<>> => Len(g.pg) = Len(f.pg)
        /\ fr = <<>> => Len(g.pg) = Len(f.pg) + 1
        /\ g.pg[new] = ChatPage(c) /\ new \in DOMAIN g.pg
    BY <1>1, <1>2
  <1>9. Grew(g, f, fr, ch, c, m)
    BY <1>2, <1>3, <1>5, <1>6, <1>7, <1>8, Zenon DEF Grew, s, new
  <1> QED BY <1>9, Zenon DEF g, s, a, new

\* The first n of the messages kept are on the chain s, on as few pages as can be.
Writing(w, gr, s, f, ch, c, m, kept, N, n) ==
    /\ Shape(w.f, gr, With(ch, c, s), m) /\ s # <<>> /\ HeadOf(s) = Allocated(f) /\ LastOf(s) = w.cur
    /\ Tuples(w.f, s) = SubSeq(kept, 1, n)
    /\ w.index = EntriesOf(w.f, s)
    /\ SameBut(c, w.f, f) /\ Owns(w.f, c) \subseteq Owns(f, c) \cup ToSet(s)
    /\ Len(w.f.pg) = Len(f.pg) /\ gr \in Seq(Nat)
    /\ Len(s) <= N /\ Len(gr) >= N - Len(s)
    /\ n = (Len(s) - 1) * Cap + Len(w.f.pg[w.cur].items)

\* One element more of a list.
LEMMA PrefixNext ==
  ASSUME NEW S, NEW s \in Seq(S), NEW n \in 1..Len(s)
  PROVE  SubSeq(s, 1, n) = Append(SubSeq(s, 1, n - 1), s[n])
  <1>1. PICK L \in Nat : L = Len(s) /\ DOMAIN s = 1..L
    OBVIOUS
  <1>2. n \in Nat /\ n <= L /\ n >= 1 /\ s[n] \in S
    BY <1>1
  <1> DEFINE a == SubSeq(s, 1, n)
  <1> DEFINE b == SubSeq(s, 1, n - 1)
  <1>3. a \in Seq(S) /\ Len(a) = n /\ \A i \in 1..n : a[i] = s[i]
    BY <1>1, <1>2
  <1>4. b \in Seq(S) /\ Len(b) = n - 1 /\ \A i \in 1..(n - 1) : b[i] = s[i]
    BY <1>1, <1>2
  <1> HIDE DEF a, b
  <1> DEFINE d == Append(b, s[n])
  <1>5. d \in Seq(S) /\ Len(d) = n /\ \A i \in 1..n : d[i] = s[i]
    <2>1. d \in Seq(S) /\ Len(d) = n /\ d[n] = s[n] /\ \A i \in 1..(n - 1) : d[i] = b[i]
      BY <1>2, <1>4
    <2>2. \A i \in 1..n : i = n \/ i \in 1..(n - 1)
      BY <1>2
    <2> QED BY <1>4, <2>1, <2>2
  <1> HIDE DEF d
  <1>6. a = d
    BY <1>3, <1>5
  <1> QED BY <1>6 DEF a, b, d

\* The message is put where there is room, or on a page more.
LEMMA RewriteStep ==
  ASSUME NEW f, NEW ch, NEW c \in Chats, NEW m \in Nat, NEW kept, NEW N \in Nat, NEW n \in 1..Len(kept),
         kept \in Seq({c} \X (1..m)), Len(kept) <= N * Cap,
         NEW w, NEW gr, NEW s, Writing(w, gr, s, f, ch, c, m, kept, N, n - 1)
  PROVE  /\ \E hr, t : Writing(Rewrite(w, c, kept[n]), hr, t, f, ch, c, m, kept, N, n)
         /\ Rewrite(w, c, kept[n]).f \in File
  <1> DEFINE new == Allocated(w.f)
  <1> DEFINE full == ~Room(w.f.pg[w.cur])
  <1> DEFINE cur == IF full THEN new ELSE w.cur
  <1> DEFINE g == IF full THEN Linked(AllocFor(w.f, c), s, new) ELSE w.f
  <1> DEFINE t == IF full THEN Append(s, new) ELSE s
  <1> DEFINE hr == IF full THEN Popped(gr) ELSE gr
  <1> DEFINE cg == With(ch, c, s)
  <1> DEFINE h == Put(g, cur, kept[n])
  <1>1. PICK i \in 1..m : kept[n] = <<c, i>>
    <2>1. kept[n] \in {c} \X (1..m)
      OBVIOUS
    <2> QED BY <2>1, SMTT(30)
  <1>2. /\ Shape(w.f, gr, cg, m) /\ s # <<>> /\ HeadOf(s) = Allocated(f) /\ LastOf(s) = w.cur
        /\ Tuples(w.f, s) = SubSeq(kept, 1, n - 1) /\ w.index = EntriesOf(w.f, s)
        /\ SameBut(c, w.f, f) /\ Owns(w.f, c) \subseteq Owns(f, c) \cup ToSet(s)
        /\ Len(w.f.pg) = Len(f.pg) /\ gr \in Seq(Nat) /\ Len(s) <= N /\ Len(gr) >= N - Len(s)
        /\ n - 1 = (Len(s) - 1) * Cap + Len(w.f.pg[w.cur].items)
    BY DEF Writing
  <1>3. cg[c] = s /\ \A x : With(cg, c, x) = With(ch, c, x)
    BY DEF With
  <1> HIDE DEF cg
  <1>4. /\ w.f \in File /\ s \in Seq(DOMAIN w.f.pg) /\ Len(s) \in Nat \ {0} /\ DOMAIN s = 1..Len(s)
        /\ \A j \in DOMAIN s : s[j] \in DOMAIN w.f.pg /\ w.f.pg[s[j]].kind = "chat"
    <2>1. w.f \in File /\ ChatPath(w.f, c, s)
      BY <1>2, <1>3 DEF Shape
    <2>2. s \in Seq(DOMAIN w.f.pg)
      BY <2>1 DEF ChatPath, Path
    <2> QED BY <1>2, <2>1, <2>2, SMTT(90) DEF ChatPath
  <1>5. w.cur \in DOMAIN w.f.pg /\ w.cur \in ToSet(s) /\ w.f.pg[w.cur].kind = "chat" /\ Len(w.f.pg[w.cur].items) \in 0..Cap
    <2>1. Len(s) \in DOMAIN s /\ w.cur = s[Len(s)]
      BY <1>2, <1>4 DEF LastOf
    <2>2. w.f.pg[w.cur] \in Page /\ Len(w.f.pg[w.cur].items) <= Size("chat")
      BY <1>4, <2>1, FileFacts
    <2>3. Len(w.f.pg[w.cur].items) \in Nat /\ Size("chat") = Cap /\ Cap \in Nat
      BY <2>2, PageFacts, PagesAssumption DEF Size
    <2> QED BY <1>4, <2>1, <2>2, <2>3, SMTT(90) DEF ToSet
  <1>6. Rewrite(w, c, kept[n]) = [f |-> h, cur |-> cur, index |-> w.index \cup {<<kept[n][2], cur, NextSlot(g.pg[cur])>>}]
    <2>1. full => g = [AllocFor(w.f, c) EXCEPT !.pg[w.cur].next = new]
      BY <1>2, SMTT(30) DEF Linked
    <2> QED BY <2>1, Zenon DEF Rewrite
  <1>7. /\ Shape(g, hr, With(ch, c, t), m) /\ t # <<>> /\ LastOf(t) = cur /\ HeadOf(t) = HeadOf(s)
        /\ SameBut(c, g, w.f) /\ Owns(g, c) \subseteq Owns(w.f, c) \cup ToSet(t) /\ ToSet(s) \subseteq ToSet(t)
        /\ Tuples(g, t) = Tuples(w.f, s) /\ EntriesOf(g, t) = EntriesOf(w.f, s)
        /\ Room(g.pg[cur]) /\ Len(g.pg) = Len(w.f.pg) /\ hr \in Seq(Nat)
        /\ Len(t) <= N /\ Len(hr) >= N - Len(t)
        /\ n - 1 = (Len(t) - 1) * Cap + Len(g.pg[cur].items)
    <2>1. CASE ~full
      <3>1. g = w.f /\ cur = w.cur /\ t = s /\ hr = gr
        BY <2>1
      <3>2. Room(g.pg[cur])
        BY <2>1
      <3> HIDE DEF g, cur, t, hr, full
      <3>3. Shape(g, hr, With(ch, c, t), m)
        BY <1>2, <3>1 DEF cg
      <3> QED BY <1>2, <3>1, <3>2, <3>3 DEF SameBut
    <2>2. CASE full
      <3>1. g = Linked(AllocFor(w.f, c), s, new) /\ cur = new /\ t = Append(s, new) /\ hr = Popped(gr)
        BY <2>2
      <3>2. Len(w.f.pg[w.cur].items) = Cap
        BY <1>5, <2>2, PagesAssumption, SMTT(90) DEF Room
      <3> HIDE DEF g, cur, t, hr, full, new
      <3>3. Len(s) < N
        <4>1. PICK L \in Nat : L = Len(s)
          BY <1>4
        <4>2. n - 1 = L * Cap
          <5>1. (L - 1) * Cap + Cap = L * Cap
            BY <4>1, PagesAssumption
          <5> QED BY <1>2, <3>2, <4>1, <5>1
        <4>3. n <= Len(kept) /\ n \in Nat /\ Len(kept) \in Nat
          OBVIOUS
        <4>4. L * Cap < N * Cap
          <5>1. L * Cap \in Int /\ N * Cap \in Int
            BY PagesAssumption
          <5> QED BY <4>2, <4>3, <5>1
        <4>5. N <= L => N * Cap <= L * Cap
          BY PagesAssumption
        <4>6. ~(N <= L)
          <5>1. L * Cap \in Int /\ N * Cap \in Int
            BY PagesAssumption
          <5> QED BY <4>4, <4>5, <5>1
        <4> QED BY <4>1, <4>6
      <3>4. Len(gr) \in Nat /\ Len(gr) >= 1 /\ gr # <<>>
        <4>1. Len(gr) \in Nat
          BY <1>2
        <4>2. PICK L \in Nat, R \in Nat : L = Len(s) /\ R = Len(gr)
          BY <1>4, <4>1
        <4>3. R >= 1
          BY <1>2, <3>3, <4>2
        <4>4. Len(<<>>) = 0
          OBVIOUS
        <4> QED BY <4>2, <4>3, <4>4
      <3>5. hr \in Seq(Nat) /\ Len(hr) = Len(gr) - 1
        BY <1>2, <3>1, <3>4 DEF Popped
      <3>6. /\ Shape(g, hr, With(cg, c, t), m) /\ SameBut(c, g, w.f)
            /\ g.pg[new] = ChatPage(c) /\ new \in DOMAIN g.pg
            /\ Tuples(g, t) = Tuples(w.f, s) /\ EntriesOf(g, t) = EntriesOf(w.f, s)
            /\ Owns(g, c) = Owns(w.f, c) \cup {new}
            /\ Len(g.pg) = Len(w.f.pg)
        <4> DEFINE ct == Append(cg[c], Allocated(w.f))
        <4> DEFINE k == Linked(AllocFor(w.f, c), cg[c], Allocated(w.f))
        <4>1. /\ Shape(k, Popped(gr), With(cg, c, ct), m) /\ SameBut(c, k, w.f)
              /\ k.pg[Allocated(w.f)] = ChatPage(c) /\ Allocated(w.f) \in DOMAIN k.pg
              /\ Tuples(k, ct) = Tuples(w.f, cg[c]) /\ EntriesOf(k, ct) = EntriesOf(w.f, cg[c])
              /\ Owns(k, c) = Owns(w.f, c) \cup {Allocated(w.f)}
              /\ gr # <<>> => Len(k.pg) = Len(w.f.pg)
          <5>1. Shape(w.f, gr, cg, m)
            BY <1>2
          <5> HIDE DEF cg, ct, k
          <5>2. Grew(Linked(AllocFor(w.f, c), cg[c], Allocated(w.f)), w.f, gr, cg, c, m)
            BY <5>1, ChatGrow
          <5>3. Grew(k, w.f, gr, cg, c, m)
            BY <5>2 DEF k
          <5> QED BY <5>3, Zenon DEF Grew, ct
        <4>2. ct = t /\ k = g /\ Allocated(w.f) = new /\ Popped(gr) = hr
          BY <1>3, <3>1 DEF new
        <4> HIDE DEF ct, k
        <4> QED BY <1>3, <3>4, <4>1, <4>2
      <3>7. Shape(g, hr, With(ch, c, t), m)
        BY <1>3, <3>6
      <3>8. t # <<>> /\ LastOf(t) = cur /\ HeadOf(t) = HeadOf(s) /\ ToSet(t) = ToSet(s) \cup {new} /\ Len(t) = Len(s) + 1
        <4> DEFINE S == DOMAIN w.f.pg \cup {new}
        <4>1. s \in Seq(S) /\ new \in S
          BY <1>4, SMTT(30)
        <4>2. /\ t \in Seq(S) /\ Len(t) = Len(s) + 1 /\ DOMAIN t = 1..(Len(s) + 1) /\ t[Len(s) + 1] = new
              /\ \A j \in 1..Len(s) : t[j] = s[j]
          BY <1>4, <3>1, <4>1
        <4>3. /\ \A j \in 1..(Len(s) + 1) : j = Len(s) + 1 \/ j \in 1..Len(s)
              /\ Len(s) + 1 \in 1..(Len(s) + 1) /\ (\A j \in 1..Len(s) : j \in 1..(Len(s) + 1)) /\ 1 \in 1..Len(s)
          BY <1>4, SMTT(30)
        <4>4. t # <<>>
          BY <1>4, <4>2
        <4>5. ToSet(t) = ToSet(s) \cup {new}
          <5>1. t = Append(s, new)
            BY <3>1
          <5> HIDE DEF S, t
          <5>2. ToSet(Append(s, new)) = ToSet(s) \cup {new}
            BY <4>1, AppendSet
          <5> QED BY <5>1, <5>2
        <4> QED BY <1>2, <3>1, <4>2, <4>3, <4>4, <4>5 DEF HeadOf, LastOf
      <3>9. Room(g.pg[cur]) /\ Len(g.pg[cur].items) = 0
        <4>1. g.pg[cur].kind = "chat" /\ g.pg[cur].items = <<>>
          BY <3>1, <3>6, ChatPageFacts
        <4> QED BY <4>1, PagesAssumption DEF Room
      <3>10. n - 1 = (Len(t) - 1) * Cap + 0
        <4>1. PICK L \in Nat : L = Len(s)
          BY <1>4
        <4>2. (L - 1) * Cap + Cap = L * Cap /\ L + 1 - 1 = L /\ L * Cap + 0 = L * Cap
          BY PagesAssumption
        <4> QED BY <1>2, <3>2, <3>8, <4>1, <4>2
      <3>11. Len(t) <= N /\ Len(hr) >= N - Len(t)
        <4>1. PICK L \in Nat : L = Len(s)
          BY <1>4
        <4>2. PICK R \in Nat : R = Len(gr)
          BY <3>4
        <4>3. Len(t) = L + 1 /\ Len(hr) = R - 1 /\ R >= N - L /\ L < N
          BY <1>2, <3>3, <3>5, <3>8, <4>1, <4>2
        <4> QED BY <4>3
      <3> QED BY <3>5, <3>6, <3>7, <3>8, <3>9, <3>10, <3>11
    <2> QED BY <2>1, <2>2
  <1> HIDE DEF g, cur, t, hr, full, new
  <1>8. With(ch, c, t)[c] = t
    BY SMTT(90) DEF With
  <1>9. /\ Shape(h, hr, With(ch, c, t), m) /\ SameBut(c, h, g)
        /\ Len(h.pg) = Len(g.pg) /\ Owns(h, c) = Owns(g, c)
        /\ h.pg[cur].items = Append(g.pg[cur].items, kept[n])
        /\ Tuples(h, t) = Append(Tuples(g, t), kept[n])
        /\ EntriesOf(h, t) = EntriesOf(g, t) \cup {<<i, cur, NextSlot(g.pg[cur])>>}
    <2> DEFINE ct == With(ch, c, t)
    <2> DEFINE z == LastOf(ct[c])
    <2> DEFINE k == Put(g, z, <<c, i>>)
    <2>1. Shape(g, hr, ct, m) /\ ct[c] # <<>> /\ Room(g.pg[z])
      BY <1>7, <1>8
    <2>2. z = cur /\ k = h /\ ct[c] = t
      BY <1>1, <1>7, <1>8
    <2> HIDE DEF ct
    <2>3. /\ Shape(k, hr, ct, m) /\ SameBut(c, k, g)
          /\ DOMAIN k.pg = DOMAIN g.pg /\ Len(k.pg) = Len(g.pg) /\ Owns(k, c) = Owns(g, c)
          /\ k.pg[z].items = Append(g.pg[z].items, <<c, i>>)
          /\ Tuples(k, ct[c]) = Append(Tuples(g, ct[c]), <<c, i>>)
          /\ EntriesOf(k, ct[c]) = EntriesOf(g, ct[c]) \cup {<<i, z, NextSlot(g.pg[z])>>}
      <3> HIDE DEF k, z
      <3>1. Gained(Put(g, LastOf(ct[c]), <<c, i>>), g, hr, ct, c, m, i)
        BY <2>1, ChatPut, SMTT(30) DEF z
      <3>2. Gained(k, g, hr, ct, c, m, i)
        BY <3>1 DEF k, z
      <3> QED BY <3>2, Zenon DEF Gained, z
    <2> HIDE DEF k, z, h
    <2> QED BY <1>1, <2>2, <2>3 DEF ct
  <1>10. Tuples(h, t) = SubSeq(kept, 1, n)
    BY <1>2, <1>7, <1>9, PrefixNext
  <1>11. Len(h.pg[cur].items) = Len(g.pg[cur].items) + 1 /\ Len(g.pg[cur].items) \in Nat
    <2>1. g \in File /\ cur \in DOMAIN g.pg
      <3>1. ChatPath(g, c, t)
        BY <1>7, <1>8 DEF Shape
      <3>2. t \in Seq(DOMAIN g.pg)
        BY <3>1 DEF ChatPath, Path
      <3> QED BY <1>7, <3>2, SMTT(90) DEF Shape, LastOf
    <2>2. g.pg[cur].items \in Seq(Tuple)
      BY <2>1, FileFacts, PageFacts
    <2>3. kept[n] \in Tuple
      BY <1>1 DEF Tuple
    <2> QED BY <1>9, <2>2, <2>3, SMTT(90)
  <1>12. n = (Len(t) - 1) * Cap + Len(h.pg[cur].items)
    <2>1. PICK k : k = (Len(t) - 1) * Cap
      OBVIOUS
    <2>2. t \in Seq(DOMAIN g.pg)
      <3>1. ChatPath(g, c, t)
        BY <1>7, <1>8 DEF Shape
      <3> QED BY <3>1 DEF ChatPath, Path
    <2>3. k \in Int
      BY <2>1, <2>2, PagesAssumption
    <2>4. PICK l \in Nat : l = Len(g.pg[cur].items) /\ Len(h.pg[cur].items) = l + 1
      BY <1>11
    <2> HIDE DEF h
    <2>5. n - 1 = k + l
      BY <1>7, <2>1, <2>4
    <2>6. n = k + (l + 1)
      BY <2>3, <2>4, <2>5
    <2> QED BY <2>1, <2>4, <2>6
  <1> DEFINE r == Rewrite(w, c, kept[n])
  <1>13. r.f = h /\ r.cur = cur /\ r.index = w.index \cup {<<kept[n][2], cur, NextSlot(g.pg[cur])>>}
    BY <1>6
  <1>14. kept[n][2] = i
    BY <1>1, SMTT(30)
  <1> HIDE DEF r, h
  <1>15. Writing(r, hr, t, f, ch, c, m, kept, N, n)
    <2>1. r.index = EntriesOf(r.f, t)
      BY <1>2, <1>7, <1>9, <1>13, <1>14
    <2>2. SameBut(c, r.f, f)
      BY <1>2, <1>7, <1>9, <1>13, SameButTrans, SMTT(30)
    <2>3. Owns(r.f, c) \subseteq Owns(f, c) \cup ToSet(t)
      BY <1>2, <1>7, <1>9, <1>13, SMTT(30)
    <2> QED BY <1>2, <1>7, <1>9, <1>10, <1>12, <1>13, <2>1, <2>2, <2>3, ZenonT(20) DEF Writing
  <1>16. r.f \in File
    BY <1>9, <1>13 DEF Shape
  <1> QED BY <1>15, <1>16 DEF r

\* The first page of the chat is allocated before the first message.
LEMMA RewriteBase ==
  ASSUME NEW f, NEW fr \in Seq(Nat), NEW ch, NEW c \in Chats, NEW m \in Nat, Shape(f, fr, ch, m), ch[c] = <<>>,
         NEW kept \in Seq({c} \X (1..m)), NEW N \in Nat, N >= 1, Len(fr) >= N
  PROVE  \E gr, s : Writing([f |-> AllocFor(f, c), cur |-> Allocated(f), index |-> {}], gr, s,
                            f, ch, c, m, kept, N, 0)
  <1> DEFINE new == Allocated(f)
  <1> DEFINE g == AllocFor(f, c)
  <1> DEFINE gr == Popped(fr)
  <1> DEFINE s == <<new>>
  <1> DEFINE w == [f |-> g, cur |-> new, index |-> {}]
  <1>1. Append(<<>>, new) = s
    OBVIOUS
  <1>2. /\ Shape(g, gr, With(ch, c, s), m) /\ SameBut(c, g, f)
        /\ g.pg[new] = ChatPage(c) /\ new \in DOMAIN g.pg
        /\ Tuples(g, s) = Tuples(f, <<>>) /\ EntriesOf(g, s) = EntriesOf(f, <<>>)
        /\ Owns(g, c) = Owns(f, c) \cup {new}
        /\ fr # <<>> => Len(g.pg) = Len(f.pg)
    <2>1. Grew(Linked(g, ch[c], new), f, fr, ch, c, m)
      BY ChatGrow
    <2>2. Linked(g, ch[c], new) = g
      BY DEF Linked
    <2> HIDE DEF g, new, gr
    <2>3. Grew(g, f, fr, ch, c, m)
      BY <2>1, <2>2
    <2> HIDE DEF s
    <2> QED BY <2>3, <1>1, Zenon DEF Grew, gr, new
  <1> HIDE DEF g, new
  <1>3. Len(s) = 1 /\ s[1] = new /\ s # <<>> /\ DOMAIN s = {1} /\ HeadOf(s) = new /\ LastOf(s) = new
    BY DEF HeadOf, LastOf
  <1>4. ToSet(s) = {new}
    BY <1>3 DEF ToSet
  <1> HIDE DEF s
  <1>5. fr # <<>> /\ Len(fr) \in Nat /\ Len(fr) >= 1
    <2>1. PICK L \in Nat : L = Len(fr)
      OBVIOUS
    <2>2. L >= 1
      BY <2>1
    <2>3. Len(<<>>) = 0
      OBVIOUS
    <2> QED BY <2>1, <2>2, <2>3
  <1>6. gr \in Seq(Nat) /\ Len(gr) = Len(fr) - 1
    BY <1>5 DEF Popped
  <1>7. EntriesOf(f, <<>>) = {}
    BY DEF EntriesOf, ToSet
  <1>8. SubSeq(kept, 1, 0) = <<>>
    OBVIOUS
  <1>9. Tuples(g, s) = SubSeq(kept, 1, 0)
    BY <1>2, <1>8, TuplesNone
  <1>10. Len(g.pg[new].items) = 0
    BY <1>2, ChatPageFacts
  <1>11. Len(s) <= N /\ Len(gr) >= N - Len(s) /\ 0 = (Len(s) - 1) * Cap + 0
    <2>1. PICK L \in Nat, R \in Int : L = Len(fr) /\ R = Len(gr) /\ R = L - 1 /\ L >= N
      BY <1>5, <1>6
    <2>2. R >= N - 1
      BY <2>1
    <2>3. (1 - 1) * Cap + 0 = 0
      BY PagesAssumption
    <2> QED BY <1>3, <2>1, <2>2, <2>3
  <1>12. w.f = g /\ w.cur = new /\ w.index = {}
    OBVIOUS
  <1> HIDE DEF w, gr
  <1>13. Writing(w, gr, s, f, ch, c, m, kept, N, 0)
    <2>1. w.index = EntriesOf(w.f, s) /\ HeadOf(s) = Allocated(f) /\ LastOf(s) = w.cur
      BY <1>2, <1>3, <1>7, <1>12 DEF new
    <2>2. Owns(w.f, c) \subseteq Owns(f, c) \cup ToSet(s) /\ Len(w.f.pg) = Len(f.pg)
      BY <1>2, <1>4, <1>5, <1>12
    <2>3. 0 = (Len(s) - 1) * Cap + Len(w.f.pg[w.cur].items)
      BY <1>10, <1>11, <1>12
    <2> QED BY <1>2, <1>3, <1>6, <1>9, <1>11, <1>12, <2>1, <2>2, <2>3 DEF Writing
  <1> QED BY <1>13 DEF w, g, new

\* What is kept is written again, from the free list alone.
LEMMA RewrittenEffect ==
  ASSUME NEW f, NEW fr \in Seq(Nat), NEW ch, NEW c \in Chats, NEW m \in Nat, Shape(f, fr, ch, m), ch[c] = <<>>,
         NEW kept \in Seq({c} \X (1..m)), kept # <<>>, NEW N \in Nat, Len(kept) <= N * Cap, Len(fr) >= N
  PROVE  \E gr, s : Writing(Rewritten(f, c, kept), gr, s, f, ch, c, m, kept, N, Len(kept))
  <1> DEFINE L == Len(kept)
  <1> DEFINE Is(w, n) == \E gr, s : Writing(w, gr, s, f, ch, c, m, kept, N, n)
  <1> DEFINE W == [f : File, cur : Nat, index : {EntriesOf(g, t) : g \in File, t \in Seq(Nat)}]
  <1> DEFINE V == [n \in 0..L |-> {w \in W : Is(w, n)}]
  <1> DEFINE first == [f |-> AllocFor(f, c), cur |-> Allocated(f), index |-> {}]
  <1>1. L \in Nat /\ L >= 1
    <2>1. L = 0 => kept = <<>>
      OBVIOUS
    <2> QED BY <2>1
  <1>2. N >= 1
    <2>1. 0 * Cap = 0
      BY PagesAssumption
    <2> HIDE DEF L
    <2>2. N # 0
      BY <1>1, <2>1 DEF L
    <2> QED BY <2>2
  <1>3. ASSUME NEW w, NEW n, Is(w, n), w = [f |-> w.f, cur |-> w.cur, index |-> w.index]
        PROVE  w \in W
    <2>1. PICK gr, s : Writing(w, gr, s, f, ch, c, m, kept, N, n)
      BY <1>3
    <2>2. w.f \in File
      BY <2>1 DEF Writing, Shape
    <2>3. s \in Seq(DOMAIN w.f.pg) /\ s # <<>>
      <3>1. ChatPath(w.f, c, With(ch, c, s)[c]) /\ With(ch, c, s)[c] = s
        BY <2>1 DEF Writing, Shape, With
      <3> QED BY <2>1, <3>1 DEF ChatPath, Path, Writing
    <2>4. s \in Seq(Nat)
      <3>1. DOMAIN w.f.pg \subseteq Nat
        BY <2>2, FileFacts, SMTT(30)
      <3> QED BY <2>3, <3>1, SMTT(30)
    <2>5. w.cur \in Nat
      <3>1. w.cur = s[Len(s)]
        BY <2>1, <2>3 DEF Writing, LastOf
      <3>2. Len(s) \in DOMAIN s
        BY <2>3
      <3> QED BY <2>4, <3>1, <3>2
    <2>6. w.index \in {EntriesOf(g, t) : g \in File, t \in Seq(Nat)}
      BY <2>1, <2>2, <2>4, SMTT(90) DEF Writing
    <2> QED BY <1>3, <2>2, <2>5, <2>6
  <1>4. first \in W /\ Is(first, 0)
    <2>1. Is(first, 0)
      BY <1>2, RewriteBase
    <2>2. first = [f |-> first.f, cur |-> first.cur, index |-> first.index]
      OBVIOUS
    <2> HIDE DEF W, first, Is
    <2> QED BY <1>3, <2>1, <2>2
  <1>5. ASSUME NEW n \in 1..L, NEW w, Is(w, n - 1)
        PROVE  Rewrite(w, c, kept[n]) \in W /\ Is(Rewrite(w, c, kept[n]), n)
    <2> DEFINE r == Rewrite(w, c, kept[n])
    <2>1. PICK gr, s : Writing(w, gr, s, f, ch, c, m, kept, N, n - 1)
      BY <1>5
    <2>2. Is(r, n)
      BY <2>1, RewriteStep
    <2>3. r = [f |-> r.f, cur |-> r.cur, index |-> r.index]
      BY DEF Rewrite
    <2> HIDE DEF W, r, Is
    <2>4. r \in W
      BY <1>3, <2>2, <2>3
    <2> QED BY <2>2, <2>4 DEF r
  <1> HIDE DEF W, Is, L, first
  <1>6. /\ 0 \in 0..L /\ L \in 0..L /\ \A n \in 1..L : n \in 0..L /\ n - 1 \in 0..L
        /\ \A n \in 0..L : V[n] = {w \in W : Is(w, n)}
    BY <1>1
  <1> HIDE DEF V
  <1>7. RewriteClosed(f, c, kept, V)
    <2>1. first \in V[0]
      BY <1>4, <1>6
    <2>2. ASSUME NEW n \in 1..L, NEW w \in V[n - 1]
          PROVE  Rewrite(w, c, kept[n]) \in V[n]
      <3>1. Is(w, n - 1)
        BY <1>6, <2>2
      <3>2. Rewrite(w, c, kept[n]) \in W /\ Is(Rewrite(w, c, kept[n]), n)
        BY <1>5, <3>1
      <3> QED BY <1>6, <2>2, <3>2
    <2> QED BY <2>1, <2>2 DEF RewriteClosed, first, L
  <1>8. PICK u : RewriteUpTo(f, c, kept, V, u)
    BY <1>1, <1>7, RewriteStages DEF L
  <1>9. Rewritten(f, c, kept) \in V[L]
    BY <1>6, <1>8 DEF RewriteUpTo, L
  <1>10. Is(Rewritten(f, c, kept), L)
    BY <1>6, <1>9
  <1> QED BY <1>10 DEF Is, L
-----------------------------------------------------------------------------
(* What the hot chain holds *)

\* s is the hot chain.
HotChain(f, s) ==
    /\ Path(f, s) /\ s # <<>> /\ s[1] = HotRoot
    /\ \A i \in DOMAIN s : f.pg[s[i]].kind = "hot"

\* The tuples on the pages of a chain.
Holding(f, s) == UNION {ToSet(f.pg[p].items) : p \in ToSet(s)}

\* The hot chain is found from the root.
LEMMA HotChainRead ==
  ASSUME NEW f \in File, NEW s, HotChain(f, s)
  PROVE  /\ Chain(f, HotRoot) = s /\ ToSet(Contents(f, HotRoot)) = Holding(f, s)
         /\ s \in Seq(DOMAIN f.pg) /\ Len(s) \in Nat \ {0} /\ DOMAIN s = 1..Len(s) /\ 1 \in DOMAIN s
  <1>1. Path(f, s) /\ s \in Seq(DOMAIN f.pg) /\ s # <<>> /\ s[1] = HotRoot
    BY DEF HotChain, Path
  <1>2. HeadOf(s) = HotRoot
    BY <1>1 DEF HeadOf
  <1>3. Chain(f, HeadOf(s)) = s
    BY <1>1, ChainOfPath
  <1>4. ToSet(Tuples(f, s)) = Holding(f, s)
    BY <1>1, TuplesSet DEF Holding
  <1>5. Len(s) \in Nat \ {0} /\ DOMAIN s = 1..Len(s) /\ 1 \in DOMAIN s
    BY <1>1
  <1> QED BY <1>1, <1>2, <1>3, <1>4, <1>5 DEF Contents

\* Where the hot pages are the same, so is what they hold.
LEMMA HotChainKept ==
  ASSUME NEW f, NEW s, HotChain(f, s), NEW g,
         \A q \in DOMAIN f.pg : q \in DOMAIN g.pg,
         \A q \in DOMAIN f.pg : f.pg[q].kind = "hot" => g.pg[q] = f.pg[q]
  PROVE  HotChain(g, s) /\ Holding(g, s) = Holding(f, s)
  <1>1. Path(f, s) /\ s \in Seq(DOMAIN f.pg) /\ s # <<>> /\ s[1] = HotRoot
        /\ \A i \in DOMAIN s : f.pg[s[i]].kind = "hot"
    BY DEF HotChain, Path
  <1>2. \A i \in DOMAIN s : s[i] \in DOMAIN f.pg /\ g.pg[s[i]] = f.pg[s[i]]
    BY <1>1
  <1>3. Path(g, s)
    BY <1>1, <1>2, PathKept
  <1>4. HotChain(g, s)
    BY <1>1, <1>2, <1>3 DEF HotChain
  <1>5. \A p \in ToSet(s) : g.pg[p] = f.pg[p]
    BY <1>2 DEF ToSet
  <1> QED BY <1>4, <1>5 DEF Holding

\* A chain that was cleared is the root, with nothing on it.
LEMMA HotCleared ==
  ASSUME NEW f \in File, NEW s, HotChain(f, s)
  PROVE  HotChain(ClearAll(f, s), <<HotRoot>>) /\ Holding(ClearAll(f, s), <<HotRoot>>) = {}
  <1> DEFINE N == Len(s)
  <1> DEFINE V == [n \in 0..N |-> {g \in File : DOMAIN g.pg = DOMAIN f.pg /\ (n > 0 => g.pg[HotRoot] = Blank("hot"))}]
  <1>1. /\ N \in Nat \ {0} /\ DOMAIN s = 1..N /\ 1 \in 1..N /\ s[1] = HotRoot
        /\ \A i \in 1..N : s[i] \in DOMAIN f.pg
    <2>1. s \in Seq(DOMAIN f.pg) /\ Len(s) \in Nat \ {0} /\ DOMAIN s = 1..Len(s) /\ 1 \in DOMAIN s
      BY HotChainRead
    <2> QED BY <2>1 DEF HotChain
  <1>2. \A n \in 0..N : V[n] = {g \in File : DOMAIN g.pg = DOMAIN f.pg /\ (n > 0 => g.pg[HotRoot] = Blank("hot"))}
    OBVIOUS
  <1> HIDE DEF V, N
  <1>3. 0 \in 0..N /\ N \in 0..N /\ N > 0 /\ \A n \in 1..N : n \in 0..N /\ n - 1 \in 0..N /\ (n = 1 \/ n - 1 > 0)
    BY <1>1
  <1>4. f \in V[0]
    BY <1>2, <1>3
  <1>5. ASSUME NEW n \in 1..N, NEW g \in V[n - 1]
        PROVE  ClearPage(g, s[n]) \in V[n]
    <2>1. g \in File /\ DOMAIN g.pg = DOMAIN f.pg /\ s[n] \in DOMAIN g.pg /\ Len(g.pg) \in Nat
          /\ (n = 1 \/ g.pg[HotRoot] = Blank("hot"))
      <3>1. g \in File /\ DOMAIN g.pg = DOMAIN f.pg /\ (n - 1 > 0 => g.pg[HotRoot] = Blank("hot"))
        BY <1>2, <1>3
      <3> QED BY <1>1, <1>3, <3>1, FileFacts
    <2>2. Blank("hot") \in Page /\ Blank("hot").kind = "hot" /\ Blank("hot").next = 0 /\ Len(Blank("hot").items) <= Size("hot")
      BY BlankPage
    <2> DEFINE h == ClearPage(g, s[n])
    <2> DEFINE b == Blank("hot")
    <2>3. h \in File /\ Writes(h, g, s[n], Blank("hot"))
      <3>1. b \in Page /\ b.next <= Len(g.pg) /\ Len(b.items) <= Size(b.kind)
        BY <2>1, <2>2
      <3>2. h = [g EXCEPT !.pg[s[n]] = b]
        BY DEF ClearPage
      <3> HIDE DEF b, h
      <3>3. [g EXCEPT !.pg[s[n]] = b] \in File /\ Writes([g EXCEPT !.pg[s[n]] = b], g, s[n], b)
        BY <2>1, <3>1, WriteEffect
      <3> QED BY <3>2, <3>3 DEF b
    <2> HIDE DEF b
    <2> HIDE DEF h
    <2>4. DOMAIN h.pg = DOMAIN f.pg /\ h.pg[HotRoot] = Blank("hot")
      <3>1. HotRoot \in DOMAIN g.pg
        BY <1>1, <2>1
      <3> QED BY <1>1, <2>1, <2>3, <3>1 DEF Writes
    <2>5. h \in V[n]
      BY <1>2, <1>3, <2>3, <2>4
    <2> QED BY <2>5 DEF h
  <1>6. PICK u : ClearUpTo(f, s, V, u)
    <2>1. ClearClosed(f, s, V) /\ Len(s) \in Nat
      BY <1>1, <1>4, <1>5 DEF ClearClosed, N
    <2> QED BY <2>1, ClearStages
  <1> DEFINE g == ClearAll(f, s)
  <1>7. g \in V[N]
    BY <1>3, <1>6 DEF ClearUpTo, N
  <1> HIDE DEF g
  <1>8. g \in File /\ HotRoot \in DOMAIN g.pg /\ g.pg[HotRoot] = Blank("hot")
    <2>1. HotRoot \in DOMAIN f.pg
      BY <1>1
    <2> QED BY <1>2, <1>3, <1>7, <2>1
  <1>9. Blank("hot").kind = "hot" /\ Blank("hot").next = 0 /\ Blank("hot").items = <<>>
    BY DEF Blank
  <1>10. Path(g, <<HotRoot>>)
    <2>1. <<HotRoot>> \in Seq(DOMAIN g.pg) /\ DOMAIN <<HotRoot>> = {1} /\ Len(<<HotRoot>>) = 1 /\ <<HotRoot>>[1] = HotRoot
      <3> DEFINE D == DOMAIN g.pg
      <3>1. HotRoot \in D
        BY <1>8
      <3> HIDE DEF D
      <3>2. <<HotRoot>> \in Seq(D) /\ Len(<<HotRoot>>) = 1 /\ <<HotRoot>>[1] = HotRoot
        BY <3>1, Singleton
      <3>3. DOMAIN <<HotRoot>> = {1}
        OBVIOUS
      <3> QED BY <3>2, <3>3 DEF D
    <2> QED BY <1>8, <1>9, <2>1 DEF Path
  <1>11. HotChain(g, <<HotRoot>>)
    BY <1>8, <1>9, <1>10 DEF HotChain
  <1>12. Holding(g, <<HotRoot>>) = {}
    BY <1>8, <1>9 DEF Holding, ToSet
  <1> QED BY <1>11, <1>12 DEF g

\* A tuple that goes to the hot chain is on it, with all that was.
LEMMA HotInserted ==
  ASSUME NEW f, NEW fr, NEW ch, NEW m \in Nat, Shape(f, fr, ch, m), NEW x \in Tuple,
         NEW s, HotChain(f, s)
  PROVE  \E t : /\ HotChain(InsertIntoChain(f, HotRoot, "hot", x), t)
                /\ Holding(InsertIntoChain(f, HotRoot, "hot", x), t) = Holding(f, s) \cup {x}
  <1> DEFINE at == RoomAt(f, s)
  <1> DEFINE new == Allocated(f)
  <1> DEFINE a == Alloc(f, "hot")
  <1> DEFINE z == Last(s)
  <1> DEFINE b == [a EXCEPT !.pg[z].next = new]
  <1> DEFINE g == IF at > 0 THEN Put(f, s[at], x) ELSE Put(b, new, x)
  <1>1. f \in File
    BY DEF Shape
  <1>2. /\ Chain(f, HotRoot) = s /\ s \in Seq(DOMAIN f.pg)
        /\ Len(s) \in Nat \ {0} /\ DOMAIN s = 1..Len(s) /\ 1 \in DOMAIN s
    BY <1>1, HotChainRead
  <1>3. g = InsertIntoChain(f, HotRoot, "hot", x)
    BY <1>2 DEF InsertIntoChain
  <1>4. /\ Path(f, s) /\ s # <<>> /\ s[1] = HotRoot
        /\ \A i \in DOMAIN s : s[i] \in DOMAIN f.pg /\ f.pg[s[i]].kind = "hot"
    BY <1>2 DEF HotChain
  <1>5. at = 0 \/ (at \in 1..Len(s) /\ Room(f.pg[s[at]]) /\ at > 0)
    BY <1>2, FirstRoom
  <1> HIDE DEF at
  <1>6. CASE at \in 1..Len(s) /\ Room(f.pg[s[at]]) /\ at > 0
    <2> DEFINE p == s[at]
    <2> DEFINE page == [f.pg[p] EXCEPT !.items = Append(@, x)]
    <2>1. p \in DOMAIN f.pg /\ p \in ToSet(s) /\ f.pg[p].kind = "hot" /\ Room(f.pg[p]) /\ g = Put(f, p, x)
      BY <1>2, <1>4, <1>6 DEF ToSet
    <2> HIDE DEF p, g
    <2>2. g \in File /\ Writes(g, f, p, page)
      BY <1>1, <2>1, PutEffect
    <2>3. f.pg[p] \in Page /\ f.pg[p].items \in Seq(Tuple)
      BY <1>1, <2>1, FileFacts, PageFacts
    <2>4. page.kind = "hot" /\ page.next = f.pg[p].next /\ page.items = Append(f.pg[p].items, x)
      BY <2>1, <2>3 DEF Page
    <2>5. ToSet(page.items) = ToSet(f.pg[p].items) \cup {x}
      <3>1. ToSet(Append(f.pg[p].items, x)) = ToSet(f.pg[p].items) \cup {x}
        BY <2>3, AppendSet
      <3> QED BY <2>4, <3>1
    <2> HIDE DEF page
    <2>6. /\ DOMAIN g.pg = DOMAIN f.pg /\ g.pg[p] = page
          /\ \A q \in DOMAIN f.pg : q # p => g.pg[q] = f.pg[q]
      BY <2>1, <2>2 DEF Writes
    <2>7. \A q \in DOMAIN f.pg : g.pg[q].next = f.pg[q].next /\ (f.pg[q].kind = "hot" => g.pg[q].kind = "hot")
      BY <2>1, <2>4, <2>6
    <2>8. HotChain(g, s)
      <3>1. Path(g, s)
        BY <1>4, <2>6, <2>7, PathKept
      <3> QED BY <1>4, <2>7, <3>1 DEF HotChain
    <2>9. Holding(g, s) = Holding(f, s) \cup {x}
      <3>1. \A q \in ToSet(s) : q \in DOMAIN f.pg
        BY <1>4 DEF ToSet
      <3>2. \A q \in ToSet(s) : ToSet(g.pg[q].items) = IF q = p THEN ToSet(f.pg[q].items) \cup {x} ELSE ToSet(f.pg[q].items)
        BY <2>5, <2>6, <3>1
      <3> QED BY <2>1, <3>2, ZenonT(30) DEF Holding
    <2> QED BY <1>3, <2>8, <2>9 DEF g
  <1>7. CASE at = 0
    <2>1. g = Put(b, new, x)
      BY <1>7
    <2>2. Takes(a, f, Blank("hot"))
      BY <1>1, AllocEffect
    <2>3. Blank("hot").kind = "hot" /\ Blank("hot").next = 0 /\ Blank("hot").items = <<>>
      BY DEF Blank
    <2> HIDE DEF a, g
    <2>4. Allocated(f) # 0 /\ Allocated(f) \in DOMAIN f.pg => f.pg[Allocated(f)].kind = "free"
      BY <2>2, <2>3, TakeShape
    <2>5. z \in DOMAIN f.pg /\ z = LastOf(s) /\ z # 0 /\ f.pg[z].kind = "hot" /\ DOMAIN f.pg = 1..Len(f.pg)
      <3>1. Len(s) \in DOMAIN s /\ z = s[Len(s)] /\ z = LastOf(s)
        BY <1>2, <1>4 DEF Last, LastOf
      <3>2. DOMAIN f.pg = 1..Len(f.pg) /\ Len(f.pg) \in Nat
        BY <1>1, FileFacts
      <3>3. s[Len(s)] \in DOMAIN f.pg /\ f.pg[s[Len(s)]].kind = "hot"
        BY <1>4, <3>1
      <3>4. s[Len(s)] # 0
        BY <3>2, <3>3
      <3> HIDE DEF z
      <3> QED BY <3>1, <3>2, <3>3, <3>4
    <2>6. /\ new \in DOMAIN a.pg /\ a.pg[new] = Blank("hot") /\ a \in File
          /\ \A q \in DOMAIN f.pg : q \in DOMAIN a.pg /\ (f.pg[q].kind = "hot" => q # new /\ a.pg[q] = f.pg[q])
      BY <2>2, <2>4, <2>5, SMTT(30) DEF Takes
    <2> HIDE DEF z, new
    <2>7. HotChain(a, s) /\ Holding(a, s) = Holding(f, s)
      BY <2>6, HotChainKept
    <2>8. \A i \in DOMAIN s : s[i] # new
      BY <1>4, <2>6
    <2> DEFINE page == [a.pg[z] EXCEPT !.next = new]
    <2>9. b \in File /\ Writes(b, a, z, page)
      BY <2>5, <2>6, LinkEffect
    <2>10. page.kind = "hot" /\ page.next = new /\ page.items = a.pg[z].items
      <3>1. a.pg[z] \in Page /\ a.pg[z].kind = "hot"
        BY <2>5, <2>6, FileFacts
      <3> QED BY <3>1 DEF Page
    <2> HIDE DEF b, page
    <2>11. /\ DOMAIN b.pg = DOMAIN a.pg /\ b.pg[z] = page /\ b.pg[new] = Blank("hot")
           /\ \A q \in DOMAIN a.pg : q # z => b.pg[q] = a.pg[q]
      BY <2>5, <2>6, <2>9 DEF Writes
    <2>12. Room(b.pg[new])
      BY <2>3, <2>11, PagesAssumption DEF Room
    <2> DEFINE last == [b.pg[new] EXCEPT !.items = Append(@, x)]
    <2>13. g \in File /\ Writes(g, b, new, last)
      BY <2>1, <2>6, <2>9, <2>11, <2>12, PutEffect
    <2>14. last.kind = "hot" /\ last.next = 0 /\ last.items = <<x>>
      <3>1. b.pg[new] \in Page
        BY <2>6, <2>9, <2>11, FileFacts
      <3>2. Append(<<>>, x) = <<x>>
        OBVIOUS
      <3> QED BY <2>3, <2>11, <3>1, <3>2 DEF Page
    <2> HIDE DEF last
    <2>15. /\ DOMAIN g.pg = DOMAIN a.pg /\ g.pg[new] = last /\ g.pg[z] = page
           /\ \A q \in DOMAIN a.pg : q # z /\ q # new => g.pg[q] = a.pg[q]
      BY <2>5, <2>6, <2>11, <2>13 DEF Writes
    <2>16. /\ \A q \in DOMAIN a.pg : g.pg[q].next = IF q = z THEN new ELSE a.pg[q].next
           /\ \A q \in DOMAIN a.pg : a.pg[q].kind = "hot" => g.pg[q].kind = "hot"
           /\ \A q \in DOMAIN a.pg : q # new => g.pg[q].items = a.pg[q].items
      BY <2>3, <2>6, <2>10, <2>14, <2>15
    <2> DEFINE t == Append(s, new)
    <2>17. Extends(g, a, s, new)
      <3>1. new \notin ToSet(s)
        BY <2>8 DEF ToSet
      <3>2. Path(a, s)
        BY <2>7 DEF HotChain
      <3> QED BY <1>4, <2>3, <2>5, <2>6, <2>15, <2>16, <3>1, <3>2 DEF Extends
    <2>18. Path(g, t) /\ ToSet(t) = ToSet(s) \cup {new} /\ HeadOf(t) = HeadOf(s)
      BY <1>4, <2>17, PathAppend
    <2>19. t # <<>> /\ t[1] = s[1] /\ \A i \in DOMAIN t : t[i] = new \/ t[i] \in ToSet(s)
      <3>1. /\ DOMAIN t = 1..(Len(s) + 1) /\ t[Len(s) + 1] = new
            /\ \A i \in 1..Len(s) : t[i] = s[i] /\ s[i] \in ToSet(s)
        BY <1>2 DEF ToSet
      <3>2. \A i \in 1..(Len(s) + 1) : i = Len(s) + 1 \/ i \in 1..Len(s)
        BY <1>2
      <3>3. 1 \in 1..Len(s) /\ 1 \in DOMAIN t
        BY <1>2, <3>1
      <3> QED BY <3>1, <3>2, <3>3
    <2> HIDE DEF t
    <2>20. \A q \in ToSet(s) : q \in DOMAIN a.pg /\ a.pg[q].kind = "hot" /\ q # new
      BY <1>4, <2>6, <2>8 DEF ToSet
    <2>21. HotChain(g, t)
      <3>1. \A i \in DOMAIN t : g.pg[t[i]].kind = "hot"
        BY <2>14, <2>15, <2>16, <2>19, <2>20
      <3> QED BY <1>4, <2>18, <2>19, <3>1 DEF HotChain
    <2>22. Holding(g, t) = Holding(f, s) \cup {x}
      <3>1. \A q \in ToSet(s) : g.pg[q].items = a.pg[q].items
        BY <2>16, <2>20
      <3>2. ToSet(g.pg[new].items) = {x}
        BY <2>14, <2>15 DEF ToSet
      <3>3. Holding(g, t) = Holding(a, s) \cup {x}
        BY <2>18, <3>1, <3>2 DEF Holding
      <3> QED BY <2>7, <3>3
    <2> QED BY <1>3, <2>21, <2>22 DEF g
  <1> QED BY <1>5, <1>6, <1>7

\* The tuples of a list all go to the hot chain.
LEMMA HotFilled ==
  ASSUME NEW f, NEW fr, NEW ch, NEW m \in Nat, Shape(f, fr, ch, m), NEW tuples \in Seq(Setting),
         NEW s, HotChain(f, s)
  PROVE  \E t : /\ HotChain(InsertAll(f, tuples), t)
                /\ Holding(InsertAll(f, tuples), t) = Holding(f, s) \cup ToSet(tuples)
  <1> DEFINE N == Len(tuples)
  <1> DEFINE First(n) == {tuples[i] : i \in 1..n}
  <1> DEFINE Is(g, n) == \E t : HotChain(g, t) /\ Holding(g, t) = Holding(f, s) \cup First(n)
  <1> DEFINE V == [n \in 0..N |-> {g \in File : (\E gr : Shape(g, gr, ch, m)) /\ Is(g, n)}]
  <1>1. N \in Nat /\ DOMAIN tuples = 1..N /\ First(0) = {} /\ First(N) = ToSet(tuples)
    BY DEF ToSet
  <1>2. \A n \in 1..N : tuples[n] \in Setting /\ First(n) = First(n - 1) \cup {tuples[n]}
    <2> SUFFICES ASSUME NEW n \in 1..N
                 PROVE  tuples[n] \in Setting /\ First(n) = First(n - 1) \cup {tuples[n]}
      OBVIOUS
    <2>1. \A j \in 1..n : j = n \/ j \in 1..(n - 1)
      OBVIOUS
    <2>2. n \in 1..n /\ \A j \in 1..(n - 1) : j \in 1..n
      OBVIOUS
    <2>3. First(n) = First(n - 1) \cup {tuples[n]}
      BY <2>1, <2>2
    <2> QED BY <1>1, <2>3
  <1> HIDE DEF First
  <1>3. \A n \in 0..N : V[n] = {g \in File : (\E gr : Shape(g, gr, ch, m)) /\ Is(g, n)}
    OBVIOUS
  <1> HIDE DEF V, N
  <1>4. 0 \in 0..N /\ N \in 0..N /\ \A n \in 1..N : n \in 0..N /\ n - 1 \in 0..N
    BY <1>1
  <1>5. f \in V[0]
    <2>1. f \in File
      BY DEF Shape
    <2>2. Is(f, 0)
      BY <1>1
    <2> HIDE DEF Is
    <2> QED BY <1>3, <1>4, <2>1, <2>2
  <1>6. ASSUME NEW n \in 1..N, NEW g \in V[n - 1]
        PROVE  InsertIntoChain(g, HotRoot, "hot", tuples[n]) \in V[n]
    <2> DEFINE h == InsertIntoChain(g, HotRoot, "hot", tuples[n])
    <2>1. PICK gr, t : Shape(g, gr, ch, m) /\ HotChain(g, t) /\ Holding(g, t) = Holding(f, s) \cup First(n - 1)
      BY <1>3, <1>4
    <2>2. tuples[n] \in Setting /\ First(n) = First(n - 1) \cup {tuples[n]}
      BY <1>2
    <2>3. \E hr : Shape(h, hr, ch, m)
      BY <2>1, <2>2, HotInsert
    <2>a. tuples[n] \in Tuple
      BY <2>2 DEF Setting, Tuple
    <2>4. \E w : HotChain(h, w) /\ Holding(h, w) = Holding(g, t) \cup {tuples[n]}
      BY <2>1, <2>2, <2>a, HotInserted, ZenonT(90)
    <2> HIDE DEF h
    <2>5. h \in File
      BY <2>3 DEF Shape
    <2>6. Is(h, n)
      BY <2>1, <2>2, <2>4
    <2> HIDE DEF Is
    <2>7. h \in V[n]
      BY <1>3, <1>4, <2>3, <2>5, <2>6
    <2> QED BY <2>7 DEF h
  <1>7. PICK u : FillUpTo(f, tuples, V, u)
    <2>1. FillClosed(f, tuples, V) /\ Len(tuples) \in Nat
      BY <1>1, <1>5, <1>6 DEF FillClosed, N
    <2> QED BY <2>1, FillStages
  <1>8. InsertAll(f, tuples) \in V[N]
    BY <1>4, <1>7 DEF FillUpTo, N
  <1>9. Is(InsertAll(f, tuples), N)
    <2> HIDE DEF Is
    <2> QED BY <1>3, <1>4, <1>8
  <1> QED BY <1>1, <1>9

\* Setting a key replaces its tuples on the hot chain and no others.
LEMMA HotWritten ==
  ASSUME NEW f, NEW fr, NEW ch, NEW m \in Nat, Shape(f, fr, ch, m), NEW k \in Keys, NEW v \in Vals,
         NEW s, HotChain(f, s)
  PROVE  \E t : /\ HotChain(WriteHot(f, k, v), t)
                /\ Holding(WriteHot(f, k, v), t) = {x \in Holding(f, s) : x[1] # k} \cup {<<k, v>>}
  <1> DEFINE g == ClearAll(f, s)
  <1> DEFINE others == TuplesBut(Contents(f, HotRoot), k)
  <1> DEFINE tuples == Append(others, <<k, v>>)
  <1>1. f \in File
    BY DEF Shape
  <1>2. /\ Chain(f, HotRoot) = s /\ ToSet(Contents(f, HotRoot)) = Holding(f, s)
        /\ s \in Seq(DOMAIN f.pg) /\ Len(s) \in Nat \ {0} /\ DOMAIN s = 1..Len(s)
    BY <1>1, HotChainRead
  <1>3. WriteHot(f, k, v) = InsertAll(g, tuples)
    BY <1>2 DEF WriteHot
  <1>4. Shape(g, fr, ch, m)
    <2>1. Len(s) \in Nat /\ \A i \in 1..Len(s) : s[i] \in DOMAIN f.pg /\ f.pg[s[i]].kind = "hot"
      BY <1>2 DEF HotChain
    <2> QED BY <2>1, ClearAllEffect
  <1>5. HotChain(g, <<HotRoot>>) /\ Holding(g, <<HotRoot>>) = {}
    BY <1>1, HotCleared
  <1>6. others \in Seq(Tuple) /\ ToSet(others) = {x \in Holding(f, s) : x[1] # k}
    <2>1. Contents(f, HotRoot) \in Seq(Tuple)
      BY <1>1, <1>2, TuplesSeq DEF Contents
    <2> QED BY <1>2, <2>1, TuplesButFacts
  <1>7. <<k, v>> \in Tuple
    BY DEF Tuple
  <1> HIDE DEF g, others
  <1>8. tuples \in Seq(Tuple) /\ ToSet(tuples) = ToSet(others) \cup {<<k, v>>}
    BY <1>6, <1>7, AppendSet
  <1>a. tuples \in Seq(Setting)
    BY NewSettings DEF others
  <1> HIDE DEF tuples
  <1>9. \E t : HotChain(InsertAll(g, tuples), t)
               /\ Holding(InsertAll(g, tuples), t) = Holding(g, <<HotRoot>>) \cup ToSet(tuples)
    BY <1>4, <1>5, <1>a, HotFilled
  <1> QED BY <1>3, <1>5, <1>6, <1>8, <1>9

-----------------------------------------------------------------------------
(* The memory of the store *)

\* What is kept in memory of a chain.
TipOf(f, s) == [head |-> HeadOf(s), tail |-> LastOf(s), count |-> Len(Tuples(f, s))]

\* The memory of the store, as the operations and the replay change it.
IsMemory(s) ==
    /\ s = [f |-> s.f, tips |-> s.tips, index |-> s.index, hotAt |-> s.hotAt, ring |-> s.ring, cp |-> s.cp]
    /\ s.tips = [c \in Chats |-> s.tips[c]] /\ s.index = [c \in Chats |-> s.index[c]]
    /\ s.hotAt = [k \in Keys |-> s.hotAt[k]] /\ s.ring = [c \in Chats |-> s.ring[c]]

\* The messages of a chain, without their chat.
Listed(f, s) == [i \in DOMAIN Tuples(f, s) |-> Tuples(f, s)[i][2]]

\* Reading from the head of a chain reads the chain.
LEMMA ReadChain ==
  ASSUME NEW f, NEW fr, NEW ch, NEW m, Shape(f, fr, ch, m), NEW c \in Chats
  PROVE  /\ Chain(f, HeadOf(ch[c])) = ch[c] /\ Contents(f, HeadOf(ch[c])) = Tuples(f, ch[c])
         /\ Messages(f, HeadOf(ch[c])) = Listed(f, ch[c])
         /\ Tuples(f, ch[c]) \in Seq({c} \X (1..m))
  <1>1. f \in File /\ Path(f, ch[c]) /\ ch[c] \in Seq(DOMAIN f.pg)
        /\ \A i \in DOMAIN ch[c] : ch[c][i] \in DOMAIN f.pg /\ f.pg[ch[c][i]].kind = "chat" /\ f.pg[ch[c][i]].chat = c
    BY DEF Shape, ChatPath, Path
  <1>2. Chain(f, HeadOf(ch[c])) = ch[c]
    BY <1>1, ChainOfPath
  <1>3. Contents(f, HeadOf(ch[c])) = Tuples(f, ch[c])
    BY <1>2 DEF Contents
  <1>4. Messages(f, HeadOf(ch[c])) = Listed(f, ch[c])
    BY <1>3, Zenon DEF Messages, Listed
  <1>5. Tuples(f, ch[c]) \in Seq({c} \X (1..m))
    <2> DEFINE all == Tuples(f, ch[c])
    <2>1. all \in Seq(Tuple) /\ ToSet(all) = UNION {ToSet(f.pg[p].items) : p \in ToSet(ch[c])}
      BY <1>1, TuplesSeq, TuplesSet
    <2>2. ASSUME NEW p \in ToSet(ch[c]), NEW x \in ToSet(f.pg[p].items)
          PROVE  x \in {c} \X (1..m)
      <3>1. p \in DOMAIN f.pg /\ f.pg[p].kind = "chat" /\ f.pg[p].chat = c
        BY <1>1, <2>2 DEF ToSet
      <3>2. OwnPage(f.pg[p], m)
        BY <3>1 DEF Shape
      <3> QED BY <2>2, <3>1, <3>2 DEF OwnPage, ToSet
    <2> HIDE DEF all
    <2>3. \A x \in ToSet(all) : x \in {c} \X (1..m)
      BY <2>1, <2>2
    <2>4. \A i \in DOMAIN all : all[i] \in {c} \X (1..m)
      BY <2>3 DEF ToSet
    <2>5. all \in Seq({c} \X (1..m))
      BY <2>1, <2>4
    <2> QED BY <2>5 DEF all
  <1> QED BY <1>2, <1>3, <1>4, <1>5

\* The two reads alone.
LEMMA ReadTuples ==
  ASSUME NEW f, NEW fr, NEW ch, NEW m, Shape(f, fr, ch, m), NEW c \in Chats
  PROVE  Contents(f, HeadOf(ch[c])) = Tuples(f, ch[c])
  BY ReadChain

LEMMA ReadListed ==
  ASSUME NEW f, NEW fr, NEW ch, NEW m, Shape(f, fr, ch, m), NEW c \in Chats
  PROVE  Messages(f, HeadOf(ch[c])) = Listed(f, ch[c])
  BY ReadChain

\* A trim keeps a part of the list, all of it where that is short.
LEMMA KeepLastFacts ==
  ASSUME NEW S, NEW all \in Seq(S), NEW keep \in Nat
  PROVE  /\ KeepLast(all, keep) \in Seq(S) /\ Len(KeepLast(all, keep)) <= Len(all)
         /\ Len(all) <= keep => KeepLast(all, keep) = all
  <1>1. PICK L \in Nat : L = Len(all) /\ DOMAIN all = 1..L
    OBVIOUS
  <1> DEFINE d == IF L > keep THEN L - keep ELSE 0
  <1>2. d \in 0..L /\ KeepLast(all, keep) = Drop(all, d)
    BY <1>1 DEF KeepLast, Drop
  <1>3. KeepLast(all, keep) \in Seq(S) /\ Len(KeepLast(all, keep)) = L - d
        /\ \A i \in 1..(L - d) : KeepLast(all, keep)[i] = all[d + i]
    <2> HIDE DEF d
    <2>1. d \in 0..Len(all)
      BY <1>1, <1>2
    <2>2. /\ Drop(all, d) \in Seq(S) /\ Len(Drop(all, d)) = Len(all) - d
          /\ \A i \in 1..(Len(all) - d) : Drop(all, d)[i] = all[d + i]
      BY <2>1, DropLen
    <2> QED BY <1>1, <1>2, <2>2
  <1>4. L - d <= L
    BY <1>2
  <1>5. ASSUME L <= keep
        PROVE  KeepLast(all, keep) = all
    <2>1. d = 0 /\ L - 0 = L
      BY <1>5
    <2> HIDE DEF d
    <2>2. \A i \in 1..L : 0 + i = i
      OBVIOUS
    <2>3. Len(KeepLast(all, keep)) = L /\ \A i \in 1..L : KeepLast(all, keep)[i] = all[i]
      BY <1>3, <2>1, <2>2
    <2> DEFINE k == KeepLast(all, keep)
    <2>4. k \in Seq(S)
      BY <1>3
    <2> HIDE DEF k
    <2>5. k = all
      BY <1>1, <2>3, <2>4 DEF k
    <2> QED BY <2>5 DEF k
  <1> QED BY <1>1, <1>3, <1>4, <1>5

\* r is s after a trim of the chat.
Trimmed(r, s, ch, c, keep, m) ==
    \E gr, t :
       /\ Shape(r.f, gr, With(ch, c, t), m)
       /\ IsMemory(r) /\ r.hotAt = s.hotAt /\ r.cp = s.cp
       /\ r.tips = [s.tips EXCEPT ![c] = TipOf(r.f, t)]
       /\ r.index = [s.index EXCEPT ![c] = EntriesOf(r.f, t)]
       /\ \A d \in Chats : d # c => r.ring[d] = s.ring[d]
       /\ \/ t = ch[c] /\ r.f = s.f /\ r.ring[c] = s.ring[c]
          \/ r.ring[c] = Newest(Listed(r.f, t))
       /\ Tuples(r.f, t) = KeepLast(Tuples(s.f, ch[c]), keep)
       /\ SameBut(c, r.f, s.f) /\ Len(r.f.pg) = Len(s.f.pg)
       /\ Owns(r.f, c) \subseteq ToSet(t) \cup (Owns(s.f, c) \ ToSet(ch[c]))

\* A trim leaves a chain of what it keeps.
LEMMA TrimEffect ==
  ASSUME NEW s, IsMemory(s), NEW fr, NEW ch, NEW m \in Nat, Shape(s.f, fr, ch, m), fr \in Seq(Nat),
         NEW c \in Chats, NEW keep \in Nat,
         s.tips[c] = TipOf(s.f, ch[c]), s.index[c] = EntriesOf(s.f, ch[c])
  PROVE  Trimmed(TrimChat(s, c, keep), s, ch, c, keep, m)
  <1> DEFINE r == TrimChat(s, c, keep)
  <1> DEFINE all == Tuples(s.f, ch[c])
  <1> DEFINE kept == KeepLast(all, keep)
  <1> DEFINE freed == FreeAll(s.f, ch[c])
  <1> DEFINE first == Allocated(freed)
  <1> DEFINE done == Rewritten(freed, c, kept)
  <1> DEFINE N == Len(ch[c])
  <1>1. /\ s.f \in File /\ ch[c] \in Seq(DOMAIN s.f.pg) /\ N \in Nat
        /\ \A i \in DOMAIN ch[c] : ch[c][i] \in DOMAIN s.f.pg /\ s.f.pg[ch[c][i]].kind = "chat"
    BY DEF Shape, ChatPath, Path
  <1>2. /\ Chain(s.f, s.tips[c].head) = ch[c] /\ Contents(s.f, s.tips[c].head) = all
        /\ s.tips[c].count = Len(all)
    <2>1. s.tips[c].head = HeadOf(ch[c]) /\ s.tips[c].count = Len(all)
      BY DEF TipOf
    <2>2. Chain(s.f, HeadOf(ch[c])) = ch[c] /\ Contents(s.f, HeadOf(ch[c])) = all
      <3>1. Path(s.f, ch[c])
        BY DEF Shape, ChatPath
      <3>2. Chain(s.f, HeadOf(ch[c])) = ch[c]
        BY <1>1, <3>1, ChainOfPath
      <3> QED BY <3>2 DEF Contents
    <2> QED BY <2>1, <2>2
  <1>3. all \in Seq({c} \X (1..m)) /\ Len(all) <= N * Cap /\ Len(all) \in Nat
    <2>1. Len(all) <= N * Cap
      BY <1>1, TuplesLen
    <2>2. all \in Seq({c} \X (1..m))
      BY ReadChain
    <2> HIDE DEF all, N
    <2> QED BY <2>1, <2>2
  <1>4. kept \in Seq({c} \X (1..m)) /\ Len(kept) <= Len(all) /\ (Len(all) <= keep => kept = all)
    <2> HIDE DEF all
    <2> QED BY <1>3, KeepLastFacts
  <1>5. r = IF Len(all) <= keep THEN s
            ELSE IF kept = <<>>
            THEN [s EXCEPT !.f = freed, !.tips[c] = NoTip, !.index[c] = {}, !.ring[c] = <<>>]
            ELSE [s EXCEPT !.f = done.f, !.index[c] = done.index,
                           !.ring[c] = Newest(Messages(done.f, first)),
                           !.tips[c] = [head |-> first, tail |-> done.cur, count |-> Len(kept)]]
    BY <1>2, ZenonT(90) DEF TrimChat
  <1>6. PICK gr : /\ Shape(freed, gr, With(ch, c, <<>>), m) /\ gr \in Seq(Nat) /\ Len(gr) = Len(fr) + N
                  /\ SameBut(c, freed, s.f) /\ Len(freed.pg) = Len(s.f.pg)
                  /\ Owns(freed, c) \subseteq Owns(s.f, c) \ ToSet(ch[c])
    <2>1. Freed(freed, s.f, fr, ch, c, m, N)
      BY FreeAllEffect
    <2>2. Drop(ch[c], N) = <<>>
      BY <1>1 DEF Drop
    <2>3. ToSet(ch[c]) = {ch[c][i] : i \in 1..N}
      BY <1>1 DEF ToSet
    <2> HIDE DEF freed, N
    <2> QED BY <2>1, <2>2, <2>3 DEF Freed
  <1> HIDE DEF r, all, kept, freed, first, done, N
  <1>7. CASE Len(all) <= keep
    <2>1. r = s /\ kept = all
      BY <1>4, <1>5, <1>7
    <2>2. With(ch, c, ch[c]) = [d \in Chats |-> ch[d]]
      BY DEF With
    <2>3. Shape(r.f, fr, With(ch, c, ch[c]), m)
      <3>1. \A d \in Chats : With(ch, c, ch[c])[d] = ch[d]
        BY DEF With
      <3> QED BY <2>1, <3>1, ShapeOnly
    <2>4. r.tips = [s.tips EXCEPT ![c] = TipOf(r.f, ch[c])] /\ r.index = [s.index EXCEPT ![c] = EntriesOf(r.f, ch[c])]
      BY <2>1 DEF IsMemory
    <2>5. SameBut(c, r.f, s.f)
      BY <2>1 DEF SameBut
    <2>6. Owns(r.f, c) \subseteq ToSet(ch[c]) \cup (Owns(s.f, c) \ ToSet(ch[c]))
      BY <2>1
    <2>7. Tuples(r.f, ch[c]) = KeepLast(Tuples(s.f, ch[c]), keep)
      BY <2>1 DEF kept, all
    <2>8. Trimmed(r, s, ch, c, keep, m)
      BY <2>1, <2>3, <2>4, <2>5, <2>6, <2>7 DEF Trimmed
    <2> QED BY <2>8 DEF r
  <1>8. CASE ~(Len(all) <= keep) /\ kept = <<>>
    <2>1. r = [s EXCEPT !.f = freed, !.tips[c] = NoTip, !.index[c] = {}, !.ring[c] = <<>>]
      BY <1>5, <1>8
    <2>2. Tuples(freed, <<>>) = <<>> /\ EntriesOf(freed, <<>>) = {} /\ TipOf(freed, <<>>) = NoTip
      <3>1. Tuples(freed, <<>>) = <<>>
        BY TuplesNone
      <3> QED BY <3>1 DEF EntriesOf, ToSet, TipOf, NoTip, HeadOf, LastOf
    <2>3. Newest(Listed(freed, <<>>)) = <<>>
      <3>1. Listed(freed, <<>>) = <<>>
        BY <2>2 DEF Listed
      <3>2. Newest(<<>>) = <<>>
        <4>1. Len(<<>>) = 0 /\ ~(0 > RingMax)
          BY StoreAssumption
        <4>2. Newest(<<>>) = SubSeq(<<>>, 0 + 1, 0)
          BY <4>1 DEF Newest
        <4> QED BY <4>2
      <3> QED BY <3>1, <3>2
    <2>4. /\ r.f = freed /\ r.hotAt = s.hotAt /\ r.cp = s.cp
          /\ r.tips = [s.tips EXCEPT ![c] = NoTip] /\ r.index = [s.index EXCEPT ![c] = {}]
          /\ r.ring = [s.ring EXCEPT ![c] = <<>>]
          /\ r = [f |-> r.f, tips |-> r.tips, index |-> r.index, hotAt |-> r.hotAt, ring |-> r.ring, cp |-> r.cp]
      BY <2>1 DEF IsMemory
    <2>5. IsMemory(r) /\ r.ring[c] = <<>> /\ \A d \in Chats : d # c => r.ring[d] = s.ring[d]
      BY <2>4 DEF IsMemory
    <2>6. Trimmed(r, s, ch, c, keep, m)
      <3>1. Shape(r.f, gr, With(ch, c, <<>>), m)
        BY <1>6, <2>4
      <3>2. r.ring[c] = Newest(Listed(r.f, <<>>)) /\ r.tips = [s.tips EXCEPT ![c] = TipOf(r.f, <<>>)]
            /\ r.index = [s.index EXCEPT ![c] = EntriesOf(r.f, <<>>)]
        BY <2>2, <2>3, <2>4, <2>5
      <3>3. Tuples(r.f, <<>>) = KeepLast(Tuples(s.f, ch[c]), keep)
        BY <1>8, <2>2, <2>4 DEF kept, all
      <3>4. SameBut(c, r.f, s.f) /\ Len(r.f.pg) = Len(s.f.pg)
            /\ Owns(r.f, c) \subseteq ToSet(<<>>) \cup (Owns(s.f, c) \ ToSet(ch[c]))
        BY <1>6, <2>4
      <3> QED BY <2>4, <2>5, <3>1, <3>2, <3>3, <3>4 DEF Trimmed
    <2> QED BY <2>6 DEF r
  <1>9. CASE ~(Len(all) <= keep) /\ kept # <<>>
    <2>1. PICK hr, t : Writing(done, hr, t, freed, With(ch, c, <<>>), c, m, kept, N, Len(kept))
      <3>1. Len(kept) <= N * Cap /\ N \in Nat /\ Len(gr) >= N
        <4>1. PICK R \in Nat : R = Len(fr)
          OBVIOUS
        <4>2. Len(gr) >= N
          BY <1>1, <1>6, <4>1
        <4>3. Len(kept) \in Nat /\ N * Cap \in Int
          BY <1>1, <1>4, PagesAssumption
        <4> QED BY <1>1, <1>3, <1>4, <4>2, <4>3
      <3>2. With(ch, c, <<>>)[c] = <<>>
        BY DEF With
      <3> DEFINE cg == With(ch, c, <<>>)
      <3>3. Shape(freed, gr, cg, m) /\ cg[c] = <<>>
        BY <1>6, <3>2
      <3> HIDE DEF cg
      <3>4. \E hr, t : Writing(Rewritten(freed, c, kept), hr, t, freed, cg, c, m, kept, N, Len(kept))
        BY <1>4, <1>6, <1>9, <3>1, <3>3, RewrittenEffect
      <3> QED BY <3>4 DEF done, cg
    <2>2. With(With(ch, c, <<>>), c, t) = With(ch, c, t) /\ With(ch, c, t)[c] = t
      <3>1. \A r0 : With(With(ch, c, r0), c, t) = With(ch, c, t)
        BY WithWith
      <3> QED BY <3>1, Zenon DEF With
    <2>3. Shape(done.f, hr, With(ch, c, t), m)
      BY <2>1, <2>2, SMTT(30) DEF Writing
    <2>4. Tuples(done.f, t) = kept
      <3>1. SubSeq(kept, 1, Len(kept)) = kept
        BY <1>4, SMTT(30)
      <3> QED BY <2>1, <3>1 DEF Writing
    <2>5. HeadOf(t) = first /\ LastOf(t) = done.cur /\ done.index = EntriesOf(done.f, t)
      BY <2>1 DEF Writing, first
    <2>6. Messages(done.f, first) = Listed(done.f, t)
      <3> DEFINE cg == With(ch, c, t)
      <3>1. Shape(done.f, hr, cg, m) /\ cg[c] = t
        BY <2>2, <2>3
      <3> HIDE DEF cg
      <3>2. Messages(done.f, HeadOf(cg[c])) = Listed(done.f, cg[c])
        BY <3>1, ReadListed
      <3> QED BY <2>5, <3>1, <3>2
    <2>7. r = [s EXCEPT !.f = done.f, !.index[c] = done.index,
                        !.ring[c] = Newest(Listed(done.f, t)),
                        !.tips[c] = [head |-> first, tail |-> done.cur, count |-> Len(kept)]]
      BY <1>5, <1>9, <2>6
    <2>8. TipOf(done.f, t) = [head |-> first, tail |-> done.cur, count |-> Len(kept)]
      BY <2>4, <2>5 DEF TipOf
    <2>9. /\ r.f = done.f /\ r.hotAt = s.hotAt /\ r.cp = s.cp
          /\ r.tips = [s.tips EXCEPT ![c] = TipOf(done.f, t)] /\ r.index = [s.index EXCEPT ![c] = EntriesOf(done.f, t)]
          /\ r.ring = [s.ring EXCEPT ![c] = Newest(Listed(done.f, t))]
          /\ r = [f |-> r.f, tips |-> r.tips, index |-> r.index, hotAt |-> r.hotAt, ring |-> r.ring, cp |-> r.cp]
      BY <2>5, <2>7, <2>8 DEF IsMemory
    <2>10. IsMemory(r) /\ r.ring[c] = Newest(Listed(done.f, t)) /\ \A d \in Chats : d # c => r.ring[d] = s.ring[d]
      BY <2>9 DEF IsMemory
    <2>11. SameBut(c, r.f, s.f) /\ Len(r.f.pg) = Len(s.f.pg)
      BY <1>6, <2>1, <2>9, SameButTrans DEF Writing
    <2>12. Owns(r.f, c) \subseteq ToSet(t) \cup (Owns(s.f, c) \ ToSet(ch[c]))
      BY <1>6, <2>1, <2>9 DEF Writing
    <2>13. Tuples(r.f, t) = KeepLast(Tuples(s.f, ch[c]), keep)
      BY <2>4, <2>9 DEF kept, all
    <2>14. Trimmed(r, s, ch, c, keep, m)
      <3>1. Shape(r.f, hr, With(ch, c, t), m) /\ r.ring[c] = Newest(Listed(r.f, t))
            /\ r.tips = [s.tips EXCEPT ![c] = TipOf(r.f, t)] /\ r.index = [s.index EXCEPT ![c] = EntriesOf(r.f, t)]
        BY <2>3, <2>9, <2>10
      <3> QED BY <2>9, <2>10, <2>11, <2>12, <2>13, <3>1 DEF Trimmed
    <2> QED BY <2>14 DEF r
  <1> QED BY <1>7, <1>8, <1>9, SMTT(30)

-----------------------------------------------------------------------------
(* The chats as the store keeps them *)

\* The chains ch, what is kept in memory of them, and no chat page but theirs and extra.
Stored(f, fr, ch, n, tip, idx, extra) ==
    /\ Shape(f, fr, ch, n)
    /\ \A c \in Chats :
          /\ tip[c] = TipOf(f, ch[c]) /\ idx[c] = EntriesOf(f, ch[c])
          /\ Owns(f, c) \subseteq ToSet(ch[c]) \cup extra
    /\ \A p \in DOMAIN f.pg : f.pg[p].kind = "chat" => f.pg[p].chat \in Chats

\* A chain whose pages are the same.
SamePages(c, g, f) ==
    \A p \in DOMAIN f.pg : f.pg[p].kind = "chat" /\ f.pg[p].chat = c => g.pg[p] = f.pg[p]

\* A chain whose pages are the same is kept as before.
LEMMA ChainSame ==
  ASSUME NEW f, NEW g, NEW fr, NEW ch, NEW n, Shape(f, fr, ch, n), NEW c \in Chats, SamePages(c, g, f)
  PROVE  TipOf(g, ch[c]) = TipOf(f, ch[c]) /\ EntriesOf(g, ch[c]) = EntriesOf(f, ch[c])
         /\ Tuples(g, ch[c]) = Tuples(f, ch[c])
  <1>1. f \in File /\ ch[c] \in Seq(DOMAIN f.pg)
        /\ \A i \in DOMAIN ch[c] : ch[c][i] \in DOMAIN f.pg /\ f.pg[ch[c][i]].kind = "chat" /\ f.pg[ch[c][i]].chat = c
    BY DEF Shape, ChatPath, Path
  <1>2. \A i \in DOMAIN ch[c] : g.pg[ch[c][i]] = f.pg[ch[c][i]]
    BY <1>1 DEF SamePages
  <1>3. Tuples(g, ch[c]) = Tuples(f, ch[c])
    <2>1. \A i \in DOMAIN ch[c] : g.pg[ch[c][i]].items = f.pg[ch[c][i]].items
      BY <1>2
    <2> QED BY <1>1, <2>1, TuplesSame
  <1>4. EntriesOf(g, ch[c]) = EntriesOf(f, ch[c])
    <2>1. \A p \in ToSet(ch[c]) : g.pg[p] = f.pg[p]
      BY <1>2 DEF ToSet
    <2>2. \A p \in ToSet(ch[c]) : Entries(g, p) = Entries(f, p)
      BY <2>1 DEF Entries
    <2> QED BY <2>2 DEF EntriesOf
  <1> QED BY <1>3, <1>4 DEF TipOf

\* The chat c has the chain t now, and nothing else has changed.
ChangesTo(f, tip, idx, X, c, g, t, Y, ntip, nidx) ==
    /\ tip = [d \in Chats |-> tip[d]] /\ idx = [d \in Chats |-> idx[d]]
    /\ \A d \in Chats : d # c => Owns(f, d) \cap X = {}
    /\ SameBut(c, g, f) /\ Owns(g, c) \subseteq ToSet(t) \cup Y
    /\ ntip = [tip EXCEPT ![c] = TipOf(g, t)]
    /\ nidx = [idx EXCEPT ![c] = EntriesOf(g, t)]

\* A change to one chat leaves the others as they are kept.
LEMMA StoredChat ==
  ASSUME NEW f, NEW fr, NEW ch, NEW n, NEW tip, NEW idx, NEW X, Stored(f, fr, ch, n, tip, idx, X),
         NEW c \in Chats, NEW g, NEW gr, NEW t, NEW m, Shape(g, gr, With(ch, c, t), m),
         NEW Y, NEW ntip, NEW nidx, ChangesTo(f, tip, idx, X, c, g, t, Y, ntip, nidx)
  PROVE  Stored(g, gr, With(ch, c, t), m, ntip, nidx, Y)
  <1> DEFINE cg == With(ch, c, t)
  <1>0. /\ \A d \in Chats : d # c => Owns(f, d) \cap X = {}
        /\ SameBut(c, g, f) /\ Owns(g, c) \subseteq ToSet(t) \cup Y
    BY DEF ChangesTo
  <1>1. /\ cg[c] = t /\ ntip[c] = TipOf(g, t) /\ nidx[c] = EntriesOf(g, t)
        /\ \A d \in Chats : d # c => cg[d] = ch[d] /\ ntip[d] = tip[d] /\ nidx[d] = idx[d]
    BY DEF With, ChangesTo
  <1> HIDE DEF cg
  <1>2. Shape(f, fr, ch, n)
    BY DEF Stored
  <1>3. ASSUME NEW d \in Chats, d # c
        PROVE  /\ ntip[d] = TipOf(g, cg[d]) /\ nidx[d] = EntriesOf(g, cg[d])
               /\ Owns(g, d) \subseteq ToSet(cg[d]) \cup Y
    <2>1. SamePages(d, g, f)
      BY <1>0, <1>3 DEF SameBut, SamePages
    <2>2. TipOf(g, ch[d]) = TipOf(f, ch[d]) /\ EntriesOf(g, ch[d]) = EntriesOf(f, ch[d])
      BY <1>2, <2>1, ChainSame
    <2>3. tip[d] = TipOf(f, ch[d]) /\ idx[d] = EntriesOf(f, ch[d]) /\ Owns(f, d) \subseteq ToSet(ch[d]) \cup X
      BY DEF Stored
    <2>4. Owns(g, d) \subseteq Owns(f, d)
      BY <1>0, <1>3 DEF SameBut, Owns
    <2> QED BY <1>0, <1>1, <1>3, <2>2, <2>3, <2>4
  <1>4. ASSUME NEW p \in DOMAIN g.pg, g.pg[p].kind = "chat"
        PROVE  g.pg[p].chat \in Chats
    <2>1. CASE g.pg[p].chat = c
      BY <2>1
    <2>2. CASE g.pg[p].chat # c
      <3>1. p \in DOMAIN f.pg /\ f.pg[p].kind = "chat" /\ f.pg[p].chat # c
        BY <1>0, <1>4, <2>2 DEF SameBut
      <3>2. g.pg[p] = f.pg[p]
        BY <1>0, <3>1 DEF SameBut
      <3> QED BY <3>1, <3>2 DEF Stored
    <2> QED BY <2>1, <2>2
  <1>5. \A d \in Chats : /\ ntip[d] = TipOf(g, cg[d]) /\ nidx[d] = EntriesOf(g, cg[d])
                         /\ Owns(g, d) \subseteq ToSet(cg[d]) \cup Y
    <2> TAKE d \in Chats
    <2>1. CASE d = c
      BY <1>0, <1>1, <2>1
    <2>2. CASE d # c
      BY <1>3, <2>2
    <2> QED BY <2>1, <2>2
  <1>6. Stored(g, gr, cg, m, ntip, nidx, Y)
    <2>1. Shape(g, gr, cg, m)
      BY DEF cg
    <2> QED BY <1>4, <1>5, <2>1 DEF Stored
  <1> QED BY <1>6 DEF cg

\* A change to the hot pages.
LEMMA StoredHot ==
  ASSUME NEW f, NEW fr, NEW ch, NEW n, NEW tip, NEW idx, NEW X, Stored(f, fr, ch, n, tip, idx, X),
         NEW g, NEW gr, Shape(g, gr, ch, n), SameButHot(g, f)
  PROVE  Stored(g, gr, ch, n, tip, idx, X)
  <1>1. Shape(f, fr, ch, n)
    BY DEF Stored
  <1>2. ASSUME NEW d \in Chats
        PROVE  /\ tip[d] = TipOf(g, ch[d]) /\ idx[d] = EntriesOf(g, ch[d])
               /\ Owns(g, d) \subseteq ToSet(ch[d]) \cup X
    <2>1. SamePages(d, g, f)
      BY DEF SameButHot, SamePages
    <2>2. TipOf(g, ch[d]) = TipOf(f, ch[d]) /\ EntriesOf(g, ch[d]) = EntriesOf(f, ch[d])
      BY <1>1, <2>1, ChainSame
    <2>3. Owns(g, d) \subseteq Owns(f, d)
      BY DEF SameButHot, Owns
    <2> QED BY <2>2, <2>3 DEF Stored
  <1>3. \A p \in DOMAIN g.pg : g.pg[p].kind = "chat" => g.pg[p].chat \in Chats
    BY DEF Stored, SameButHot
  <1> QED BY <1>2, <1>3 DEF Stored

\* One message more was posted.
LEMMA ShapeMore ==
  ASSUME NEW f, NEW fr, NEW ch, NEW m \in Nat, Shape(f, fr, ch, m)
  PROVE  Shape(f, fr, ch, m + 1)
  <1>1. ASSUME NEW p \in DOMAIN f.pg
        PROVE  OwnPage(f.pg[p], m + 1)
    <2>1. OwnPage(f.pg[p], m)
      BY DEF Shape
    <2>2. 1..m \subseteq 1..(m + 1)
      OBVIOUS
    <2> QED BY <2>1, <2>2 DEF OwnPage
  <1> QED BY <1>1 DEF Shape

\* The hot keys that were found are on hot pages.
HotAtHot(f, at) == \A k \in Keys : at[k] = 0 \/ (at[k] \in DOMAIN f.pg /\ f.pg[at[k]].kind = "hot")

\* Hot pages stay hot.
LEMMA HotAtKept ==
  ASSUME NEW f, NEW at, HotAtHot(f, at), NEW g, SameButHot(g, f) \/ \E c : SameBut(c, g, f)
  PROVE  HotAtHot(g, at)
  BY SMTT(30) DEF HotAtHot, SameButHot, SameBut

\* r is s after the message n was put at the end of the chat.
Inserted(r, s, fr, ch, c, n) ==
    /\ IsMemory(r) /\ Stored(r.f, fr, ch, n, r.tips, r.index, {})
    /\ SameBut(c, r.f, s.f) /\ Len(r.f.pg) = Len(s.f.pg)
    /\ r.hotAt = s.hotAt /\ r.cp = s.cp
    /\ r.ring = [s.ring EXCEPT ![c] = Newest(Append(@, n))]
    /\ Tuples(r.f, ch[c]) = Append(Tuples(s.f, ch[c]), <<c, n>>)

\* The message goes to the chat's last page.
LEMMA InsertEffect ==
  ASSUME NEW s, IsMemory(s), NEW fr, NEW ch, NEW m \in Nat, Stored(s.f, fr, ch, m, s.tips, s.index, {}),
         NEW c \in Chats, ch[c] # <<>>, Room(s.f.pg[LastOf(ch[c])])
  PROVE  Inserted([RedoInsert(s, c, s.tips[c].tail, m + 1) EXCEPT !.tips[c].count = @ + 1,
                                                                  !.ring[c] = Newest(Append(@, m + 1))],
                  s, fr, ch, c, m + 1)
  <1> DEFINE n == m + 1
  <1> DEFINE p == LastOf(ch[c])
  <1> DEFINE page == s.f.pg[p]
  <1> DEFINE g == Put(s.f, p, <<c, n>>)
  <1> DEFINE a == RedoInsert(s, c, p, n)
  <1> DEFINE r == [a EXCEPT !.tips[c].count = @ + 1, !.ring[c] = Newest(Append(@, n))]
  <1>1. /\ Shape(s.f, fr, ch, m) /\ Shape(s.f, fr, ch, n) /\ n \in 1..n /\ n \in Nat
        /\ s.tips[c] = TipOf(s.f, ch[c]) /\ s.index[c] = EntriesOf(s.f, ch[c]) /\ s.tips[c].tail = p
    <2>1. Shape(s.f, fr, ch, m) /\ s.tips[c] = TipOf(s.f, ch[c]) /\ s.index[c] = EntriesOf(s.f, ch[c])
      BY DEF Stored
    <2>2. Shape(s.f, fr, ch, m + 1)
      BY <2>1, ShapeMore, SMTT(30)
    <2> QED BY <2>1, <2>2 DEF TipOf
  <1>2. /\ s.f \in File /\ p \in DOMAIN s.f.pg /\ page \in Page /\ page.kind = "chat" /\ page.chat = c
        /\ OwnPage(page, m) /\ ch[c] \in Seq(DOMAIN s.f.pg)
        /\ \A i \in DOMAIN ch[c] : ch[c][i] \in DOMAIN s.f.pg /\ s.f.pg[ch[c][i]].kind = "chat" /\ s.f.pg[ch[c][i]].chat = c
    <2>1. /\ s.f \in File /\ ch[c] \in Seq(DOMAIN s.f.pg)
          /\ \A i \in DOMAIN ch[c] : ch[c][i] \in DOMAIN s.f.pg /\ s.f.pg[ch[c][i]].kind = "chat" /\ s.f.pg[ch[c][i]].chat = c
      BY <1>1, SMTT(30) DEF Shape, ChatPath, Path
    <2>2. Len(ch[c]) \in DOMAIN ch[c] /\ p = ch[c][Len(ch[c])]
      BY <2>1, SMTT(30) DEF LastOf
    <2> HIDE DEF p
    <2>3. p \in DOMAIN s.f.pg /\ page.kind = "chat" /\ page.chat = c
      BY <2>1, <2>2
    <2>4. page \in Page
      BY <2>1, <2>3, FileFacts, SMTT(30)
    <2> QED BY <1>1, <2>1, <2>3, <2>4, SMTT(30) DEF Shape
  <1> HIDE DEF p
  <1>3. SlotOf(page, n) = 0
    <2>1. \A i \in 1..Len(page.items) : page.items[i][2] # n
      <3>1. page.items \in Seq(Tuple)
        BY <1>2, PageFacts
      <3>2. DOMAIN page.items = 1..Len(page.items)
        BY <3>1, SMTT(30)
      <3>3. \A i \in DOMAIN page.items : page.items[i] \in {c} \X (1..m)
        BY <1>2 DEF OwnPage
      <3>4. \A x \in {c} \X (1..m) : x[2] # n
        OBVIOUS
      <3> QED BY <3>2, <3>3, <3>4
    <2> DEFINE I == {i \in 1..Len(page.items) : page.items[i][2] = n}
    <2>2. SlotOf(page, n) = IF I # {} THEN Min(I) ELSE 0
      BY DEF SlotOf, SelectInSeq
    <2>3. I = {}
      BY <2>1
    <2> QED BY <2>2, <2>3, SMTT(30)
  <1> HIDE DEF page
  <1>4. [s EXCEPT !.f.pg[p].kind = "chat", !.f.pg[p].chat = c] = s
    <2>1. [page EXCEPT !.kind = "chat"] = page /\ [page EXCEPT !.chat = c] = page
      BY <1>2 DEF Page
    <2>2. s.f = [pg |-> s.f.pg, free |-> s.f.free] /\ s.f.pg = [q \in DOMAIN s.f.pg |-> s.f.pg[q]] /\ s.f.pg[p] = page
      BY <1>2, FileFacts, SMTT(30) DEF page
    <2>3. [s.f.pg EXCEPT ![p].kind = "chat", ![p].chat = c] = s.f.pg
      BY <1>2, <2>1, <2>2
    <2>4. [s.f EXCEPT !.pg[p].kind = "chat", !.pg[p].chat = c] = s.f
      BY <2>2, <2>3
    <2> QED BY <2>4 DEF IsMemory
  <1>5. a = [s EXCEPT !.f = g, !.index[c] = {e \in @ : e[1] # n} \cup {<<n, p, NextSlot(page)>>}]
    <2>1. Room(page) /\ ~(SlotOf(page, n) > 0)
      BY <1>3 DEF page, p
    <2> QED BY <1>4, <2>1, Zenon DEF RedoInsert, page
  <1>6. Gained(g, s.f, fr, ch, c, n, n)
    <2>1. Gained(Put(s.f, LastOf(ch[c]), <<c, n>>), s.f, fr, ch, c, n, n)
      BY <1>1, ChatPut
    <2> QED BY <2>1 DEF p
  <1>7. /\ Shape(g, fr, ch, n) /\ SameBut(c, g, s.f) /\ Len(g.pg) = Len(s.f.pg) /\ Owns(g, c) = Owns(s.f, c)
        /\ Tuples(g, ch[c]) = Append(Tuples(s.f, ch[c]), <<c, n>>)
        /\ EntriesOf(g, ch[c]) = EntriesOf(s.f, ch[c]) \cup {<<n, p, NextSlot(page)>>}
    BY <1>6, Zenon DEF Gained, p, page
  <1>8. {e \in s.index[c] : e[1] # n} = s.index[c]
    <2>1. ASSUME NEW e \in s.index[c]
          PROVE  e[1] # n
      <3>1. PICK q \in ToSet(ch[c]) : e \in Entries(s.f, q)
        BY <1>1 DEF EntriesOf
      <3>2. PICK i \in DOMAIN s.f.pg[q].items : e = <<s.f.pg[q].items[i][2], q, i>>
        BY <3>1, SMTT(30) DEF Entries
      <3>3. q \in DOMAIN s.f.pg /\ s.f.pg[q].kind = "chat" /\ OwnPage(s.f.pg[q], m)
        BY <1>1, <1>2, <3>1, SMTT(30) DEF ToSet, Shape
      <3>4. s.f.pg[q].items[i][2] \in 1..m
        BY <3>3 DEF OwnPage
      <3> QED BY <3>2, <3>4
    <2> QED BY <2>1, SMTT(30)
  <1> HIDE DEF g
  <1>9. /\ a.f = g /\ a.tips = s.tips /\ a.hotAt = s.hotAt /\ a.ring = s.ring /\ a.cp = s.cp
        /\ a.index = [s.index EXCEPT ![c] = EntriesOf(g, ch[c])]
        /\ a = [f |-> a.f, tips |-> a.tips, index |-> a.index, hotAt |-> a.hotAt, ring |-> a.ring, cp |-> a.cp]
    <2> HIDE DEF a
    <2>1. PICK E : E = EntriesOf(g, ch[c])
      OBVIOUS
    <2>2. E = {e \in s.index[c] : e[1] # n} \cup {<<n, p, NextSlot(page)>>}
      BY <1>1, <1>7, <1>8, <2>1
    <2>3. a = [s EXCEPT !.f = g, !.index[c] = E]
      BY <1>5, <2>2 DEF IsMemory
    <2>4. /\ a.f = g /\ a.tips = s.tips /\ a.hotAt = s.hotAt /\ a.ring = s.ring /\ a.cp = s.cp
          /\ a.index = [s.index EXCEPT ![c] = E]
          /\ a = [f |-> a.f, tips |-> a.tips, index |-> a.index, hotAt |-> a.hotAt, ring |-> a.ring, cp |-> a.cp]
      BY <2>3 DEF IsMemory
    <2> QED BY <2>1, <2>4
  <1>10. [s.tips[c] EXCEPT !.count = @ + 1] = TipOf(g, ch[c])
    <2>1. Tuples(s.f, ch[c]) \in Seq({c} \X (1..m))
      BY <1>1, ReadChain
    <2> DEFINE all == Tuples(s.f, ch[c])
    <2>2. Len(Append(all, <<c, n>>)) = Len(all) + 1
      <3> HIDE DEF all
      <3>1. all \in Seq({c} \X (1..n)) /\ <<c, n>> \in {c} \X (1..n)
        <4>1. {c} \X (1..m) \subseteq {c} \X (1..n)
          OBVIOUS
        <4>2. all \in Seq({c} \X (1..m))
          BY <2>1 DEF all
        <4> QED BY <1>1, <4>1, <4>2
      <3> QED BY <3>1
    <2>3. Len(Tuples(g, ch[c])) = Len(Tuples(s.f, ch[c])) + 1
      BY <1>7, <2>2
    <2> HIDE DEF n
    <2> QED BY <1>1, <2>3 DEF TipOf
  <1> HIDE DEF a, n
  <1>11. /\ r.f = g /\ r.hotAt = s.hotAt /\ r.cp = s.cp
         /\ r.tips = [s.tips EXCEPT ![c] = TipOf(g, ch[c])]
         /\ r.index = [s.index EXCEPT ![c] = EntriesOf(g, ch[c])]
         /\ r.ring = [s.ring EXCEPT ![c] = Newest(Append(@, n))]
         /\ r = [f |-> r.f, tips |-> r.tips, index |-> r.index, hotAt |-> r.hotAt, ring |-> r.ring, cp |-> r.cp]
    <2> DEFINE b == [a EXCEPT !.tips[c].count = @ + 1]
    <2>1. PICK T : T = [s.tips EXCEPT ![c] = TipOf(g, ch[c])]
      OBVIOUS
    <2>2. b = [a EXCEPT !.tips = T]
      <3>1. [a.tips EXCEPT ![c].count = @ + 1] = T
        BY <1>9, <1>10, <2>1
      <3> QED BY <3>1
    <2> HIDE DEF b
    <2>3. b.f = g /\ b.tips = T /\ b.index = a.index /\ b.hotAt = s.hotAt /\ b.ring = s.ring /\ b.cp = s.cp
          /\ b = [f |-> b.f, tips |-> b.tips, index |-> b.index, hotAt |-> b.hotAt, ring |-> b.ring, cp |-> b.cp]
      BY <1>9, <2>2
    <2>4. PICK R : R = [s.ring EXCEPT ![c] = Newest(Append(@, n))]
      OBVIOUS
    <2>5. r = [b EXCEPT !.ring = R]
      <3>1. r = [b EXCEPT !.ring[c] = Newest(Append(@, n))]
        BY DEF b
      <3> HIDE DEF r
      <3>2. [b.ring EXCEPT ![c] = Newest(Append(@, n))] = R
        BY <2>3, <2>4
      <3> QED BY <3>1, <3>2
    <2> HIDE DEF r
    <2>6. r.f = g /\ r.tips = T /\ r.index = a.index /\ r.hotAt = s.hotAt /\ r.ring = R /\ r.cp = s.cp
          /\ r = [f |-> r.f, tips |-> r.tips, index |-> r.index, hotAt |-> r.hotAt, ring |-> r.ring, cp |-> r.cp]
      BY <2>3, <2>5
    <2> QED BY <1>9, <2>1, <2>4, <2>6
  <1> HIDE DEF r
  <1>12. IsMemory(r)
    BY <1>11 DEF IsMemory
  <1>13. Stored(r.f, fr, ch, n, r.tips, r.index, {})
    <2>1. \A d \in Chats : With(ch, c, ch[c])[d] = ch[d]
      BY DEF With
    <2>2. Shape(g, fr, With(ch, c, ch[c]), n)
      BY <1>7, <2>1, ShapeOnly
    <2>3. Owns(g, c) \subseteq ToSet(ch[c]) \cup {}
      BY <1>7 DEF Stored
    <2>4. Stored(g, fr, With(ch, c, ch[c]), n, r.tips, r.index, {})
      <3>1. ChangesTo(s.f, s.tips, s.index, {}, c, g, ch[c], {}, r.tips, r.index)
        BY <1>7, <1>11, <2>3 DEF ChangesTo, IsMemory
      <3> QED BY <2>2, <3>1, StoredChat
    <2>5. Stored(g, fr, ch, n, r.tips, r.index, {})
      BY <1>7, <2>1, <2>4 DEF Stored
    <2> QED BY <1>11, <2>5
  <1>14. Inserted(r, s, fr, ch, c, n)
    BY <1>7, <1>11, <1>12, <1>13 DEF Inserted
  <1>15. r = [RedoInsert(s, c, s.tips[c].tail, m + 1) EXCEPT !.tips[c].count = @ + 1,
                                                             !.ring[c] = Newest(Append(@, m + 1))]
    BY <1>1 DEF r, a, n
  <1> QED BY <1>14, <1>15 DEF n

\* A page is taken for the chat, but not yet linked.
LEMMA NewPageStored ==
  ASSUME NEW f, NEW fr, NEW ch, NEW m \in Nat, NEW tip, NEW idx, Stored(f, fr, ch, m, tip, idx, {}),
         tip = [d \in Chats |-> tip[d]], idx = [d \in Chats |-> idx[d]], NEW c \in Chats
  PROVE  LET g == AllocFor(f, c)
             p == Allocated(f)
         IN  /\ Stored(g, Popped(fr), ch, m, tip, idx, {p}) /\ SameBut(c, g, f)
             /\ p \in DOMAIN g.pg /\ g.pg[p] = ChatPage(c) /\ p \notin ToSet(ch[c])
  <1> DEFINE g == AllocFor(f, c)
  <1> DEFINE p == Allocated(f)
  <1>1. Shape(f, fr, ch, m)
    BY DEF Stored
  <1>2. /\ Shape(g, Popped(fr), ch, m) /\ SameBut(c, g, f)
        /\ p \in DOMAIN g.pg /\ g.pg[p] = ChatPage(c) /\ \A d \in Chats : p \notin ToSet(ch[d])
        /\ \A q \in DOMAIN f.pg : q \in DOMAIN g.pg /\ (f.pg[q].kind = "chat" => g.pg[q] = f.pg[q])
        /\ Owns(g, c) = Owns(f, c) \cup {p}
    BY <1>1, ChatAlloc
  <1> HIDE DEF g, p
  <1>3. SamePages(c, g, f)
    BY <1>2 DEF SamePages
  <1>4. TipOf(g, ch[c]) = TipOf(f, ch[c]) /\ EntriesOf(g, ch[c]) = EntriesOf(f, ch[c])
    BY <1>1, <1>3, ChainSame
  <1>5. ChangesTo(f, tip, idx, {}, c, g, ch[c], {p}, tip, idx)
    <2>1. tip[c] = TipOf(f, ch[c]) /\ idx[c] = EntriesOf(f, ch[c]) /\ Owns(f, c) \subseteq ToSet(ch[c])
      BY DEF Stored
    <2>2. tip = [tip EXCEPT ![c] = TipOf(g, ch[c])] /\ idx = [idx EXCEPT ![c] = EntriesOf(g, ch[c])]
      BY <1>4, <2>1
    <2>3. Owns(g, c) \subseteq ToSet(ch[c]) \cup {p}
      BY <1>2, <2>1
    <2> QED BY <1>2, <2>2, <2>3 DEF ChangesTo
  <1>6. \A d \in Chats : With(ch, c, ch[c])[d] = ch[d]
    BY DEF With
  <1>7. Stored(g, Popped(fr), With(ch, c, ch[c]), m, tip, idx, {p})
    <2>1. Shape(g, Popped(fr), With(ch, c, ch[c]), m)
      BY <1>2, <1>6, ShapeOnly
    <2> QED BY <1>5, <2>1, StoredChat
  <1>8. Stored(g, Popped(fr), ch, m, tip, idx, {p})
    BY <1>2, <1>6, <1>7 DEF Stored
  <1> QED BY <1>2, <1>8 DEF g, p

\* r is s after the page p was linked to the end of the chat.
Joined(r, s, fr, ch, c, p, m) ==
    /\ IsMemory(r) /\ Stored(r.f, fr, With(ch, c, Append(ch[c], p)), m, r.tips, r.index, {})
    /\ SameBut(c, r.f, s.f) /\ Len(r.f.pg) = Len(s.f.pg)
    /\ r.hotAt = s.hotAt /\ r.cp = s.cp /\ r.ring = s.ring
    /\ Tuples(r.f, Append(ch[c], p)) = Tuples(s.f, ch[c]) /\ r.f.pg[p].items = <<>> /\ r.f.pg[p].kind = "chat"
    /\ LastOf(Append(ch[c], p)) = p /\ Append(ch[c], p) # <<>>

\* The page that was taken is linked.
LEMMA LinkPageEffect ==
  ASSUME NEW s, IsMemory(s), NEW fr, NEW ch, NEW m \in Nat, NEW p, Stored(s.f, fr, ch, m, s.tips, s.index, {p}),
         NEW c \in Chats, p \in DOMAIN s.f.pg, s.f.pg[p] = ChatPage(c), p \notin ToSet(ch[c])
  PROVE  Joined(LinkPage(s, c, p, s.tips[c].tail), s, fr, ch, c, p, m)
  <1> DEFINE z == LastOf(ch[c])
  <1> DEFINE t == Append(ch[c], p)
  <1> DEFINE g == Linked(s.f, ch[c], p)
  <1> DEFINE r == LinkPage(s, c, p, s.tips[c].tail)
  <1>1. /\ Shape(s.f, fr, ch, m) /\ s.tips[c] = TipOf(s.f, ch[c]) /\ s.index[c] = EntriesOf(s.f, ch[c])
        /\ s.tips[c].tail = z /\ s.tips[c].head = HeadOf(ch[c])
    BY DEF Stored, TipOf
  <1>2. /\ s.f \in File /\ ch[c] \in Seq(DOMAIN s.f.pg) /\ 0 \notin DOMAIN s.f.pg
        /\ s.f.pg = [q \in DOMAIN s.f.pg |-> s.f.pg[q]] /\ s.f = [pg |-> s.f.pg, free |-> s.f.free]
    <2>1. s.f \in File /\ ch[c] \in Seq(DOMAIN s.f.pg)
      BY <1>1 DEF Shape, ChatPath, Path
    <2> QED BY <2>1, FileFacts, SMTT(30)
  <1>3. /\ t \in Seq(DOMAIN s.f.pg) /\ t # <<>> /\ LastOf(t) = p /\ ToSet(t) = ToSet(ch[c]) \cup {p}
        /\ HeadOf(t) = IF ch[c] = <<>> THEN p ELSE HeadOf(ch[c])
    <2> DEFINE q == ch[c]
    <2>1. PICK L \in Nat : L = Len(q) /\ DOMAIN q = 1..L
      BY <1>2
    <2> HIDE DEF q, t
    <2>2. t = Append(q, p) /\ q \in Seq(DOMAIN s.f.pg)
      BY <1>2 DEF q, t
    <2>3. /\ t \in Seq(DOMAIN s.f.pg) /\ DOMAIN t = 1..(L + 1) /\ Len(t) = L + 1 /\ t[L + 1] = p
          /\ \A i \in 1..L : t[i] = q[i]
      BY <2>1, <2>2
    <2>4. /\ \A i \in 1..(L + 1) : i = L + 1 \/ i \in 1..L
          /\ L + 1 \in 1..(L + 1) /\ (\A i \in 1..L : i \in 1..(L + 1)) /\ (L # 0 => 1 \in 1..L) /\ L + 1 # 0
      BY <2>1
    <2>5. ToSet(t) = ToSet(q) \cup {p}
      BY <2>1, <2>3, <2>4 DEF ToSet
    <2>6. (q = <<>> <=> L = 0) /\ t # <<>>
      BY <2>1, <2>2, <2>3, <2>4
    <2>7. HeadOf(t) = IF q = <<>> THEN p ELSE HeadOf(q)
      <3>1. CASE L = 0
        BY <2>3, <2>6, <3>1 DEF HeadOf
      <3>2. CASE L # 0
        BY <2>3, <2>4, <2>6, <3>2 DEF HeadOf
      <3> QED BY <3>1, <3>2
    <2> QED BY <2>3, <2>5, <2>6, <2>7 DEF q, LastOf
  <1>4. [s EXCEPT !.f.pg[p].kind = "chat", !.f.pg[p].chat = c] = s
    <2>1. ChatPage(c) \in Page /\ ChatPage(c).kind = "chat" /\ ChatPage(c).chat = c
      BY ChatPageFacts
    <2>2. [ChatPage(c) EXCEPT !.kind = "chat"] = ChatPage(c) /\ [ChatPage(c) EXCEPT !.chat = c] = ChatPage(c)
      BY <2>1 DEF Page
    <2>3. [s.f.pg EXCEPT ![p].kind = "chat", ![p].chat = c] = s.f.pg
      BY <1>2, <2>2
    <2>4. [s.f EXCEPT !.pg[p].kind = "chat", !.pg[p].chat = c] = s.f
      BY <1>2, <2>3
    <2> QED BY <2>4 DEF IsMemory
  <1> HIDE DEF t
  <1>5. /\ Shape(g, fr, With(ch, c, t), m) /\ SameBut(c, g, s.f)
        /\ DOMAIN g.pg = DOMAIN s.f.pg /\ Len(g.pg) = Len(s.f.pg)
        /\ \A q \in DOMAIN s.f.pg : g.pg[q].kind = s.f.pg[q].kind /\ g.pg[q].chat = s.f.pg[q].chat /\ g.pg[q].items = s.f.pg[q].items
        /\ g.pg[p] = s.f.pg[p] /\ Tuples(g, t) = Tuples(s.f, ch[c])
    BY <1>1, ChatLink DEF t
  <1>6. EntriesOf(g, t) = EntriesOf(s.f, ch[c])
    <2>1. \A q \in DOMAIN s.f.pg : Entries(g, q) = Entries(s.f, q)
      BY <1>5 DEF Entries
    <2>2. Entries(s.f, p) = {}
      <3>1. s.f.pg[p].items = <<>>
        BY ChatPageFacts
      <3> QED BY <3>1 DEF Entries
    <2>3. \A q \in ToSet(ch[c]) : q \in DOMAIN s.f.pg
      BY <1>2 DEF ToSet
    <2> QED BY <1>3, <2>1, <2>2, <2>3, SMTT(30) DEF EntriesOf
  <1> HIDE DEF g
  <1>7. z = 0 <=> ch[c] = <<>>
    <2>1. ch[c] # <<>> => z \in DOMAIN s.f.pg
      <3>1. ASSUME ch[c] # <<>>
            PROVE  z \in DOMAIN s.f.pg
        <4>1. Len(ch[c]) \in DOMAIN ch[c] /\ z = ch[c][Len(ch[c])]
          BY <1>2, <3>1 DEF LastOf
        <4> HIDE DEF z
        <4> QED BY <1>2, <4>1
      <3> QED BY <3>1
    <2>2. ch[c] = <<>> => z = 0
      BY DEF LastOf
    <2> QED BY <1>2, <2>1, <2>2
  <1>8. HeadOf(ch[c]) = 0 <=> ch[c] = <<>>
    <2>1. ASSUME ch[c] # <<>>
          PROVE  HeadOf(ch[c]) # 0
      <3>1. 1 \in DOMAIN ch[c] /\ HeadOf(ch[c]) = ch[c][1]
        BY <1>2, <2>1 DEF HeadOf
      <3> QED BY <1>2, <3>1
    <2> QED BY <2>1 DEF HeadOf
  <1> HIDE DEF z
  <1>9. [s.tips[c] EXCEPT !.head = IF @ = 0 THEN p ELSE @, !.tail = p] = TipOf(g, t)
    <2>1. PICK x, y, k : x = HeadOf(ch[c]) /\ y = HeadOf(t) /\ k = Len(Tuples(g, t))
      OBVIOUS
    <2>2. s.tips[c] = [head |-> x, tail |-> z, count |-> k] /\ y = IF x = 0 THEN p ELSE x
      BY <1>1, <1>3, <1>5, <1>8, <2>1 DEF TipOf, z
    <2>3. TipOf(g, t) = [head |-> y, tail |-> p, count |-> k]
      BY <1>3, <2>1 DEF TipOf
    <2>4. PICK T : T = s.tips[c]
      OBVIOUS
    <2>5. T = [head |-> x, tail |-> z, count |-> k] /\ T.head = x
      BY <2>2, <2>4
    <2>6. [T EXCEPT !.head = y, !.tail = p] = [head |-> y, tail |-> p, count |-> k]
      <3> DEFINE U == [T EXCEPT !.head = y]
      <3>1. U = [head |-> y, tail |-> z, count |-> k]
        BY <2>5
      <3> HIDE DEF U
      <3>2. [U EXCEPT !.tail = p] = [head |-> y, tail |-> p, count |-> k]
        BY <3>1
      <3> QED BY <3>2 DEF U
    <2>7. [T EXCEPT !.head = IF @ = 0 THEN p ELSE @, !.tail = p] = [T EXCEPT !.head = y, !.tail = p]
      BY <2>2, <2>5
    <2> QED BY <2>3, <2>4, <2>6, <2>7
  <1> DEFINE b == NewTail(s, c, p)
  <1>10. b = [s EXCEPT !.tips[c] = TipOf(g, t)]
    <2>1. b = [s EXCEPT !.tips[c].head = IF @ = 0 THEN p ELSE @, !.tips[c].tail = p]
      BY <1>4 DEF NewTail
    <2> HIDE DEF b
    <2>2. [s.tips EXCEPT ![c].head = IF @ = 0 THEN p ELSE @, ![c].tail = p] = [s.tips EXCEPT ![c] = TipOf(g, t)]
      BY <1>9 DEF IsMemory
    <2> QED BY <2>1, <2>2 DEF IsMemory
  <1> HIDE DEF b
  <1>11. r = IF z = 0 THEN b ELSE [b EXCEPT !.f.pg[z].next = p]
    BY <1>1 DEF LinkPage, b
  <1> HIDE DEF r
  <1>12. /\ r.f = g /\ r.tips = [s.tips EXCEPT ![c] = TipOf(g, t)] /\ r.index = s.index /\ r.hotAt = s.hotAt
         /\ r.ring = s.ring /\ r.cp = s.cp
         /\ r = [f |-> r.f, tips |-> r.tips, index |-> r.index, hotAt |-> r.hotAt, ring |-> r.ring, cp |-> r.cp]
    <2>1. /\ b.f = s.f /\ b.tips = [s.tips EXCEPT ![c] = TipOf(g, t)] /\ b.index = s.index /\ b.hotAt = s.hotAt
          /\ b.ring = s.ring /\ b.cp = s.cp
          /\ b = [f |-> b.f, tips |-> b.tips, index |-> b.index, hotAt |-> b.hotAt, ring |-> b.ring, cp |-> b.cp]
      BY <1>10 DEF IsMemory
    <2>2. CASE z = 0
      <3>1. g = s.f
        BY <1>7, <2>2 DEF g, Linked
      <3> QED BY <1>11, <2>1, <2>2, <3>1
    <2>3. CASE z # 0
      <3>1. g = [s.f EXCEPT !.pg[z].next = p]
        BY <1>7, <2>3 DEF g, Linked, z
      <3>2. r = [b EXCEPT !.f = g]
        BY <1>11, <2>1, <2>3, <3>1
      <3> QED BY <2>1, <3>2
    <2> QED BY <2>2, <2>3
  <1>13. IsMemory(r)
    BY <1>12 DEF IsMemory
  <1>14. r.index = [s.index EXCEPT ![c] = EntriesOf(g, t)]
    BY <1>1, <1>6, <1>12 DEF IsMemory
  <1>15. Stored(r.f, fr, With(ch, c, t), m, r.tips, r.index, {})
    <2>1. \A d \in Chats : d # c => Owns(s.f, d) \cap {p} = {}
      BY ChatPageFacts DEF Owns
    <2>2. Owns(g, c) \subseteq ToSet(t) \cup {}
      <3>1. Owns(s.f, c) \subseteq ToSet(ch[c]) \cup {p}
        BY DEF Stored
      <3> QED BY <1>3, <1>5, <3>1 DEF Owns
    <2>3. ChangesTo(s.f, s.tips, s.index, {p}, c, g, t, {}, r.tips, r.index)
      BY <1>5, <1>12, <1>14, <2>1, <2>2 DEF ChangesTo, IsMemory
    <2> QED BY <1>5, <1>12, <2>3, StoredChat
  <1>16. r.f.pg[p].items = <<>> /\ r.f.pg[p].kind = "chat"
    BY <1>5, <1>12, ChatPageFacts
  <1>17. Joined(r, s, fr, ch, c, p, m)
    BY <1>3, <1>5, <1>12, <1>13, <1>15, <1>16, Zenon DEF Joined, t
  <1> QED BY <1>17 DEF r

\* r is s after a trim of the chat, as the store keeps it.
TrimKept(r, s, ch, c, keep, m) ==
    \E gr, t :
       /\ Stored(r.f, gr, With(ch, c, t), m, r.tips, r.index, {})
       /\ \A d \in Chats : d # c => r.ring[d] = s.ring[d]
       /\ \/ t = ch[c] /\ r.f = s.f /\ r.ring[c] = s.ring[c]
          \/ r.ring[c] = Newest(Listed(r.f, t))
       /\ Tuples(r.f, t) = KeepLast(Tuples(s.f, ch[c]), keep)

\* A trimmed chat is kept as it is read.
LEMMA TrimStored ==
  ASSUME NEW s, IsMemory(s), NEW fr, NEW ch, NEW m \in Nat, Stored(s.f, fr, ch, m, s.tips, s.index, {}),
         NEW c \in Chats, NEW keep \in Nat
  PROVE  LET r == TrimChat(s, c, keep)
         IN  /\ IsMemory(r) /\ TrimKept(r, s, ch, c, keep, m)
             /\ SameBut(c, r.f, s.f) /\ Len(r.f.pg) = Len(s.f.pg) /\ r.hotAt = s.hotAt /\ r.cp = s.cp
  <1> DEFINE r == TrimChat(s, c, keep)
  <1>1. /\ Shape(s.f, fr, ch, m) /\ s.tips[c] = TipOf(s.f, ch[c]) /\ s.index[c] = EntriesOf(s.f, ch[c])
        /\ Owns(s.f, c) \subseteq ToSet(ch[c])
    BY DEF Stored
  <1>2. fr \in Seq(Nat)
    <2>1. s.f \in File /\ fr \in Seq(DOMAIN s.f.pg)
      BY <1>1 DEF Shape, FreeTrue, Path
    <2>2. DOMAIN s.f.pg \subseteq Nat
      BY <2>1, FileFacts
    <2> QED BY <2>1, <2>2
  <1>3. Trimmed(r, s, ch, c, keep, m)
    BY <1>1, <1>2, TrimEffect
  <1> HIDE DEF r
  <1>4. PICK gr, t :
           /\ Shape(r.f, gr, With(ch, c, t), m)
           /\ IsMemory(r) /\ r.hotAt = s.hotAt /\ r.cp = s.cp
           /\ r.tips = [s.tips EXCEPT ![c] = TipOf(r.f, t)]
           /\ r.index = [s.index EXCEPT ![c] = EntriesOf(r.f, t)]
           /\ \A d \in Chats : d # c => r.ring[d] = s.ring[d]
           /\ \/ t = ch[c] /\ r.f = s.f /\ r.ring[c] = s.ring[c]
              \/ r.ring[c] = Newest(Listed(r.f, t))
           /\ Tuples(r.f, t) = KeepLast(Tuples(s.f, ch[c]), keep)
           /\ SameBut(c, r.f, s.f) /\ Len(r.f.pg) = Len(s.f.pg)
           /\ Owns(r.f, c) \subseteq ToSet(t) \cup (Owns(s.f, c) \ ToSet(ch[c]))
    BY <1>3, Zenon DEF Trimmed
  <1>5. ChangesTo(s.f, s.tips, s.index, {}, c, r.f, t, {}, r.tips, r.index)
    <2>1. Owns(r.f, c) \subseteq ToSet(t) \cup {}
      BY <1>1, <1>4
    <2> QED BY <1>4, <2>1 DEF ChangesTo, IsMemory
  <1>6. Stored(r.f, gr, With(ch, c, t), m, r.tips, r.index, {})
    BY <1>4, <1>5, StoredChat
  <1>7. TrimKept(r, s, ch, c, keep, m)
    BY <1>4, <1>6 DEF TrimKept
  <1> QED BY <1>4, <1>7 DEF r

\* r is s with a change to the hot pages.
Rehot(r, s, ch, m) ==
    /\ IsMemory(r) /\ \E gr : Stored(r.f, gr, ch, m, r.tips, r.index, {})
    /\ SameButHot(r.f, s.f) /\ r.cp = s.cp /\ r.ring = s.ring /\ r.tips = s.tips /\ r.index = s.index
    /\ HotAtHot(r.f, r.hotAt)

\* Setting a key leaves the chats as they are kept.
LEMMA SetHotStored ==
  ASSUME NEW s, IsMemory(s), NEW fr, NEW ch, NEW m \in Nat, Stored(s.f, fr, ch, m, s.tips, s.index, {}),
         HotAtHot(s.f, s.hotAt), NEW k \in Keys, NEW v \in Vals
  PROVE  Rehot(SetHot(s, k, v), s, ch, m) /\ SetHot(s, k, v).f = WriteHot(s.f, k, v)
  <1> DEFINE g == WriteHot(s.f, k, v)
  <1> DEFINE r == SetHot(s, k, v)
  <1>1. Shape(s.f, fr, ch, m)
    BY DEF Stored
  <1>2. (\E gr : Shape(g, gr, ch, m)) /\ SameButHot(g, s.f)
    BY <1>1, WriteHotEffect
  <1> HIDE DEF g
  <1>3. PICK gr : Shape(g, gr, ch, m)
    BY <1>2
  <1>4. r = [s EXCEPT !.f = g, !.hotAt[k] = HotRoot]
    BY DEF SetHot, g
  <1> HIDE DEF r
  <1>5. /\ r.f = g /\ r.tips = s.tips /\ r.index = s.index /\ r.hotAt = [s.hotAt EXCEPT ![k] = HotRoot]
        /\ r.ring = s.ring /\ r.cp = s.cp
        /\ r = [f |-> r.f, tips |-> r.tips, index |-> r.index, hotAt |-> r.hotAt, ring |-> r.ring, cp |-> r.cp]
    BY <1>4 DEF IsMemory
  <1>6. IsMemory(r)
    BY <1>5 DEF IsMemory
  <1>7. Stored(g, gr, ch, m, s.tips, s.index, {})
    BY <1>2, <1>3, StoredHot
  <1>8. HotAtHot(g, r.hotAt)
    <2>1. HotAtHot(g, s.hotAt)
      BY <1>2, HotAtKept
    <2>2. HotRoot \in DOMAIN g.pg /\ g.pg[HotRoot].kind = "hot"
      BY <1>3 DEF Shape, HotTrue
    <2>3. \A j \in Keys : r.hotAt[j] = IF j = k THEN HotRoot ELSE s.hotAt[j]
      BY <1>5 DEF IsMemory
    <2> QED BY <2>1, <2>2, <2>3 DEF HotAtHot
  <1>9. Rehot(r, s, ch, m)
    BY <1>2, <1>5, <1>6, <1>7, <1>8 DEF Rehot
  <1> QED BY <1>5, <1>9 DEF r, g

\* So does deleting one.
LEMMA DelHotStored ==
  ASSUME NEW s, IsMemory(s), NEW fr, NEW ch, NEW m \in Nat, Stored(s.f, fr, ch, m, s.tips, s.index, {}),
         HotAtHot(s.f, s.hotAt), NEW k \in Keys
  PROVE  Rehot(DelHot(s, k), s, ch, m) /\ Len(DelHot(s, k).f.pg) = Len(s.f.pg)
  <1> DEFINE p == HotStart(s, k)
  <1> DEFINE g == DeleteHot(s.f, k, p)
  <1> DEFINE r == DelHot(s, k)
  <1>1. Shape(s.f, fr, ch, m)
    BY DEF Stored
  <1>2. p \in DOMAIN s.f.pg /\ s.f.pg[p].kind = "hot"
    <2>1. HotRoot \in DOMAIN s.f.pg /\ s.f.pg[HotRoot].kind = "hot"
      BY <1>1 DEF Shape, HotTrue
    <2>2. s.hotAt[k] = 0 \/ (s.hotAt[k] \in DOMAIN s.f.pg /\ s.f.pg[s.hotAt[k]].kind = "hot")
      BY DEF HotAtHot
    <2>3. ~(0 > 0)
      OBVIOUS
    <2> QED BY <2>1, <2>2, <2>3 DEF HotStart
  <1> HIDE DEF p
  <1>3. Shape(g, fr, ch, m) /\ SameButHot(g, s.f) /\ Len(g.pg) = Len(s.f.pg)
    BY <1>1, <1>2, DeleteHotEffect
  <1> HIDE DEF g
  <1>4. r = [s EXCEPT !.f = g, !.hotAt[k] = 0]
    BY DEF DelHot, g, p
  <1> HIDE DEF r
  <1>5. /\ r.f = g /\ r.tips = s.tips /\ r.index = s.index /\ r.hotAt = [s.hotAt EXCEPT ![k] = 0]
        /\ r.ring = s.ring /\ r.cp = s.cp
        /\ r = [f |-> r.f, tips |-> r.tips, index |-> r.index, hotAt |-> r.hotAt, ring |-> r.ring, cp |-> r.cp]
    BY <1>4 DEF IsMemory
  <1>6. IsMemory(r)
    BY <1>5 DEF IsMemory
  <1>7. Stored(g, fr, ch, m, s.tips, s.index, {})
    BY <1>3, StoredHot
  <1>8. HotAtHot(g, r.hotAt)
    <2>1. HotAtHot(g, s.hotAt)
      BY <1>3, HotAtKept
    <2>2. \A j \in Keys : r.hotAt[j] = IF j = k THEN 0 ELSE s.hotAt[j]
      BY <1>5 DEF IsMemory
    <2> QED BY <2>1, <2>2 DEF HotAtHot
  <1>9. Rehot(r, s, ch, m)
    BY <1>3, <1>5, <1>6, <1>7, <1>8 DEF Rehot
  <1> QED BY <1>3, <1>5, <1>9 DEF r

-----------------------------------------------------------------------------
(* Opening the store again *)

\* u has the stages of the recursion.
RelinkSteps(u) ==
    u = [n \in 0..Len(disk.pg) |-> IF n = 0 THEN disk ELSE Relink(u[n - 1], n)]

\* V is closed under the step.
RelinkClosed(V) ==
    /\ disk \in V[0]
    /\ \A n \in 1..Len(disk.pg) : \A v \in V[n - 1] : Relink(v, n) \in V[n]

\* u has them, each in V, and ends in the result.
RelinkUpTo(V, u) ==
    /\ Relinked = u[Len(disk.pg)] /\ u[0] = disk
    /\ \A n \in 0..Len(disk.pg) : u[n] \in V[n]
    /\ \A n \in 1..Len(disk.pg) : u[n] = Relink(u[n - 1], n)

\* Relinked goes through V.
LEMMA RelinkStages ==
  ASSUME Len(disk.pg) \in Nat, NEW V, RelinkClosed(V)
  PROVE  \E u : RelinkUpTo(V, u)
  <1> USE DEF RelinkClosed
  <1> DEFINE N == Len(disk.pg)
  <1> DEFINE a == disk
  <1> DEFINE W == UNION {V[n] : n \in 0..N}
  <1> DEFINE G == [nv \in (1..N) \X W |-> Relink(nv[2], nv[1])]
  <1> HIDE DEF N
  <1>1. \A n \in 1..N : \A v \in V[n - 1] : v \in W /\ n - 1 \in 0..N /\ n # 0
    <2>1. \A n \in 1..N : n - 1 \in 0..N /\ n # 0
      BY DEF N
    <2> QED BY <2>1
  <1> HIDE DEF W
  <1>2. \A n \in 1..N : \A v \in V[n - 1] : G[<<n, v>>] = Relink(v, n)
    BY <1>1
  <1> HIDE DEF G, a
  <1>3. StaysIn(G, N, V) /\ a \in V[0] /\ N \in Nat
    BY <1>2, Zenon DEF StaysIn, N, a
  <1>4. \E u : RelinkSteps(u)
    <2>1. PICK h : Iterates(V, a, N, G, h)
      BY <1>3, Iterated
    <2>2. ASSUME NEW n \in 0..N
          PROVE  h[n] = IF n = 0 THEN a ELSE Relink(h[n - 1], n)
      <3>1. n # 0 => n \in 1..N /\ n - 1 \in 0..N
        BY <1>3
      <3> QED BY <1>2, <2>1, <3>1 DEF Iterates
    <2>3. h = [n \in 0..N |-> h[n]]
      BY <2>1 DEF Iterates
    <2>4. h = [n \in 0..N |-> IF n = 0 THEN a ELSE Relink(h[n - 1], n)]
      BY <2>2, <2>3
    <2> QED BY <2>4 DEF RelinkSteps, N, a
  <1> DEFINE u == CHOOSE u : RelinkSteps(u)
  <1>5. RelinkSteps(u)
    BY <1>4
  <1>6. Relinked = u[N]
    BY Zenon DEF Relinked, RelinkSteps, N
  <1> HIDE DEF u
  <1>7. u = [n \in 0..N |-> IF n = 0 THEN a ELSE Relink(u[n - 1], n)]
    BY <1>5 DEF RelinkSteps, N, a
  <1>8. u[0] = a /\ \A n \in 1..N : u[n] = Relink(u[n - 1], n)
    <2>1. \A n \in 0..N : u[n] = IF n = 0 THEN a ELSE Relink(u[n - 1], n)
      BY <1>7
    <2>2. 0 \in 0..N /\ \A n \in 1..N : n \in 0..N /\ n # 0
      BY <1>3
    <2> QED BY <2>1, <2>2
  <1>9. Follows(V, a, N, G, u)
    <2>1. u = [n \in 0..N |-> u[n]]
      BY <1>7
    <2>2. \A n \in 1..N : u[n - 1] \in V[n - 1] => u[n] = G[<<n, u[n - 1]>>]
      BY <1>2, <1>8, Zenon
    <2> QED BY <1>8, <2>1, <2>2, Zenon DEF Follows
  <1>10. \A n \in 0..N : u[n] \in V[n]
    BY <1>3, <1>9, IteratedOnly
  <1> QED BY <1>6, <1>8, <1>10, Zenon DEF RelinkUpTo, N, a

\* The least number, and the greatest.
LEMMA MinIs ==
  ASSUME NEW T \in SUBSET Nat, NEW x \in T, \A y \in T : x <= y
  PROVE  Min(T) = x
  <1>1. Min(T) \in T /\ \A y \in T : Min(T) <= y
    BY MinFacts
  <1>2. Min(T) <= x /\ x <= Min(T) /\ Min(T) \in Nat /\ x \in Nat
    BY <1>1
  <1> QED BY <1>2

\* The greatest number of a set.
LEMMA MaxIs ==
  ASSUME NEW T \in SUBSET Nat, NEW x \in T, \A y \in T : y <= x
  PROVE  Max(T) = x
  <1>1. \A y \in T : x >= y
    OBVIOUS
  <1>2. Max(T) \in T /\ \A y \in T : Max(T) >= y
    BY <1>1, Zenon DEF Max
  <1>3. Max(T) >= x /\ x >= Max(T) /\ Max(T) \in Nat /\ x \in Nat
    BY <1>1, <1>2
  <1> QED BY <1>3

\* s has the elements of T from the least to the greatest.
Ascends(s, T) ==
    /\ s \in Seq(T) /\ ToSet(s) = T
    /\ \A i, j \in DOMAIN s : i < j => s[i] < s[j]

\* Every finite set of numbers can be listed in order.
LEMMA SortedOf ==
  ASSUME NEW N \in Nat, NEW T \in SUBSET (1..N)
  PROVE  \E s : Ascends(s, T)
  <1> DEFINE A == {n \in Nat : \A U \in SUBSET (1..n) : \E s : Ascends(s, U)}
  <1>1. 0 \in A
    <2>1. ASSUME NEW U \in SUBSET (1..0)
          PROVE  \E s : Ascends(s, U)
      <3>1. U = {}
        OBVIOUS
      <3>2. <<>> \in Seq(U) /\ ToSet(<<>>) = U /\ \A i, j \in DOMAIN <<>> : i < j => <<>>[i] < <<>>[j]
        BY <3>1 DEF ToSet
      <3> QED BY <3>2 DEF Ascends
    <2> QED BY <2>1
  <1>2. ASSUME NEW n \in Nat, n \in A
        PROVE  n + 1 \in A
    <2>1. ASSUME NEW U \in SUBSET (1..(n + 1))
          PROVE  \E s : Ascends(s, U)
      <3> DEFINE x == n + 1
      <3> DEFINE R == U \ {x}
      <3>1. R \in SUBSET (1..n) /\ x \in Nat /\ \A y \in R : y \in Nat /\ y < x
        OBVIOUS
      <3>2. PICK s : Ascends(s, R)
        BY <1>2, <3>1
      <3>3. CASE x \notin U
        BY <3>2, <3>3
      <3>4. CASE x \in U
        <4> HIDE DEF x
        <4> DEFINE t == Append(s, x)
        <4>1. PICK L \in Nat : L = Len(s) /\ DOMAIN s = 1..L /\ s \in Seq(U)
          BY <3>2 DEF Ascends
        <4>2. /\ t \in Seq(U) /\ DOMAIN t = 1..(L + 1) /\ t[L + 1] = x
              /\ \A i \in 1..L : t[i] = s[i]
          BY <3>4, <4>1
        <4> HIDE DEF t
        <4>3. /\ \A i \in 1..(L + 1) : i = L + 1 \/ i \in 1..L
              /\ L + 1 \in 1..(L + 1) /\ \A i \in 1..L : i \in 1..(L + 1)
              /\ \A i \in 1..(L + 1) : ~(L + 1 < i)
          BY <4>1
        <4>4. \A i \in 1..L : s[i] \in R
          BY <3>2, <4>1 DEF Ascends
        <4>5. ToSet(t) = U
          <5>1. ToSet(s) = R
            BY <3>2 DEF Ascends
          <5>2. ToSet(t) = ToSet(s) \cup {x}
            BY <4>1, <4>2, <4>3 DEF ToSet
          <5> QED BY <3>4, <5>1, <5>2
        <4>6. ASSUME NEW i \in DOMAIN t, NEW j \in DOMAIN t, i < j
              PROVE  t[i] < t[j]
          <5>1. i \in 1..L
            BY <4>1, <4>2, <4>3, <4>6
          <5>2. CASE j \in 1..L
            BY <3>2, <4>1, <4>2, <4>6, <5>1, <5>2 DEF Ascends
          <5>3. CASE j = L + 1
            BY <3>1, <4>2, <4>4, <5>1, <5>3
          <5> QED BY <4>2, <4>3, <5>2, <5>3
        <4> QED BY <4>2, <4>5, <4>6 DEF Ascends
      <3> QED BY <3>3, <3>4
    <2> QED BY <2>1
  <1> HIDE DEF A
  <1>3. N \in A
    <2>1. A \in SUBSET Nat
      BY DEF A
    <2>2. \A i \in 0..(N - 1) : i \in A => i + 1 \in A
      BY <1>2
    <2> QED BY <1>1, <2>1, <2>2, Climb
  <1> QED BY <1>3 DEF A

\* The first, the last and the ones between of an ascending list.
LEMMA AscendsFacts ==
  ASSUME NEW T \in SUBSET Nat, NEW s, Ascends(s, T)
  PROVE  /\ \A i, j \in DOMAIN s : s[i] = s[j] => i = j
         /\ s = <<>> <=> T = {}
         /\ T # {} => HeadOf(s) = Min(T) /\ LastOf(s) = Max(T)
         /\ \A i \in DOMAIN s :
               /\ i = Len(s) => {q \in T : q > s[i]} = {}
               /\ i # Len(s) => {q \in T : q > s[i]} # {} /\ Min({q \in T : q > s[i]}) = s[i + 1]
  <1>1. PICK L \in Nat : L = Len(s) /\ DOMAIN s = 1..L
    BY DEF Ascends
  <1>2. /\ \A i \in 1..L : s[i] \in T /\ s[i] \in Nat
        /\ \A q \in T : \E i \in 1..L : q = s[i]
        /\ \A i, j \in 1..L : i < j => s[i] < s[j]
    BY <1>1 DEF Ascends, ToSet
  <1>3. \A i, j \in 1..L : s[i] < s[j] => i < j
    <2> TAKE i \in 1..L, j \in 1..L
    <2>1. i < j \/ i = j \/ j < i
      OBVIOUS
    <2>2. ~(s[i] < s[i])
      BY <1>2
    <2>3. j < i => ~(s[i] < s[j])
      BY <1>2
    <2> QED BY <2>1, <2>2, <2>3
  <1>4. \A i, j \in 1..L : s[i] = s[j] => i = j
    <2> TAKE i \in 1..L, j \in 1..L
    <2>1. i < j \/ i = j \/ j < i
      OBVIOUS
    <2>2. s[i] = s[j] => ~(s[i] < s[j]) /\ ~(s[j] < s[i])
      BY <1>2
    <2> QED BY <1>2, <2>1, <2>2
  <1>5. s = <<>> <=> L = 0
    BY <1>1 DEF Ascends
  <1>6. L = 0 <=> T = {}
    <2>1. L # 0 => 1 \in 1..L
      BY <1>1
    <2> QED BY <1>1, <1>2, <2>1
  <1>7. ASSUME T # {}
        PROVE  HeadOf(s) = Min(T) /\ LastOf(s) = Max(T)
    <2>0. L # 0
      BY <1>6, <1>7
    <2>1. 1 \in 1..L /\ L \in 1..L
      BY <1>1, <2>0
    <2>2. HeadOf(s) = s[1] /\ LastOf(s) = s[L]
      BY <1>1, <1>5, <2>1 DEF HeadOf, LastOf
    <2>3. \A q \in T : s[1] <= q /\ q <= s[L]
      <3> TAKE q \in T
      <3>1. PICK i \in 1..L : q = s[i]
        BY <1>2
      <3>2. (i = 1 \/ 1 < i) /\ (i = L \/ i < L)
        OBVIOUS
      <3>3. s[1] = q \/ s[1] < q
        BY <1>2, <2>1, <3>1, <3>2
      <3>4. s[L] = q \/ q < s[L]
        BY <1>2, <2>1, <3>1, <3>2
      <3>5. s[1] \in Nat /\ s[L] \in Nat /\ q \in Nat
        BY <1>2, <2>1
      <3> QED BY <3>3, <3>4, <3>5
    <2>4. s[1] \in T /\ s[L] \in T
      BY <1>2, <2>1
    <2> QED BY <2>2, <2>3, <2>4, MinIs, MaxIs
  <1>8. ASSUME NEW i \in 1..L, i = L
        PROVE  {q \in T : q > s[i]} = {}
    <2>1. ASSUME NEW q \in T, q > s[i]
          PROVE  FALSE
      <3>1. PICK j \in 1..L : q = s[j]
        BY <1>2
      <3>2. s[i] < s[j]
        BY <1>2, <2>1, <3>1
      <3>3. i < j
        BY <1>3, <3>2
      <3> QED BY <1>8, <3>3
    <2> QED BY <2>1
  <1>9. ASSUME NEW i \in 1..L, i # L
        PROVE  {q \in T : q > s[i]} # {} /\ Min({q \in T : q > s[i]}) = s[i + 1]
    <2> DEFINE U == {q \in T : q > s[i]}
    <2>1. i + 1 \in 1..L /\ i < i + 1
      BY <1>9
    <2>2. s[i + 1] \in U
      BY <1>2, <2>1
    <2>3. ASSUME NEW q \in U
          PROVE  s[i + 1] <= q
      <3>1. PICK j \in 1..L : q = s[j]
        BY <1>2
      <3>2. s[i] < s[j]
        BY <1>2, <2>3, <3>1
      <3>3. i < j
        BY <1>3, <3>2
      <3>4. j = i + 1 \/ i + 1 < j
        BY <3>3
      <3>5. s[i + 1] = s[j] \/ s[i + 1] < s[j]
        BY <1>2, <2>1, <3>4
      <3> QED BY <1>2, <2>1, <3>1, <3>5
    <2>4. U \in SUBSET Nat
      OBVIOUS
    <2> HIDE DEF U
    <2>5. Min(U) = s[i + 1]
      BY <2>2, <2>3, <2>4, MinIs
    <2> QED BY <2>2, <2>5 DEF U
  <1> QED BY <1>1, <1>4, <1>5, <1>6, <1>7, <1>8, <1>9

\* The next page of a page is written.
LEMMA NextEffect ==
  ASSUME NEW f \in File, NEW p \in DOMAIN f.pg, NEW q \in Nat, q <= Len(f.pg)
  PROVE  /\ [f EXCEPT !.pg[p].next = q] \in File
         /\ Writes([f EXCEPT !.pg[p].next = q], f, p, [f.pg[p] EXCEPT !.next = q])
  <1> DEFINE page == [f.pg[p] EXCEPT !.next = q]
  <1>1. f.pg[p] \in Page /\ Len(f.pg[p].items) <= Size(f.pg[p].kind)
    BY DEF File
  <1>2. /\ page \in Page /\ page.next = q /\ page.kind = f.pg[p].kind
        /\ page.items = f.pg[p].items
    BY <1>1 DEF Page
  <1>3. [f EXCEPT !.pg[p].next = q] = [f EXCEPT !.pg[p] = page]
    OBVIOUS
  <1> HIDE DEF page
  <1>4. [f EXCEPT !.pg[p] = page] \in File /\ Writes([f EXCEPT !.pg[p] = page], f, p, page)
    BY <1>1, <1>2, WriteEffect
  <1> QED BY <1>3, <1>4 DEF page

\* The file g is the file on disk with the chat pages up to n linked anew.
Rewired(g, n) ==
    /\ g \in File /\ g.free = disk.free /\ DOMAIN g.pg = DOMAIN disk.pg /\ Len(g.pg) = Len(disk.pg)
    /\ \A p \in DOMAIN disk.pg :
          g.pg[p] = IF p <= n /\ disk.pg[p].kind = "chat" THEN [disk.pg[p] EXCEPT !.next = Follower(p)]
                    ELSE disk.pg[p]

\* A page is followed by a page of the file, or by none.
LEMMA FollowerFacts ==
  ASSUME disk \in File, NEW p
  PROVE  Follower(p) \in Nat /\ Follower(p) <= Len(disk.pg)
  <1> DEFINE later == {q \in PagesOf(disk.pg[p].chat) : q > p}
  <1>1. DOMAIN disk.pg \subseteq Nat /\ \A q \in DOMAIN disk.pg : q <= Len(disk.pg)
    BY FileFacts
  <1>2. later \subseteq DOMAIN disk.pg
    BY DEF PagesOf
  <1>3. Follower(p) = IF later = {} THEN 0 ELSE Min(later)
    BY DEF Follower
  <1> HIDE DEF later
  <1>4. later # {} => Min(later) \in later
    BY <1>1, <1>2, MinFacts
  <1>5. 0 \in Nat /\ 0 <= Len(disk.pg)
    BY FileFacts
  <1> QED BY <1>1, <1>2, <1>3, <1>4, <1>5

\* One page more is linked anew.
LEMMA RelinkStep ==
  ASSUME disk \in File, NEW n \in 1..Len(disk.pg), NEW g, Rewired(g, n - 1)
  PROVE  Rewired(Relink(g, n), n)
  <1>1. /\ g \in File /\ g.free = disk.free /\ DOMAIN g.pg = DOMAIN disk.pg /\ Len(g.pg) = Len(disk.pg)
        /\ \A p \in DOMAIN disk.pg :
              g.pg[p] = IF p <= n - 1 /\ disk.pg[p].kind = "chat" THEN [disk.pg[p] EXCEPT !.next = Follower(p)]
                        ELSE disk.pg[p]
    BY DEF Rewired
  <1>2. n \in DOMAIN disk.pg /\ \A p \in DOMAIN disk.pg : p <= n <=> (p <= n - 1 \/ p = n)
    BY FileFacts
  <1>3. g.pg[n] = disk.pg[n]
    <2>1. ~(n <= n - 1)
      OBVIOUS
    <2> QED BY <1>1, <1>2, <2>1
  <1>4. CASE disk.pg[n].kind # "chat"
    <2>1. Relink(g, n) = g
      BY <1>3, <1>4 DEF Relink
    <2>2. \A p \in DOMAIN disk.pg :
             g.pg[p] = IF p <= n /\ disk.pg[p].kind = "chat" THEN [disk.pg[p] EXCEPT !.next = Follower(p)]
                       ELSE disk.pg[p]
      BY <1>1, <1>2, <1>4, SMTT(30)
    <2> QED BY <1>1, <2>1, <2>2 DEF Rewired
  <1>5. CASE disk.pg[n].kind = "chat"
    <2>1. PICK q : q = Follower(n)
      OBVIOUS
    <2>2. q \in Nat /\ q <= Len(g.pg)
      BY <1>1, <2>1, FollowerFacts
    <2>3. Relink(g, n) = [g EXCEPT !.pg[n].next = q]
      BY <1>3, <1>5, <2>1 DEF Relink
    <2>4. Relink(g, n) \in File /\ Writes(Relink(g, n), g, n, [disk.pg[n] EXCEPT !.next = q])
      <3>1. [g EXCEPT !.pg[n].next = q] \in File /\ Writes([g EXCEPT !.pg[n].next = q], g, n, [g.pg[n] EXCEPT !.next = q])
        BY <1>1, <1>2, <2>2, NextEffect
      <3> QED BY <1>3, <2>3, <3>1, Zenon
    <2> DEFINE h == Relink(g, n)
    <2>5. h \in File /\ Writes(h, g, n, [disk.pg[n] EXCEPT !.next = q])
      BY <2>4
    <2> HIDE DEF h
    <2>6. /\ h.free = disk.free /\ DOMAIN h.pg = DOMAIN disk.pg /\ Len(h.pg) = Len(disk.pg)
          /\ \A p \in DOMAIN disk.pg : h.pg[p] = IF p = n THEN [disk.pg[n] EXCEPT !.next = q] ELSE g.pg[p]
      BY <1>1, <2>5 DEF Writes
    <2>7. \A p \in DOMAIN disk.pg :
             h.pg[p] = IF p <= n /\ disk.pg[p].kind = "chat" THEN [disk.pg[p] EXCEPT !.next = Follower(p)]
                       ELSE disk.pg[p]
      <3> TAKE p \in DOMAIN disk.pg
      <3>1. CASE p = n
        BY <1>2, <1>5, <2>1, <2>6, <3>1
      <3>2. CASE p # n
        BY <1>1, <1>2, <2>6, <3>2
      <3> QED BY <3>1, <3>2
    <2>8. Rewired(h, n)
      BY <2>5, <2>6, <2>7 DEF Rewired
    <2> QED BY <2>8 DEF h
  <1> QED BY <1>4, <1>5

\* All chat pages are linked anew, and nothing else is changed.
LEMMA RelinkedEffect ==
  ASSUME disk \in File
  PROVE  Rewired(Relinked, Len(disk.pg))
  <1> DEFINE N == Len(disk.pg)
  <1> DEFINE V == [n \in 0..N |-> {g \in File : Rewired(g, n)}]
  <1>1. N \in Nat /\ DOMAIN disk.pg = 1..N
    BY FileFacts
  <1>2. Rewired(disk, 0)
    <2>1. \A p \in DOMAIN disk.pg : ~(p <= 0)
      BY <1>1
    <2> QED BY <2>1 DEF Rewired
  <1> HIDE DEF N
  <1>3. 0 \in 0..N /\ N \in 0..N /\ \A n \in 1..N : n \in 0..N /\ n - 1 \in 0..N
    BY <1>1
  <1>4. \A n \in 0..N : V[n] = {g \in File : Rewired(g, n)}
    OBVIOUS
  <1> HIDE DEF V
  <1>5. ASSUME NEW n \in 1..N, NEW g \in V[n - 1]
        PROVE  Relink(g, n) \in V[n]
    <2>1. Rewired(g, n - 1)
      BY <1>3, <1>4
    <2>2. n \in 1..Len(disk.pg)
      BY DEF N
    <2>3. Rewired(Relink(g, n), n)
      BY <2>1, <2>2, RelinkStep
    <2>4. Relink(g, n) \in File
      BY <2>3 DEF Rewired
    <2> QED BY <1>3, <1>4, <2>3, <2>4
  <1>6. disk \in V[0]
    BY <1>2, <1>3, <1>4
  <1>7. PICK u : RelinkUpTo(V, u)
    <2>1. RelinkClosed(V)
      BY <1>5, <1>6 DEF RelinkClosed, N
    <2>2. Len(disk.pg) \in Nat
      BY <1>1 DEF N
    <2> QED BY <2>1, <2>2, RelinkStages
  <1>8. Relinked \in V[N]
    BY <1>3, <1>7 DEF RelinkUpTo, N
  <1> QED BY <1>3, <1>4, <1>8 DEF N

\* The chains after the store was opened: the pages of each chat by number.
ByNumber == [c \in Chats |-> CHOOSE s : Ascends(s, PagesOf(c))]

\* Those chains exist.
LEMMA ByNumberFacts ==
  ASSUME disk \in File, NEW c \in Chats
  PROVE  Ascends(ByNumber[c], PagesOf(c)) /\ PagesOf(c) \in SUBSET Nat /\ PagesOf(c) \subseteq DOMAIN disk.pg
  <1>1. DOMAIN disk.pg = 1..Len(disk.pg) /\ Len(disk.pg) \in Nat
    BY FileFacts
  <1>2. PagesOf(c) \in SUBSET (1..Len(disk.pg))
    BY <1>1 DEF PagesOf
  <1>3. \E s : Ascends(s, PagesOf(c))
    BY <1>1, <1>2, SortedOf
  <1>4. Ascends(ByNumber[c], PagesOf(c))
    BY <1>3 DEF ByNumber
  <1> QED BY <1>1, <1>2, <1>4

\* The links of a chat after the store was opened lead through its pages by number.
LEMMA ByNumberPath ==
  ASSUME disk \in File, NEW g, Rewired(g, Len(disk.pg)), NEW c \in Chats
  PROVE  ChatPath(g, c, ByNumber[c])
  <1> DEFINE T == PagesOf(c)
  <1> DEFINE s == ByNumber[c]
  <1>1. Ascends(s, T) /\ T \in SUBSET Nat /\ T \subseteq DOMAIN disk.pg
    BY ByNumberFacts
  <1>2. \A p \in T : disk.pg[p].kind = "chat" /\ disk.pg[p].chat = c /\ p <= Len(disk.pg)
    <2>1. \A p \in DOMAIN disk.pg : p <= Len(disk.pg)
      BY FileFacts
    <2> QED BY <2>1 DEF PagesOf
  <1>3. \A p \in T : Follower(p) = IF {q \in T : q > p} = {} THEN 0 ELSE Min({q \in T : q > p})
    <2> TAKE p \in T
    <2>1. PagesOf(disk.pg[p].chat) = T
      BY <1>2
    <2> HIDE DEF T
    <2> QED BY <2>1 DEF Follower
  <1> HIDE DEF T, s
  <1>4. /\ \A i, j \in DOMAIN s : s[i] = s[j] => i = j
        /\ \A i \in DOMAIN s :
              /\ i = Len(s) => {q \in T : q > s[i]} = {}
              /\ i # Len(s) => {q \in T : q > s[i]} # {} /\ Min({q \in T : q > s[i]}) = s[i + 1]
    BY <1>1, AscendsFacts
  <1>5. s \in Seq(T) /\ \A i \in DOMAIN s : s[i] \in T
    BY <1>1 DEF Ascends
  <1>6. DOMAIN g.pg = DOMAIN disk.pg /\ \A p \in T : g.pg[p] = [disk.pg[p] EXCEPT !.next = Follower(p)]
    BY <1>1, <1>2 DEF Rewired
  <1>7. \A p \in T : g.pg[p].next = Follower(p) /\ g.pg[p].kind = "chat" /\ g.pg[p].chat = c
    <2> TAKE p \in T
    <2>1. disk.pg[p] \in Page
      BY <1>1, FileFacts
    <2>2. PICK q : q = Follower(p)
      OBVIOUS
    <2>3. PICK x \in Page : x = disk.pg[p]
      BY <2>1
    <2>4. [x EXCEPT !.next = q].next = q /\ [x EXCEPT !.next = q].kind = x.kind /\ [x EXCEPT !.next = q].chat = x.chat
      BY DEF Page
    <2> QED BY <1>2, <1>6, <2>2, <2>3, <2>4
  <1>8. Path(g, s)
    <2>1. \A i \in DOMAIN s : g.pg[s[i]].next = IF i = Len(s) THEN 0 ELSE s[i + 1]
      <3> TAKE i \in DOMAIN s
      <3>1. g.pg[s[i]].next = Follower(s[i])
        BY <1>5, <1>7
      <3>2. Follower(s[i]) = IF {q \in T : q > s[i]} = {} THEN 0 ELSE Min({q \in T : q > s[i]})
        BY <1>3, <1>5
      <3> QED BY <1>4, <3>1, <3>2
    <2>2. s \in Seq(DOMAIN g.pg)
      BY <1>1, <1>5, <1>6
    <2> QED BY <1>4, <2>1, <2>2 DEF Path
  <1> QED BY <1>5, <1>7, <1>8 DEF ChatPath, s

\* The file has the shape of those chains.
LEMMA ByNumberShape ==
  ASSUME NEW fr, NEW ch, NEW m \in Nat, Shape(disk, fr, ch, m), NEW g, Rewired(g, Len(disk.pg))
  PROVE  /\ Shape(g, fr, ByNumber, m)
         /\ \A p \in DOMAIN disk.pg :
               /\ p \in DOMAIN g.pg /\ g.pg[p].kind = disk.pg[p].kind /\ g.pg[p].chat = disk.pg[p].chat
               /\ g.pg[p].items = disk.pg[p].items /\ (disk.pg[p].kind # "chat" => g.pg[p] = disk.pg[p])
         /\ DOMAIN g.pg = DOMAIN disk.pg
  <1>1. disk \in File /\ g \in File /\ g.free = disk.free /\ DOMAIN g.pg = DOMAIN disk.pg
    BY DEF Shape, Rewired
  <1>2. \A p \in DOMAIN disk.pg :
           /\ g.pg[p].kind = disk.pg[p].kind /\ g.pg[p].chat = disk.pg[p].chat
           /\ g.pg[p].items = disk.pg[p].items /\ (disk.pg[p].kind # "chat" => g.pg[p] = disk.pg[p])
    <2> TAKE p \in DOMAIN disk.pg
    <2>1. disk.pg[p] \in Page
      BY <1>1, FileFacts
    <2>2. PICK q : q = Follower(p)
      OBVIOUS
    <2>3. PICK x \in Page : x = disk.pg[p]
      BY <2>1
    <2>4. [x EXCEPT !.next = q].kind = x.kind /\ [x EXCEPT !.next = q].chat = x.chat /\ [x EXCEPT !.next = q].items = x.items
      BY DEF Page
    <2>5. g.pg[p] = disk.pg[p] \/ (g.pg[p] = [x EXCEPT !.next = q] /\ x.kind = "chat")
      BY <2>2, <2>3 DEF Rewired
    <2> QED BY <2>3, <2>4, <2>5
  <1>3. FreeTrue(g, fr)
    <2>1. Path(disk, fr) /\ disk.free = HeadOf(fr) /\ \A p \in DOMAIN disk.pg : disk.pg[p].kind = "free" <=> p \in ToSet(fr)
      BY DEF Shape, FreeTrue
    <2>2. \A i \in DOMAIN fr : fr[i] \in DOMAIN disk.pg /\ disk.pg[fr[i]].kind = "free"
      BY <2>1 DEF Path, ToSet
    <2>3. \A i \in DOMAIN fr : g.pg[fr[i]].next = disk.pg[fr[i]].next
      BY <1>2, <2>2
    <2>4. Path(g, fr)
      BY <1>1, <2>1, <2>3, PathKept
    <2> QED BY <1>1, <1>2, <2>1, <2>4 DEF FreeTrue
  <1>4. \A c \in Chats : ChatPath(g, c, ByNumber[c])
    BY <1>1, ByNumberPath
  <1>5. HotTrue(g)
    <2>1. HotTrue(disk)
      BY DEF Shape
    <2>2. \A p \in DOMAIN disk.pg : disk.pg[p].kind = "hot" /\ disk.pg[p].next # 0 => disk.pg[p].next \in DOMAIN disk.pg
      <3>1. DOMAIN disk.pg = 1..Len(disk.pg) /\ Len(disk.pg) \in Nat
            /\ \A p \in DOMAIN disk.pg : disk.pg[p].next \in Nat /\ disk.pg[p].next <= Len(disk.pg)
        BY <1>1, FileFacts
      <3> QED BY <3>1
    <2> QED BY <1>1, <1>2, <2>1, <2>2, SMTT(30) DEF HotTrue
  <1>6. \A p \in DOMAIN g.pg : OwnPage(g.pg[p], m)
    <2> TAKE p \in DOMAIN g.pg
    <2>1. OwnPage(disk.pg[p], m)
      BY <1>1 DEF Shape
    <2> QED BY <1>1, <1>2, <2>1 DEF OwnPage
  <1> QED BY <1>1, <1>2, <1>3, <1>4, <1>5, <1>6 DEF Shape

\* Opening the store finds what was kept of the chats.
LEMMA Reopened ==
  ASSUME NEW fr, NEW ch, NEW m \in Nat, Stored(disk, fr, ch, m, tips, index, {})
  PROVE  /\ Stored(Relinked, fr, ByNumber, m, [c \in Chats |-> TipFromHeap(c)], index, {})
         /\ \A c \in Chats : IndexFromHeap(c) = index[c]
         /\ HotAtHot(Relinked, [k \in Keys |-> HotFromHeap(k)])
         /\ Len(Relinked.pg) = Len(disk.pg)
  <1> DEFINE g == Relinked
  <1>1. Shape(disk, fr, ch, m) /\ disk \in File
    BY DEF Stored, Shape
  <1>2. Rewired(g, Len(disk.pg))
    BY <1>1, RelinkedEffect
  <1> HIDE DEF g
  <1>3. /\ Shape(g, fr, ByNumber, m) /\ DOMAIN g.pg = DOMAIN disk.pg
        /\ \A p \in DOMAIN disk.pg :
              /\ g.pg[p].kind = disk.pg[p].kind /\ g.pg[p].chat = disk.pg[p].chat /\ g.pg[p].items = disk.pg[p].items
    BY <1>1, <1>2, ByNumberShape
  <1>4. ASSUME NEW c \in Chats
        PROVE  /\ TipFromHeap(c) = TipOf(g, ByNumber[c]) /\ index[c] = EntriesOf(g, ByNumber[c])
               /\ Owns(g, c) \subseteq ToSet(ByNumber[c]) /\ IndexFromHeap(c) = index[c]
    <2>1. Ascends(ByNumber[c], PagesOf(c)) /\ PagesOf(c) \in SUBSET Nat /\ PagesOf(c) \subseteq DOMAIN disk.pg
      BY <1>1, ByNumberFacts
    <2>2. ToSet(ByNumber[c]) = PagesOf(c)
      BY <2>1 DEF Ascends
    <2>3. PagesOf(c) = Owns(disk, c) /\ Owns(g, c) = Owns(disk, c)
      BY <1>3 DEF PagesOf, Owns
    <2>4. ToSet(ch[c]) = Owns(disk, c)
      <3>1. Owns(disk, c) \subseteq ToSet(ch[c]) \cup {}
        BY DEF Stored
      <3>2. ToSet(ch[c]) \subseteq Owns(disk, c)
        BY <1>1 DEF Shape, ChatPath, Path, ToSet, Owns
      <3> QED BY <3>1, <3>2
    <2>5. \A p \in Owns(disk, c) : Entries(g, p) = Entries(disk, p)
      BY <1>3 DEF Entries, Owns
    <2>6. index[c] = UNION {Entries(disk, p) : p \in Owns(disk, c)}
      <3>1. index[c] = EntriesOf(disk, ch[c])
        BY DEF Stored
      <3> QED BY <2>4, <3>1 DEF EntriesOf
    <2>7. index[c] = EntriesOf(g, ByNumber[c])
      BY <2>2, <2>3, <2>5, <2>6 DEF EntriesOf
    <2>8. IndexFromHeap(c) = index[c]
      BY <2>3, <2>6 DEF IndexFromHeap
    <2>9. TipFromHeap(c) = TipOf(g, ByNumber[c])
      <3> DEFINE ids == PagesOf(c)
      <3> DEFINE s == ByNumber[c]
      <3>1. /\ s = <<>> <=> ids = {}
            /\ ids # {} => HeadOf(s) = Min(ids) /\ LastOf(s) = Max(ids)
        BY <2>1, AscendsFacts
      <3>2. Contents(g, HeadOf(s)) = Tuples(g, s)
        BY <1>3, ReadTuples
      <3>3. TipFromHeap(c) = IF ids = {} THEN NoTip
                             ELSE [head |-> Min(ids), tail |-> Max(ids), count |-> Len(Contents(g, Min(ids)))]
        BY DEF TipFromHeap, g
      <3> HIDE DEF ids, s
      <3>4. CASE ids = {}
        <4>1. Tuples(g, <<>>) = <<>>
          BY TuplesNone
        <4>2. s = <<>>
          BY <3>1, <3>4
        <4>3. TipOf(g, <<>>) = NoTip
          BY <4>1 DEF TipOf, NoTip, HeadOf, LastOf
        <4> QED BY <3>3, <3>4, <4>2, <4>3 DEF s
      <3>5. CASE ids # {}
        <4>1. TipFromHeap(c) = [head |-> Min(ids), tail |-> Max(ids), count |-> Len(Contents(g, Min(ids)))]
          BY <3>3, <3>5
        <4>2. PICK x, y : x = Min(ids) /\ y = Max(ids)
          OBVIOUS
        <4>3. HeadOf(s) = x /\ LastOf(s) = y
          BY <3>1, <3>5, <4>2
        <4>4. TipOf(g, s) = [head |-> x, tail |-> y, count |-> Len(Tuples(g, s))]
          BY <4>3 DEF TipOf
        <4> QED BY <3>2, <4>1, <4>2, <4>3, <4>4 DEF s
      <3> QED BY <3>4, <3>5
    <2> QED BY <2>2, <2>3, <2>7, <2>8, <2>9
  <1>5. \A p \in DOMAIN g.pg : g.pg[p].kind = "chat" => g.pg[p].chat \in Chats
    BY <1>3 DEF Stored
  <1>6. Stored(g, fr, ByNumber, m, [c \in Chats |-> TipFromHeap(c)], index, {})
    <2>1. \A c \in Chats : [d \in Chats |-> TipFromHeap(d)][c] = TipFromHeap(c)
      OBVIOUS
    <2>2. PICK tip : tip = [c \in Chats |-> TipFromHeap(c)]
      OBVIOUS
    <2>3. \A c \in Chats : tip[c] = TipFromHeap(c)
      BY <2>1, <2>2
    <2>4. Stored(g, fr, ByNumber, m, tip, index, {})
      BY <1>3, <1>4, <1>5, <2>3 DEF Stored
    <2> QED BY <2>2, <2>4
  <1>7. HotAtHot(g, [k \in Keys |-> HotFromHeap(k)])
    <2> DEFINE at == [k \in Keys |-> HotFromHeap(k)]
    <2>1. ASSUME NEW k \in Keys
          PROVE  at[k] = 0 \/ (at[k] \in DOMAIN g.pg /\ g.pg[at[k]].kind = "hot")
      <3> DEFINE on == {p \in DOMAIN disk.pg : disk.pg[p].kind = "hot" /\
                                               \E t \in ToSet(disk.pg[p].items) : t[1] = k}
      <3>1. HotFromHeap(k) = IF on = {} THEN 0 ELSE Max(on)
        BY DEF HotFromHeap
      <3>2. on \subseteq {p \in DOMAIN disk.pg : disk.pg[p].kind = "hot"}
        OBVIOUS
      <3> HIDE DEF on
      <3>3. on # {} => Max(on) \in on
        <4>1. on \in SUBSET (1..Len(disk.pg)) /\ Len(disk.pg) \in Nat
          BY <1>1, <3>2, FileFacts
        <4>2. PICK s : Ascends(s, on)
          BY <4>1, SortedOf
        <4>3. on \in SUBSET Nat
          BY <4>1
        <4>4. on # {} => LastOf(s) = Max(on) /\ s # <<>>
          BY <4>2, <4>3, AscendsFacts
        <4>5. s # <<>> => LastOf(s) \in on
          <5>1. s \in Seq(on)
            BY <4>2 DEF Ascends
          <5> QED BY <5>1, FrontLast
        <4> QED BY <4>4, <4>5
      <3> QED BY <1>3, <3>1, <3>2, <3>3
    <2> HIDE DEF at
    <2>2. HotAtHot(g, at)
      BY <2>1 DEF HotAtHot
    <2> QED BY <2>2 DEF at
  <1>8. Len(g.pg) = Len(disk.pg)
    BY <1>2 DEF Rewired
  <1> QED BY <1>4, <1>6, <1>7, <1>8 DEF g

-----------------------------------------------------------------------------
(* The invariant of the store, where it is never killed *)

\* The tables have an entry for every chat and every key.
Typed ==
    /\ tips = [c \in Chats |-> tips[c]] /\ index = [c \in Chats |-> index[c]]
    /\ hotAt = [k \in Keys |-> hotAt[k]] /\ ring = [c \in Chats |-> ring[c]]

\* The operations that can be under way.
Ops == {Idle, [at |-> "index"], [at |-> "meta"], [at |-> "rotate"]}
       \cup [at : {"link"}, c : Chats, page : Nat] \cup [at : {"insert"}, c : Chats]

\* The counters keep their bounds; a page is taken for a message that may be posted.
Counted ==
    /\ posted \in Seq(Chats) /\ Len(posted) <= MaxPosted
    /\ lives \in Nat /\ lives <= MaxLives
    /\ op \in Ops /\ (op.at \in {"link", "insert"} => Len(posted) < MaxPosted)
    /\ \E S : wal \in Seq(S)

\* The file on disk is a file, and as long.
OnDisk == disk \in File /\ Len(disk.pg) = Len(mem.pg) /\ Len(mem.pg) <= MaxPages

\* The page that is taken and not linked yet.
Pending == IF op.at = "link" THEN {op.page} ELSE {}

\* The page was taken for the chat; the page linked last is empty still.
OpTrue(ch) ==
    /\ op.at = "link" =>
          op.page \in DOMAIN mem.pg /\ mem.pg[op.page] = ChatPage(op.c) /\ op.page \notin ToSet(ch[op.c])
    /\ op.at = "insert" => ch[op.c] # <<>> /\ mem.pg[LastOf(ch[op.c])].items = <<>>

\* There are a free list and chains that the file has and the memory knows.
Chained == \E fr, ch : Stored(mem, fr, ch, Len(posted), tips, index, Pending) /\ OpTrue(ch)

\* What the checkpoint has saved is the index, from the file to the empty WAL.
Saved ==
    /\ op.at = "meta" => snap = [cp |-> lsn, index |-> index]
    /\ op.at = "rotate" \/ (op = Idle /\ wal = <<>>) => snap.index = index /\ snap.cp = meta.cp

\* The invariant.
StoreInv == Typed /\ Counted /\ OnDisk /\ Chained /\ HotAtHot(mem, hotAt) /\ Saved

\* A page, or the head of the free list, is written to the file.
LEMMA EvictKeeps ==
  ASSUME StoreInv, Evict
  PROVE  StoreInv'
  <1>1. UNCHANGED <<mem, tips, index, hotAt, ring, wal, lsn, meta, snap, op, posted, hot, lives>>
    BY DEF Evict
  <1>2. mem \in File /\ disk \in File /\ Len(disk.pg) = Len(mem.pg)
    BY DEF StoreInv, OnDisk, Chained, Stored, Shape
  <1>3. disk' \in File /\ Len(disk'.pg) = Len(disk.pg)
    <2>1. CASE \E p \in DOMAIN mem.pg : disk.pg[p] # mem.pg[p] /\ disk' = [disk EXCEPT !.pg[p] = mem.pg[p]]
      <3>1. PICK p \in DOMAIN mem.pg : disk' = [disk EXCEPT !.pg[p] = mem.pg[p]]
        BY <2>1
      <3>2. PICK page : page = mem.pg[p]
        OBVIOUS
      <3>3. page \in Page /\ page.next <= Len(disk.pg) /\ Len(page.items) <= Size(page.kind) /\ p \in DOMAIN disk.pg
        BY <1>2, <3>2, FileFacts
      <3> QED BY <1>2, <3>1, <3>2, <3>3, WriteEffect DEF Writes
    <2>2. CASE disk' = [disk EXCEPT !.free = mem.free]
      <3>1. mem.free \in Nat /\ mem.free <= Len(mem.pg)
        BY <1>2, FileFacts
      <3>2. PICK n \in Nat : n = mem.free /\ n <= Len(disk.pg)
        BY <1>2, <3>1
      <3>3. [disk EXCEPT !.free = n] \in File /\ [disk EXCEPT !.free = n].pg = disk.pg
        BY <1>2, <3>2 DEF File
      <3> QED BY <2>2, <3>2, <3>3
    <2> QED BY <2>1, <2>2 DEF Evict
  <1>4. OnDisk'
    BY <1>1, <1>2, <1>3 DEF StoreInv, OnDisk
  <1>5. Typed' /\ Counted'
    BY <1>1 DEF StoreInv, Typed, Counted
  <1>6. Chained' /\ HotAtHot(mem, hotAt)' /\ Saved'
    BY <1>1 DEF StoreInv, Chained, Pending, OpTrue, Saved
  <1> QED BY <1>4, <1>5, <1>6 DEF StoreInv

\* Pages appended to the file are there at once.
LEMMA GrownFile ==
  ASSUME NEW f \in File, NEW g \in File, Len(f.pg) <= Len(g.pg)
  PROVE  LET h == [f EXCEPT !.pg = Grown(@, g.pg)]
         IN  /\ h \in File /\ Len(h.pg) = Len(g.pg) /\ h.free = f.free
             /\ \A p \in DOMAIN f.pg : h.pg[p] = f.pg[p]
             /\ \A p \in DOMAIN g.pg \ DOMAIN f.pg : h.pg[p] = Blank(g.pg[p].kind)
  <1> DEFINE more == [i \in 1..(Len(g.pg) - Len(f.pg)) |-> Blank(g.pg[Len(f.pg) + i].kind)]
  <1> DEFINE h == [f EXCEPT !.pg = Grown(@, g.pg)]
  <1>1. PICK L \in Nat, M \in Nat : L = Len(f.pg) /\ M = Len(g.pg) /\ L <= M
    BY FileFacts
  <1>2. /\ f = [pg |-> f.pg, free |-> f.free] /\ f.pg \in Seq(Page) /\ DOMAIN f.pg = 1..L
        /\ f.free \in Nat /\ f.free <= L /\ DOMAIN g.pg = 1..M
    BY <1>1, FileFacts
  <1>3. \A i \in 1..(M - L) : Blank(g.pg[L + i].kind) \in Page
    <2> TAKE i \in 1..(M - L)
    <2>1. L + i \in DOMAIN g.pg
      BY <1>1, <1>2
    <2>2. g.pg[L + i].kind \in {"free", "chat", "hot"}
      BY <2>1, FileFacts, PageFacts
    <2> QED BY <2>2, BlankPage
  <1>4. more \in Seq(Page) /\ Len(more) = M - L
    BY <1>1, <1>3
  <1>5. \A i \in 1..(M - L) : more[i].next = 0 /\ more[i].items = <<>>
    BY <1>1 DEF Blank
  <1>a. \A i \in 1..(M - L) : more[i] = Blank(g.pg[L + i].kind)
    BY <1>1
  <1> HIDE DEF more
  <1>6. h.pg = f.pg \o more /\ h.free = f.free /\ h = [pg |-> h.pg, free |-> h.free]
    <2>1. PICK x : x = f.pg \o more
      OBVIOUS
    <2>2. Grown(f.pg, g.pg) = x
      BY <2>1, Zenon DEF Grown, more
    <2>3. h = [f EXCEPT !.pg = x]
      BY <2>2
    <2> HIDE DEF h
    <2> QED BY <1>2, <2>1, <2>3
  <1> HIDE DEF h
  <1>7. /\ h.pg \in Seq(Page) /\ Len(h.pg) = M /\ DOMAIN h.pg = 1..M
        /\ \A i \in 1..L : h.pg[i] = f.pg[i]
        /\ \A i \in 1..M : i \in 1..L \/ (i - L \in 1..(M - L) /\ h.pg[i] = more[i - L])
    BY <1>1, <1>2, <1>4, <1>6, SMTT(30)
  <1>8. ASSUME NEW p \in 1..M
        PROVE  h.pg[p].next <= M /\ Len(h.pg[p].items) <= Size(h.pg[p].kind)
    <2>1. CASE p \in 1..L
      <3>1. f.pg[p].next \in Nat /\ f.pg[p].next <= L /\ Len(f.pg[p].items) <= Size(f.pg[p].kind)
        BY <1>1, <1>2, <2>1, FileFacts
      <3> QED BY <1>1, <1>7, <2>1, <3>1, SMTT(30)
    <2>2. CASE p \notin 1..L
      <3>1. h.pg[p].next = 0 /\ h.pg[p].items = <<>>
        BY <1>5, <1>7, <2>2, SMTT(30)
      <3>2. Size(h.pg[p].kind) \in Nat
        BY PagesAssumption DEF Size
      <3> QED BY <1>1, <3>1, <3>2
    <2> QED BY <2>1, <2>2
  <1>9. h.free <= M
    BY <1>1, <1>2, <1>6
  <1>10. h \in File /\ Len(h.pg) = Len(g.pg)
    BY <1>1, <1>2, <1>6, <1>7, <1>8, <1>9 DEF File
  <1>11. \A p \in DOMAIN f.pg : h.pg[p] = f.pg[p]
    BY <1>2, <1>7
  <1>12. ASSUME NEW p \in DOMAIN g.pg \ DOMAIN f.pg
         PROVE  h.pg[p] = Blank(g.pg[p].kind)
    <2>1. p - L \in 1..(M - L) /\ h.pg[p] = more[p - L] /\ L + (p - L) = p
      BY <1>1, <1>2, <1>7
    <2> QED BY <1>a, <2>1
  <1> QED BY <1>6, <1>10, <1>11, <1>12 DEF h

\* The pages of one file are pages of the other.
LEMMA NoShorter ==
  ASSUME NEW f \in File, NEW g \in File, \A q \in DOMAIN f.pg : q \in DOMAIN g.pg
  PROVE  Len(f.pg) <= Len(g.pg)
  <1>1. PICK L \in Nat, M \in Nat : L = Len(f.pg) /\ M = Len(g.pg) /\ DOMAIN f.pg = 1..L /\ DOMAIN g.pg = 1..M
    BY FileFacts
  <1>2. L # 0 => L \in 1..L
    BY <1>1
  <1> QED BY <1>1, <1>2

\* What the state is after a change to the memory.
Replaced(s) ==
    /\ mem' = s.f /\ tips' = s.tips /\ index' = s.index /\ hotAt' = s.hotAt /\ ring' = s.ring
    /\ disk' \in File /\ Len(disk'.pg) = Len(mem'.pg)
    /\ tips' = [c \in Chats |-> tips'[c]] /\ index' = [c \in Chats |-> index'[c]]
    /\ hotAt' = [k \in Keys |-> hotAt'[k]] /\ ring' = [c \in Chats |-> ring'[c]]

\* The change keeps the file on disk in step.
LEMMA BecomesFacts ==
  ASSUME StoreInv, NEW s, IsMemory(s), s.f \in File, \A q \in DOMAIN mem.pg : q \in DOMAIN s.f.pg, Becomes(s)
  PROVE  Replaced(s)
  <1>1. mem \in File /\ disk \in File /\ Len(disk.pg) = Len(mem.pg)
    BY DEF StoreInv, OnDisk, Chained, Stored, Shape
  <1>2. Len(disk.pg) <= Len(s.f.pg)
    BY <1>1, NoShorter
  <1>3. [disk EXCEPT !.pg = Grown(@, s.f.pg)] \in File /\ Len([disk EXCEPT !.pg = Grown(@, s.f.pg)].pg) = Len(s.f.pg)
    BY <1>1, <1>2, GrownFile
  <1>4. /\ mem' = s.f /\ tips' = s.tips /\ index' = s.index /\ hotAt' = s.hotAt /\ ring' = s.ring
        /\ disk' = [disk EXCEPT !.pg = Grown(@, s.f.pg)]
    BY DEF Becomes
  <1>5. /\ s.tips = [c \in Chats |-> s.tips[c]] /\ s.index = [c \in Chats |-> s.index[c]]
        /\ s.hotAt = [k \in Keys |-> s.hotAt[k]] /\ s.ring = [c \in Chats |-> s.ring[c]]
    BY DEF IsMemory
  <1> QED BY <1>3, <1>4, <1>5 DEF Replaced

\* The state as the operations take it up.
LEMMA LoadedFacts ==
  ASSUME StoreInv
  PROVE  /\ IsMemory(Loaded)
         /\ Loaded.f = mem /\ Loaded.tips = tips /\ Loaded.index = index /\ Loaded.hotAt = hotAt
         /\ Loaded.ring = ring /\ Loaded.cp = meta.cp
  BY DEF StoreInv, Typed, Loaded, IsMemory

\* A record is logged.
LEMMA LogsFacts ==
  ASSUME StoreInv, NEW rec, Logs(rec)
  PROVE  wal' # <<>> /\ \E S : wal' \in Seq(S)
  <1>1. PICK S : wal \in Seq(S)
    BY DEF StoreInv, Counted
  <1>2. PICK x : wal' = Append(wal, x)
    BY DEF Logs
  <1>3. wal \in Seq(S \cup {x})
    BY <1>1
  <1>4. wal' \in Seq(S \cup {x}) /\ wal' # <<>>
    BY <1>2, <1>3
  <1> QED BY <1>4

\* A page for a chat is taken.
LEMMA NewPageKeeps ==
  ASSUME StoreInv, NEW c \in Chats, NewPage(c)
  PROVE  StoreInv'
  <1>1. /\ op = Idle /\ Len(posted) < MaxPosted /\ Allocated(mem) <= MaxPages
        /\ mem' = AllocFor(mem, c)
        /\ disk' = IF Allocated(mem) > Len(disk.pg) THEN [disk EXCEPT !.pg = Append(@, Blank("chat"))] ELSE disk
        /\ op' = [at |-> "link", c |-> c, page |-> Allocated(mem)]
        /\ UNCHANGED <<tips, index, hotAt, ring, wal, lsn, meta, snap, posted, hot, lives>>
    BY DEF NewPage
  <1>2. Pending = {}
    BY <1>1 DEF Pending, Idle
  <1>3. Len(posted) \in Nat
    BY DEF StoreInv, Counted
  <1>4. PICK fr, ch : Stored(mem, fr, ch, Len(posted), tips, index, {})
    BY <1>2 DEF StoreInv, Chained
  <1>5. tips = [d \in Chats |-> tips[d]] /\ index = [d \in Chats |-> index[d]]
    BY DEF StoreInv, Typed
  <1> DEFINE g == AllocFor(mem, c)
  <1> DEFINE p == Allocated(mem)
  <1>6. /\ Stored(g, Popped(fr), ch, Len(posted), tips, index, {p}) /\ SameBut(c, g, mem)
        /\ p \in DOMAIN g.pg /\ g.pg[p] = ChatPage(c) /\ p \notin ToSet(ch[c])
    BY <1>3, <1>4, <1>5, NewPageStored
  <1>7. mem \in File /\ disk \in File /\ Len(disk.pg) = Len(mem.pg)
    BY DEF StoreInv, OnDisk, Chained, Stored, Shape
  <1>8. Takes(g, mem, ChatPage(c))
    BY <1>7, AllocForEffect
  <1>9. /\ p = IF mem.free > 0 THEN mem.free ELSE Len(mem.pg) + 1
        /\ mem.free \in Nat /\ mem.free <= Len(mem.pg) /\ Len(mem.pg) \in Nat
    BY <1>7, FileFacts DEF Allocated
  <1> HIDE DEF g, p
  <1>10. /\ mem' = g /\ g \in File /\ op' = [at |-> "link", c |-> c, page |-> p] /\ p \in Nat
         /\ disk' = IF p > Len(disk.pg) THEN [disk EXCEPT !.pg = Append(@, Blank("chat"))] ELSE disk
         /\ p <= MaxPages
    BY <1>1, <1>8, <1>9 DEF Takes, g, p
  <1>11. OnDisk'
    <2>1. CASE mem.free > 0
      <3>1. disk' = disk /\ Len(g.pg) = Len(mem.pg)
        BY <1>7, <1>8, <1>9, <1>10, <2>1 DEF Takes
      <3> QED BY <1>7, <1>10, <3>1 DEF StoreInv, OnDisk
    <2>2. CASE ~(mem.free > 0)
      <3>1. disk' = [disk EXCEPT !.pg = Append(@, Blank("chat"))] /\ Len(g.pg) = Len(mem.pg) + 1 /\ p = Len(mem.pg) + 1
        BY <1>7, <1>8, <1>9, <1>10, <2>2 DEF Takes
      <3>2. [disk EXCEPT !.pg = Append(@, Blank("chat"))] = [disk EXCEPT !.pg = Grown(@, g.pg)]
        <4>1. g.pg[p].kind = "chat"
          BY <1>6, ChatPageFacts
        <4>2. PICK L \in Nat : L = Len(disk.pg) /\ Len(g.pg) = L + 1 /\ p = L + 1 /\ disk.pg \in Seq(Page)
          BY <1>7, <1>9, <3>1, FileFacts
        <4>3. Grown(disk.pg, g.pg) = disk.pg \o [i \in 1..1 |-> Blank("chat")]
          <5>1. Len(g.pg) - Len(disk.pg) = 1 /\ \A i \in 1..1 : Len(disk.pg) + i = p
            BY <4>2
          <5>2. [i \in 1..1 |-> Blank(g.pg[Len(disk.pg) + i].kind)] = [i \in 1..1 |-> Blank("chat")]
            BY <4>1, <5>1
          <5> QED BY <5>1, <5>2 DEF Grown
        <4>4. PICK b \in Page : b = Blank("chat")
          BY BlankPage
        <4>5. disk.pg \o [i \in 1..1 |-> b] = Append(disk.pg, b)
          <5>1. [i \in 1..1 |-> b] = <<b>>
            OBVIOUS
          <5> QED BY <4>2, <5>1
        <4> QED BY <4>3, <4>4, <4>5
      <3>3. Len(disk.pg) <= Len(g.pg)
        BY <1>7, <1>9, <3>1
      <3>4. disk' \in File /\ Len(disk'.pg) = Len(g.pg)
        BY <1>7, <1>10, <3>1, <3>2, <3>3, GrownFile
      <3>5. Len(g.pg) <= MaxPages
        BY <1>10, <3>1
      <3> QED BY <1>10, <3>4, <3>5 DEF OnDisk
    <2> QED BY <2>1, <2>2
  <1>12. Counted'
    <2>1. op' \in [at : {"link"}, c : Chats, page : Nat]
      BY <1>10
    <2> QED BY <1>1, <2>1 DEF StoreInv, Counted, Ops
  <1>13. Chained'
    <2>1. Pending' = {p}
      BY <1>10 DEF Pending
    <2>2. OpTrue(ch)'
      BY <1>6, <1>10 DEF OpTrue
    <2>3. Stored(mem', Popped(fr), ch, Len(posted'), tips', index', Pending')
      BY <1>1, <1>6, <1>10, <2>1
    <2> QED BY <2>2, <2>3 DEF Chained
  <1>14. HotAtHot(mem, hotAt)'
    <2>1. HotAtHot(g, hotAt)
      BY <1>6, HotAtKept DEF StoreInv
    <2> QED BY <1>1, <1>10, <2>1
  <1>15. Saved' /\ Typed'
    BY <1>1, <1>10 DEF StoreInv, Typed, Saved, Idle
  <1> QED BY <1>11, <1>12, <1>13, <1>14, <1>15 DEF StoreInv

\* The invariant after a change to the memory.
LEMMA ReplacedKeeps ==
  ASSUME NEW s, Replaced(s), Len(s.f.pg) <= MaxPages, HotAtHot(s.f, s.hotAt),
         NEW fr, NEW ch, Stored(s.f, fr, ch, Len(posted'), s.tips, s.index, Pending'), OpTrue(ch)', Counted', Saved'
  PROVE  StoreInv'
  <1>1. /\ mem' = s.f /\ tips' = s.tips /\ index' = s.index /\ hotAt' = s.hotAt
        /\ disk' \in File /\ Len(disk'.pg) = Len(mem'.pg)
    BY DEF Replaced
  <1>2. Typed'
    BY DEF Replaced, Typed
  <1>3. OnDisk'
    BY <1>1 DEF OnDisk
  <1>4. Chained'
    <2>1. Stored(mem', fr, ch, Len(posted'), tips', index', Pending')
      BY <1>1
    <2> QED BY <2>1 DEF Chained
  <1>5. HotAtHot(mem, hotAt)'
    <2>1. HotAtHot(mem', hotAt')
      BY <1>1
    <2> QED BY <2>1
  <1> QED BY <1>2, <1>3, <1>4, <1>5 DEF StoreInv

\* The page is linked to the chat.
LEMMA LinkItLeads ==
  ASSUME StoreInv, LinkIt
  PROVE  \E r, fr, ch : /\ Stored(mem, fr, ch, Len(posted), tips, index, {op.page})
                        /\ Joined(r, Loaded, fr, ch, op.c, op.page, Len(posted)) /\ Replaced(r)
                        /\ op.c \in Chats
  <1>1. PICK c, p, prev : c = op.c /\ p = op.page /\ prev = tips[c].tail
    OBVIOUS
  <1>2. PICK rec : rec = LinkRec(c, p, prev)
    OBVIOUS
  <1>3. /\ op.at = "link" /\ Logs(rec) /\ Becomes(Apply(Loaded, rec)) /\ op' = [at |-> "insert", c |-> c]
        /\ UNCHANGED <<meta, snap, posted, hot, lives>>
    BY <1>1, <1>2 DEF LinkIt
  <1>4. c \in Chats /\ Len(posted) < MaxPosted /\ Len(posted) \in Nat
    BY <1>1, <1>3 DEF StoreInv, Counted, Ops, Idle
  <1>5. Apply(Loaded, rec) = LinkPage(Loaded, c, p, prev)
    <2>1. rec.type = "link" /\ rec.c = c /\ rec.page = p /\ rec.prev = prev
      BY <1>2 DEF LinkRec
    <2> QED BY <2>1 DEF Apply
  <1>6. PICK fr, ch : Stored(mem, fr, ch, Len(posted), tips, index, {p}) /\ OpTrue(ch)
    BY <1>1, <1>3 DEF StoreInv, Chained, Pending
  <1>7. p \in DOMAIN mem.pg /\ mem.pg[p] = ChatPage(c) /\ p \notin ToSet(ch[c])
    BY <1>1, <1>3, <1>6 DEF OpTrue
  <1>8. PICK r : r = LinkPage(Loaded, c, p, prev)
    OBVIOUS
  <1>9. Joined(r, Loaded, fr, ch, c, p, Len(posted))
    <2>1. r = LinkPage(Loaded, c, p, Loaded.tips[c].tail)
      BY <1>1, <1>8, LoadedFacts
    <2> QED BY <1>4, <1>6, <1>7, <2>1, LoadedFacts, LinkPageEffect
  <1>11. PICK cg : cg = With(ch, c, Append(ch[c], p))
    OBVIOUS
  <1>12. /\ IsMemory(r) /\ Stored(r.f, fr, cg, Len(posted), r.tips, r.index, {})
         /\ SameBut(c, r.f, mem) /\ Len(r.f.pg) = Len(mem.pg) /\ r.hotAt = hotAt
         /\ r.f.pg[p].items = <<>> /\ LastOf(Append(ch[c], p)) = p /\ Append(ch[c], p) # <<>>
    BY <1>9, <1>11, LoadedFacts DEF Joined
  <1>13. cg[c] = Append(ch[c], p)
    BY <1>4, <1>11 DEF With
  <1>14. r.f \in File /\ \A q \in DOMAIN mem.pg : q \in DOMAIN r.f.pg
    BY <1>12 DEF Stored, Shape, SameBut
  <1>15. Replaced(r)
    BY <1>3, <1>5, <1>8, <1>12, <1>14, BecomesFacts
  <1> QED BY <1>1, <1>4, <1>6, <1>9, <1>15

\* That keeps the invariant.
LEMMA LinkItKeeps ==
  ASSUME StoreInv, LinkIt
  PROVE  StoreInv'
  <1>1. PICK c, p, prev : c = op.c /\ p = op.page /\ prev = tips[c].tail
    OBVIOUS
  <1>3. /\ op.at = "link" /\ Logs(LinkRec(c, p, prev)) /\ op' = [at |-> "insert", c |-> c]
        /\ UNCHANGED <<meta, snap, posted, hot, lives>>
    BY <1>1 DEF LinkIt
  <1>9. PICK r, fr, ch : Joined(r, Loaded, fr, ch, c, p, Len(posted)) /\ Replaced(r) /\ c \in Chats
    BY <1>1, LinkItLeads
  <1>4. c \in Chats /\ Len(posted) < MaxPosted /\ Len(posted) \in Nat
    BY <1>3, <1>9 DEF StoreInv, Counted
  <1>10. wal' # <<>> /\ \E S : wal' \in Seq(S)
    BY <1>3, LogsFacts
  <1>11. PICK cg : cg = With(ch, c, Append(ch[c], p))
    OBVIOUS
  <1>12. /\ IsMemory(r) /\ Stored(r.f, fr, cg, Len(posted), r.tips, r.index, {})
         /\ SameBut(c, r.f, mem) /\ Len(r.f.pg) = Len(mem.pg) /\ r.hotAt = hotAt
         /\ r.f.pg[p].items = <<>> /\ LastOf(Append(ch[c], p)) = p /\ Append(ch[c], p) # <<>>
    BY <1>9, <1>11, LoadedFacts DEF Joined
  <1>13. cg[c] = Append(ch[c], p)
    BY <1>4, <1>11 DEF With
  <1>16. HotAtHot(r.f, r.hotAt)
    BY <1>12, HotAtKept DEF StoreInv
  <1>17. Counted'
    <2>1. op' \in [at : {"insert"}, c : Chats]
      BY <1>3, <1>4
    <2> QED BY <1>3, <1>4, <1>10, <2>1 DEF StoreInv, Counted, Ops
  <1>18. Saved' /\ Pending' = {}
    BY <1>3 DEF Saved, Idle, Pending
  <1>19. OpTrue(cg)'
    <2>1. mem' = r.f
      BY <1>9 DEF Replaced
    <2>2. op'.at = "insert" /\ op'.c = c
      BY <1>3
    <2> QED BY <1>12, <1>13, <2>1, <2>2 DEF OpTrue
  <1>20. Len(r.f.pg) <= MaxPages
    BY <1>12 DEF StoreInv, OnDisk
  <1>21. Stored(r.f, fr, cg, Len(posted'), r.tips, r.index, Pending')
    BY <1>3, <1>12, <1>18
  <1> QED BY <1>9, <1>16, <1>17, <1>18, <1>19, <1>20, <1>21, ReplacedKeeps

\* A message is put at the end of its chat.
LEMMA AppendLeads ==
  ASSUME StoreInv, NEW c \in Chats, AppendMessage(c)
  PROVE  \E r, fr, ch : /\ Stored(mem, fr, ch, Len(posted), tips, index, {})
                        /\ Inserted(r, Loaded, fr, ch, c, Len(posted) + 1) /\ Replaced(r)
  <1> DEFINE p == tips[c].tail
  <1> DEFINE m == Len(posted) + 1
  <1> DEFINE r == [RedoInsert(Loaded, c, p, m) EXCEPT !.tips[c].count = @ + 1, !.ring[c] = Newest(Append(@, m))]
  <1>1. /\ Logs(InsertRec(c, p, m)) /\ Becomes(r) /\ posted' = Append(posted, c) /\ op' = Idle
        /\ IF op = Idle THEN Len(posted) < MaxPosted /\ ~NeedsPage(c) ELSE op = [at |-> "insert", c |-> c]
        /\ UNCHANGED <<meta, snap, hot, lives>>
    BY DEF AppendMessage, Insert
  <1>2. /\ posted \in Seq(Chats) /\ Len(posted) \in Nat /\ Len(posted) < MaxPosted
        /\ posted' \in Seq(Chats) /\ Len(posted') = m
    BY <1>1 DEF StoreInv, Counted, Idle
  <1>3. op.at # "link"
    BY <1>1 DEF Idle
  <1>4. PICK fr, ch : Stored(mem, fr, ch, Len(posted), tips, index, {}) /\ OpTrue(ch)
    BY <1>3 DEF StoreInv, Chained, Pending
  <1>5. p = LastOf(ch[c])
    <2>1. tips[c] = TipOf(mem, ch[c])
      BY <1>4 DEF Stored
    <2> QED BY <2>1 DEF TipOf
  <1>6. mem \in File /\ ch[c] \in Seq(DOMAIN mem.pg) /\ 0 \notin DOMAIN mem.pg
        /\ \A i \in DOMAIN ch[c] : mem.pg[ch[c][i]].kind = "chat"
    <2>1. mem \in File /\ ChatPath(mem, c, ch[c])
      BY <1>4 DEF Stored, Shape
    <2>2. 0 \notin DOMAIN mem.pg
      BY <2>1, FileFacts
    <2> QED BY <2>1, <2>2 DEF ChatPath, Path
  <1>7. ch[c] # <<>> /\ Room(mem.pg[LastOf(ch[c])])
    <2>1. CASE op = Idle
      <3>1. PICK q \in DOMAIN mem.pg : q = p /\ Room(mem.pg[q])
        BY <1>1, <2>1 DEF NeedsPage
      <3>2. ch[c] = <<>> => LastOf(ch[c]) = 0
        BY DEF LastOf
      <3> QED BY <1>5, <1>6, <3>1, <3>2
    <2>2. CASE op # Idle
      <3>1. op.at = "insert" /\ op.c = c
        BY <1>1, <2>2
      <3>2. ch[c] # <<>> /\ mem.pg[LastOf(ch[c])].items = <<>>
        BY <1>4, <3>1 DEF OpTrue
      <3>3. mem.pg[LastOf(ch[c])].kind = "chat"
        <4>1. Len(ch[c]) \in DOMAIN ch[c] /\ LastOf(ch[c]) = ch[c][Len(ch[c])]
          BY <1>6, <3>2, FrontLast
        <4> QED BY <1>6, <4>1
      <3>4. Len(mem.pg[LastOf(ch[c])].items) = 0 /\ 0 < Cap
        BY <3>2, PagesAssumption
      <3> QED BY <3>2, <3>3, <3>4 DEF Room
    <2> QED BY <2>1, <2>2
  <1> HIDE DEF p
  <1>8. Inserted(r, Loaded, fr, ch, c, m)
    <2>1. r = [RedoInsert(Loaded, c, Loaded.tips[c].tail, Len(posted) + 1)
                  EXCEPT !.tips[c].count = @ + 1, !.ring[c] = Newest(Append(@, Len(posted) + 1))]
      BY LoadedFacts, ZenonT(30) DEF p
    <2> HIDE DEF r
    <2>2. Inserted(r, Loaded, fr, ch, c, Len(posted) + 1)
      BY <1>2, <1>4, <1>7, <2>1, LoadedFacts, InsertEffect, ZenonT(30)
    <2> QED BY <2>2
  <1> HIDE DEF r, m
  <1>9. /\ IsMemory(r) /\ Stored(r.f, fr, ch, m, r.tips, r.index, {})
        /\ SameBut(c, r.f, mem) /\ Len(r.f.pg) = Len(mem.pg) /\ r.hotAt = hotAt
    BY <1>8, LoadedFacts DEF Inserted
  <1>10. r.f \in File /\ \A q \in DOMAIN mem.pg : q \in DOMAIN r.f.pg
    BY <1>9 DEF Stored, Shape, SameBut
  <1>11. Replaced(r)
    BY <1>1, <1>9, <1>10, BecomesFacts
  <1> QED BY <1>4, <1>8, <1>11, SMTT(30) DEF m

\* That keeps the invariant.
LEMMA AppendKeeps ==
  ASSUME StoreInv, NEW c \in Chats, AppendMessage(c)
  PROVE  StoreInv'
  <1>1. /\ Logs(InsertRec(c, tips[c].tail, Len(posted) + 1)) /\ posted' = Append(posted, c) /\ op' = Idle
        /\ IF op = Idle THEN Len(posted) < MaxPosted /\ ~NeedsPage(c) ELSE op = [at |-> "insert", c |-> c]
        /\ UNCHANGED <<meta, snap, hot, lives>>
    BY DEF AppendMessage, Insert
  <1>2. PICK m \in Nat : m = Len(posted) + 1
    BY DEF StoreInv, Counted
  <1>3. /\ posted \in Seq(Chats) /\ Len(posted) \in Nat /\ Len(posted) < MaxPosted
        /\ posted' \in Seq(Chats) /\ Len(posted') = m
    BY <1>1, <1>2 DEF StoreInv, Counted, Idle
  <1>4. PICK r, fr, ch : Inserted(r, Loaded, fr, ch, c, m) /\ Replaced(r)
    BY <1>2, AppendLeads
  <1>9. /\ IsMemory(r) /\ Stored(r.f, fr, ch, m, r.tips, r.index, {})
        /\ SameBut(c, r.f, mem) /\ Len(r.f.pg) = Len(mem.pg) /\ r.hotAt = hotAt
    BY <1>4, LoadedFacts DEF Inserted
  <1>12. HotAtHot(r.f, r.hotAt)
    BY <1>9, HotAtKept DEF StoreInv
  <1>13. wal' # <<>> /\ \E S : wal' \in Seq(S)
    BY <1>1, LogsFacts
  <1>14. Counted'
    <2>1. m <= MaxPosted
      BY <1>2, <1>3, StoreAssumption
    <2>2. op'.at = "idle" /\ op' \in Ops
      BY <1>1 DEF Idle, Ops
    <2>3. lives' \in Nat /\ lives' <= MaxLives
      BY <1>1 DEF StoreInv, Counted
    <2> QED BY <1>3, <1>13, <2>1, <2>2, <2>3 DEF Counted
  <1>15. op'.at = "idle"
    BY <1>1 DEF Idle
  <1>16. Saved' /\ Pending' = {} /\ OpTrue(ch)'
    BY <1>13, <1>15 DEF Saved, Pending, OpTrue
  <1>17. Len(r.f.pg) <= MaxPages
    BY <1>9 DEF StoreInv, OnDisk
  <1>18. Stored(r.f, fr, ch, Len(posted'), r.tips, r.index, Pending')
    BY <1>3, <1>9, <1>16
  <1> QED BY <1>4, <1>12, <1>14, <1>16, <1>17, <1>18, ReplacedKeeps, SMTT(30)

\* What an operation that logs a record and does not change the chats' number keeps.
LEMMA LoggedKeeps ==
  ASSUME StoreInv, op = Idle, UNCHANGED <<op, posted, lives>>, NEW rec, Logs(rec)
  PROVE  Counted' /\ Saved' /\ Pending = {} /\ Pending' = {} /\ \A ch : OpTrue(ch)'
  <1>1. wal' # <<>> /\ \E S : wal' \in Seq(S)
    BY LogsFacts
  <1>2. Counted'
    BY <1>1 DEF StoreInv, Counted
  <1>3. Saved'
    BY <1>1 DEF Saved, Idle
  <1>4. Pending = {} /\ Pending' = {}
    BY DEF Pending, Idle
  <1>5. ASSUME NEW ch
        PROVE  OpTrue(ch)'
    BY DEF OpTrue, Idle
  <1> QED BY <1>2, <1>3, <1>4, <1>5

\* A chat is trimmed.
LEMMA TrimLeads ==
  ASSUME StoreInv, NEW c \in Chats, NEW keep \in Keeps, ChatTrimKeepLast(c, keep)
  PROVE  \E r, fr, ch : /\ Stored(mem, fr, ch, Len(posted), tips, index, {})
                        /\ TrimKept(r, Loaded, ch, c, keep, Len(posted)) /\ Replaced(r)
                        /\ SameBut(c, r.f, mem) /\ Len(r.f.pg) = Len(mem.pg) /\ r.hotAt = hotAt
  <1>1. /\ op = Idle /\ Logs(TrimRec(c, keep)) /\ Becomes(TrimChat(Loaded, c, keep))
        /\ UNCHANGED <<meta, snap, op, posted, hot, lives>>
    BY DEF ChatTrimKeepLast
  <1>2. Counted' /\ Saved' /\ Pending = {} /\ Pending' = {} /\ \A ch : OpTrue(ch)'
    BY <1>1, LoggedKeeps
  <1>3. keep \in Nat /\ Len(posted) \in Nat
    BY StoreAssumption DEF StoreInv, Counted
  <1>4. PICK fr, ch : Stored(mem, fr, ch, Len(posted), tips, index, {})
    BY <1>2 DEF StoreInv, Chained
  <1>5. PICK r : r = TrimChat(Loaded, c, keep)
    OBVIOUS
  <1>6. /\ IsMemory(r) /\ TrimKept(r, Loaded, ch, c, keep, Len(posted))
        /\ SameBut(c, r.f, mem) /\ Len(r.f.pg) = Len(mem.pg) /\ r.hotAt = hotAt
    <2>1. PICK s : s = Loaded
      OBVIOUS
    <2>2. IsMemory(s) /\ s.f = mem /\ s.tips = tips /\ s.index = index /\ s.hotAt = hotAt
      BY <2>1, LoadedFacts
    <2>3. Stored(s.f, fr, ch, Len(posted), s.tips, s.index, {})
      BY <1>4, <2>2
    <2>4. PICK m \in Nat : m = Len(posted)
      BY <1>3
    <2>5. Stored(s.f, fr, ch, m, s.tips, s.index, {})
      BY <2>3, <2>4
    <2>6. /\ IsMemory(TrimChat(s, c, keep)) /\ TrimKept(TrimChat(s, c, keep), s, ch, c, keep, m)
          /\ SameBut(c, TrimChat(s, c, keep).f, s.f) /\ Len(TrimChat(s, c, keep).f.pg) = Len(s.f.pg)
          /\ TrimChat(s, c, keep).hotAt = s.hotAt
      BY <1>3, <2>2, <2>5, TrimStored, ZenonT(90)
    <2> QED BY <1>5, <2>1, <2>2, <2>4, <2>6
  <1>7. PICK gr, t : Stored(r.f, gr, With(ch, c, t), Len(posted), r.tips, r.index, {})
    BY <1>6 DEF TrimKept
  <1>9. r.f \in File /\ \A q \in DOMAIN mem.pg : q \in DOMAIN r.f.pg
    BY <1>6, <1>7 DEF Stored, Shape, SameBut
  <1>10. Replaced(r)
    BY <1>1, <1>5, <1>6, <1>9, BecomesFacts
  <1> QED BY <1>4, <1>6, <1>10

\* That keeps the invariant.
LEMMA TrimKeeps ==
  ASSUME StoreInv, NEW c \in Chats, NEW keep \in Keeps, ChatTrimKeepLast(c, keep)
  PROVE  StoreInv'
  <1>1. op = Idle /\ Logs(TrimRec(c, keep)) /\ UNCHANGED <<meta, snap, op, posted, hot, lives>>
    BY DEF ChatTrimKeepLast
  <1>2. Counted' /\ Saved' /\ Pending = {} /\ Pending' = {} /\ \A ch : OpTrue(ch)'
    BY <1>1, LoggedKeeps
  <1>6. PICK r, fr, ch : /\ TrimKept(r, Loaded, ch, c, keep, Len(posted)) /\ Replaced(r)
                         /\ SameBut(c, r.f, mem) /\ Len(r.f.pg) = Len(mem.pg) /\ r.hotAt = hotAt
    BY TrimLeads
  <1>7. PICK gr, t : Stored(r.f, gr, With(ch, c, t), Len(posted), r.tips, r.index, {})
    BY <1>6 DEF TrimKept
  <1>8. PICK cg : cg = With(ch, c, t)
    OBVIOUS
  <1>11. HotAtHot(r.f, r.hotAt)
    BY <1>6, HotAtKept DEF StoreInv
  <1>12. Len(r.f.pg) <= MaxPages
    BY <1>6 DEF StoreInv, OnDisk
  <1>13. Stored(r.f, gr, cg, Len(posted'), r.tips, r.index, Pending')
    BY <1>1, <1>2, <1>7, <1>8
  <1>14. OpTrue(cg)'
    BY <1>2
  <1> QED BY <1>2, <1>6, <1>11, <1>12, <1>13, <1>14, ReplacedKeeps

\* The hot pages are written anew.
LEMMA RehotLeads ==
  ASSUME StoreInv, NEW n, NEW ch, NEW r, Rehot(r, Loaded, ch, n), Becomes(r)
  PROVE  Replaced(r)
  <1>2. IsMemory(r) /\ SameButHot(r.f, mem)
    BY LoadedFacts DEF Rehot
  <1>3. PICK gr : Stored(r.f, gr, ch, n, r.tips, r.index, {})
    BY DEF Rehot
  <1>4. r.f \in File /\ \A q \in DOMAIN mem.pg : q \in DOMAIN r.f.pg
    BY <1>2, <1>3 DEF Stored, Shape, SameButHot
  <1> QED BY <1>2, <1>4, BecomesFacts

\* That keeps the invariant.
LEMMA RehotKeeps ==
  ASSUME StoreInv, op = Idle, UNCHANGED <<op, posted, lives>>, NEW rec, Logs(rec),
         NEW ch, NEW r, Rehot(r, Loaded, ch, Len(posted)), Len(r.f.pg) <= MaxPages, Replaced(r)
  PROVE  StoreInv'
  <1>1. Counted' /\ Saved' /\ Pending' = {} /\ OpTrue(ch)'
    BY LoggedKeeps
  <1>2. HotAtHot(r.f, r.hotAt)
    BY DEF Rehot
  <1>3. PICK gr : Stored(r.f, gr, ch, Len(posted), r.tips, r.index, {})
    BY DEF Rehot
  <1>6. Stored(r.f, gr, ch, Len(posted'), r.tips, r.index, Pending')
    BY <1>1, <1>3
  <1> QED BY <1>1, <1>2, <1>6, ReplacedKeeps

\* A hot key is set.
LEMMA HotSetLeads ==
  ASSUME StoreInv, NEW k \in Keys, NEW v \in Vals, HotSet(k, v)
  PROVE  \E r, fr, ch : /\ Stored(mem, fr, ch, Len(posted), tips, index, {})
                        /\ Rehot(r, Loaded, ch, Len(posted)) /\ Replaced(r)
                        /\ Len(r.f.pg) <= MaxPages /\ r.f = WriteHot(mem, k, v)
  <1>1. PICK r : r = SetHot(Loaded, k, v)
    OBVIOUS
  <1>2. op = Idle /\ Len(r.f.pg) <= MaxPages /\ Becomes(r)
    BY <1>1 DEF HotSet
  <1>3. Pending = {} /\ Len(posted) \in Nat
    BY <1>2 DEF Pending, Idle, StoreInv, Counted
  <1>4. PICK fr, ch : Stored(mem, fr, ch, Len(posted), tips, index, {})
    BY <1>3 DEF StoreInv, Chained
  <1>5. HotAtHot(mem, hotAt)
    BY DEF StoreInv
  <1>6. Rehot(r, Loaded, ch, Len(posted)) /\ r.f = WriteHot(mem, k, v)
    BY <1>1, <1>3, <1>4, <1>5, LoadedFacts, SetHotStored, ZenonT(30)
  <1>7. Replaced(r)
    BY <1>2, <1>6, RehotLeads
  <1> QED BY <1>2, <1>4, <1>6, <1>7, SMTT(30)

\* That keeps the invariant.
LEMMA HotSetKeeps ==
  ASSUME StoreInv, NEW k \in Keys, NEW v \in Vals, HotSet(k, v)
  PROVE  StoreInv'
  <1>1. op = Idle /\ Logs(SetRec(k, v)) /\ UNCHANGED <<op, posted, lives>>
    BY DEF HotSet
  <1>2. PICK r, fr, ch : Rehot(r, Loaded, ch, Len(posted)) /\ Replaced(r) /\ Len(r.f.pg) <= MaxPages
    BY HotSetLeads
  <1> QED BY <1>1, <1>2, RehotKeeps

\* A hot key is deleted.
LEMMA HotDelLeads ==
  ASSUME StoreInv, NEW k \in Deletable, HotDel(k)
  PROVE  \E r, fr, ch : /\ Stored(mem, fr, ch, Len(posted), tips, index, {})
                        /\ Rehot(r, Loaded, ch, Len(posted)) /\ Replaced(r) /\ Len(r.f.pg) <= MaxPages
  <1>1. PICK r : r = DelHot(Loaded, k)
    OBVIOUS
  <1>2. op = Idle /\ Becomes(r)
    BY <1>1 DEF HotDel
  <1>3. Pending = {} /\ Len(posted) \in Nat /\ k \in Keys
    BY <1>2, StoreAssumption DEF Pending, Idle, StoreInv, Counted
  <1>4. PICK fr, ch : Stored(mem, fr, ch, Len(posted), tips, index, {})
    BY <1>3 DEF StoreInv, Chained
  <1>5. HotAtHot(mem, hotAt)
    BY DEF StoreInv
  <1>6. Rehot(r, Loaded, ch, Len(posted)) /\ Len(r.f.pg) = Len(mem.pg)
    BY <1>1, <1>3, <1>4, <1>5, LoadedFacts, DelHotStored
  <1>7. Len(r.f.pg) <= MaxPages
    BY <1>6 DEF StoreInv, OnDisk
  <1>8. Replaced(r)
    BY <1>2, <1>6, RehotLeads
  <1> QED BY <1>4, <1>6, <1>7, <1>8

\* That keeps the invariant.
LEMMA HotDelKeeps ==
  ASSUME StoreInv, NEW k \in Deletable, HotDel(k)
  PROVE  StoreInv'
  <1>1. op = Idle /\ Logs(DelRec(k)) /\ UNCHANGED <<op, posted, lives>>
    BY DEF HotDel
  <1>2. PICK r, fr, ch : Rehot(r, Loaded, ch, Len(posted)) /\ Replaced(r) /\ Len(r.f.pg) <= MaxPages
    BY HotDelLeads
  <1> QED BY <1>1, <1>2, RehotKeeps

\* The ring is read again.
LEMMA RecentKeeps ==
  ASSUME StoreInv, NEW c \in Chats, NEW more, ChatRecent(c, more)
  PROVE  StoreInv'
  <1>1. UNCHANGED <<mem, disk, tips, index, hotAt, wal, lsn, meta, snap, op, posted, hot, lives>>
    BY DEF ChatRecent
  <1>2. Typed'
    <2>1. PICK x : ring' = [ring EXCEPT ![c] = x]
      BY DEF ChatRecent
    <2> QED BY <1>1, <2>1 DEF StoreInv, Typed
  <1>3. Counted' /\ OnDisk' /\ Saved'
    BY <1>1 DEF StoreInv, Counted, OnDisk, Saved
  <1>4. Chained' /\ HotAtHot(mem, hotAt)'
    BY <1>1 DEF StoreInv, Chained, Pending, OpTrue
  <1> QED BY <1>2, <1>3, <1>4 DEF StoreInv

\* A checkpoint is taken, step by step.
LEMMA CheckpointKeeps ==
  ASSUME StoreInv, Flush \/ SaveMsgIndex \/ PersistMeta \/ Rotate
  PROVE  StoreInv'
  <1>1. UNCHANGED <<mem, tips, index, hotAt, ring, posted, lives>>
    BY DEF Flush, SaveMsgIndex, PersistMeta, Rotate
  <1>2. Typed'
    BY <1>1 DEF StoreInv, Typed
  <1>3. OnDisk'
    <2>1. disk' = disk \/ disk' = mem
      BY DEF Flush, SaveMsgIndex, PersistMeta, Rotate
    <2>2. mem \in File
      BY DEF StoreInv, Chained, Stored, Shape
    <2> QED BY <1>1, <2>1, <2>2 DEF StoreInv, OnDisk
  <1>4. op.at \notin {"link", "insert"} /\ op' \in {Idle, [at |-> "index"], [at |-> "meta"], [at |-> "rotate"]}
    BY DEF Flush, SaveMsgIndex, PersistMeta, Rotate, Idle
  <1>5. op'.at \notin {"link", "insert"} /\ op' \in Ops
    BY <1>4 DEF Idle, Ops
  <1>6. \E S : wal' \in Seq(S)
    <2>1. CASE Flush
      BY <2>1, LogsFacts DEF Flush
    <2>2. CASE SaveMsgIndex \/ PersistMeta
      BY <2>2 DEF SaveMsgIndex, PersistMeta, StoreInv, Counted
    <2>3. CASE Rotate
      BY <2>3 DEF Rotate
    <2> QED BY <2>1, <2>2, <2>3
  <1>7. Counted'
    BY <1>1, <1>5, <1>6 DEF StoreInv, Counted
  <1>8. Chained' /\ HotAtHot(mem, hotAt)'
    <2>1. Pending = {} /\ Pending' = {}
      BY <1>4, <1>5 DEF Pending
    <2>2. PICK fr, ch : Stored(mem, fr, ch, Len(posted), tips, index, Pending)
      BY DEF StoreInv, Chained
    <2>3. Stored(mem', fr, ch, Len(posted'), tips', index', Pending')
      BY <1>1, <2>1, <2>2
    <2>4. OpTrue(ch)'
      BY <1>5 DEF OpTrue
    <2> QED BY <1>1, <2>3, <2>4 DEF StoreInv, Chained
  <1>9. Saved'
    <2>1. CASE Flush
      <3>1. op' = [at |-> "index"]
        BY <2>1 DEF Flush
      <3> QED BY <3>1 DEF Saved, Idle
    <2>2. CASE SaveMsgIndex
      <3>1. op' = [at |-> "meta"] /\ snap' = [cp |-> lsn, index |-> index] /\ lsn' = lsn
        BY <2>2 DEF SaveMsgIndex
      <3> QED BY <1>1, <3>1 DEF Saved, Idle
    <2>3. CASE PersistMeta
      <3>1. /\ op.at = "meta" /\ op' = [at |-> "rotate"] /\ meta' = [lsn |-> lsn, cp |-> lsn]
            /\ snap' = snap
        BY <2>3 DEF PersistMeta
      <3>2. snap = [cp |-> lsn, index |-> index]
        BY <3>1 DEF StoreInv, Saved
      <3> QED BY <1>1, <3>1, <3>2 DEF Saved, Idle
    <2>4. CASE Rotate
      <3>1. op.at = "rotate" /\ op' = Idle /\ snap' = snap /\ meta' = meta
        BY <2>4 DEF Rotate
      <3>2. snap.index = index /\ snap.cp = meta.cp
        BY <3>1 DEF StoreInv, Saved
      <3> QED BY <1>1, <3>1, <3>2 DEF Saved, Idle
    <2> QED BY <2>1, <2>2, <2>3, <2>4
  <1> QED BY <1>2, <1>3, <1>7, <1>8, <1>9 DEF StoreInv

\* u is the replay, record by record.
RecoverSteps(u) ==
    LET Redo(s, rec) == IF Covered(rec, s.cp) THEN s ELSE Apply(s, rec)
    IN  u = [n \in 0..Len(wal) |-> IF n = 0 THEN FromHeap ELSE Redo(u[n - 1], wal[n])]

\* With an empty WAL the store is what the file says.
LEMMA RecoveredNone ==
  ASSUME wal = <<>>
  PROVE  Recovered = FromHeap
  <1>1. PICK N : N = Len(wal)
    OBVIOUS
  <1>2. N = 0 /\ \A n \in 0..N : n = 0
    BY <1>1
  <1>3. \E u : RecoverSteps(u)
    <2> DEFINE h == [n \in 0..N |-> FromHeap]
    <2> DEFINE R(n) == IF Covered(wal[n], h[n - 1].cp) THEN h[n - 1] ELSE Apply(h[n - 1], wal[n])
    <2> HIDE DEF R
    <2>1. h = [n \in 0..N |-> IF n = 0 THEN FromHeap ELSE R(n)]
      BY <1>2
    <2> HIDE DEF h
    <2>2. RecoverSteps(h)
      BY <1>1, <2>1, Zenon DEF RecoverSteps, R
    <2> QED BY <2>2
  <1> DEFINE u == CHOOSE u : RecoverSteps(u)
  <1>4. RecoverSteps(u)
    BY <1>3
  <1>5. Recovered = u[N]
    BY <1>1, Zenon DEF Recovered, RecoverSteps
  <1> HIDE DEF u
  <1>6. u[0] = FromHeap
    <2> DEFINE R(n) == IF Covered(wal[n], u[n - 1].cp) THEN u[n - 1] ELSE Apply(u[n - 1], wal[n])
    <2> HIDE DEF R
    <2>1. u = [n \in 0..N |-> IF n = 0 THEN FromHeap ELSE R(n)]
      BY <1>1, <1>4, Zenon DEF RecoverSteps, R
    <2> QED BY <1>2, <2>1
  <1> QED BY <1>2, <1>5, <1>6

\* r is the memory of the store after it was closed and opened again.
Reopens(r, fr, ch, cg) ==
    /\ Stored(mem, fr, ch, Len(posted), tips, index, {})
    /\ IsMemory(r) /\ Stored(r.f, fr, cg, Len(posted), r.tips, index, {})
    /\ r.index = index /\ HotAtHot(r.f, r.hotAt) /\ Len(r.f.pg) = Len(mem.pg)
    /\ r.ring = [c \in Chats |-> Newest(Messages(r.f, r.tips[c].head))]

\* The store was closed and is opened again.
LEMMA RestartLeads ==
  ASSUME ~Kills, StoreInv, Restart
  PROVE  \E r, fr, ch, cg : Reopens(r, fr, ch, cg) /\ Replaced(r)
  <1>1. /\ op = Idle /\ wal = <<>> /\ disk = mem /\ lives < MaxLives /\ Becomes(Warmed(Recovered))
        /\ op' = Idle /\ lives' = lives + 1 /\ UNCHANGED <<wal, meta, snap, posted, hot>>
    BY DEF Restart
  <1>2. Pending = {} /\ Pending' = {} /\ Len(posted) \in Nat
    BY <1>1 DEF Pending, Idle, StoreInv, Counted
  <1>3. PICK fr, ch : Stored(disk, fr, ch, Len(posted), tips, index, {})
    BY <1>1, <1>2 DEF StoreInv, Chained
  <1>4. PICK m \in Nat : m = Len(posted)
    BY <1>2
  <1>5. PICK g : g = Relinked
    OBVIOUS
  <1>6. PICK tip, at : tip = [c \in Chats |-> TipFromHeap(c)] /\ at = [k \in Keys |-> HotFromHeap(k)]
    OBVIOUS
  <1>7. /\ Stored(g, fr, ByNumber, m, tip, index, {}) /\ HotAtHot(g, at) /\ Len(g.pg) = Len(disk.pg)
        /\ \A c \in Chats : IndexFromHeap(c) = index[c]
    <2>1. Stored(disk, fr, ch, m, tips, index, {})
      BY <1>3, <1>4
    <2>2. /\ Stored(Relinked, fr, ByNumber, m, [c \in Chats |-> TipFromHeap(c)], index, {})
          /\ \A c \in Chats : IndexFromHeap(c) = index[c]
          /\ HotAtHot(Relinked, [k \in Keys |-> HotFromHeap(k)])
          /\ Len(Relinked.pg) = Len(disk.pg)
      BY <2>1, Reopened
    <2> QED BY <1>5, <1>6, <2>2
  <1>8. FromHeap = [f |-> g, tips |-> tip, index |-> index, hotAt |-> at, ring |-> [c \in Chats |-> <<>>], cp |-> meta.cp]
    <2>1. snap.index = index
      BY <1>1 DEF StoreInv, Saved
    <2>2. index = [c \in Chats |-> IndexFromHeap(c)]
      BY <1>7 DEF StoreInv, Typed
    <2>3. (IF snap.cp = meta.cp /\ \E c \in Chats : snap.index[c] # {}
           THEN snap.index ELSE [c \in Chats |-> IndexFromHeap(c)]) = index
      BY <2>1, <2>2
    <2> QED BY <1>5, <1>6, <2>3, Zenon DEF FromHeap
  <1>9. PICK ring1 : ring1 = [c \in Chats |-> Newest(Messages(g, tip[c].head))]
    OBVIOUS
  <1>10. PICK r : r = [f |-> g, tips |-> tip, index |-> index, hotAt |-> at, ring |-> ring1, cp |-> meta.cp]
    OBVIOUS
  <1>11. Warmed(Recovered) = r
    <2>1. PICK z : z = FromHeap
      OBVIOUS
    <2>2. Recovered = z
      BY <1>1, <2>1, RecoveredNone
    <2>3. z.f = g /\ z.tips = tip /\ [z EXCEPT !.ring = ring1] = r
      BY <1>8, <1>10, <2>1
    <2>4. Warmed(z) = [z EXCEPT !.ring = ring1]
      BY <1>9, <2>3 DEF Warmed
    <2> QED BY <2>2, <2>3, <2>4
  <1>12. IsMemory(r) /\ r.f = g /\ r.tips = tip /\ r.index = index /\ r.hotAt = at
    BY <1>6, <1>9, <1>10 DEF IsMemory, StoreInv, Typed
  <1>13. g \in File /\ disk \in File
    BY <1>3, <1>7 DEF Stored, Shape
  <1>14. \A q \in DOMAIN mem.pg : q \in DOMAIN g.pg
    BY <1>1, <1>7, <1>13, FileFacts
  <1>15. Replaced(r)
    BY <1>1, <1>11, <1>12, <1>13, <1>14, BecomesFacts
  <1>16. PICK cg : cg = ByNumber
    OBVIOUS
  <1>17. r.ring = [c \in Chats |-> Newest(Messages(r.f, r.tips[c].head))]
    BY <1>9, <1>10
  <1>18. Reopens(r, fr, ch, cg)
    BY <1>1, <1>3, <1>4, <1>7, <1>12, <1>16, <1>17 DEF Reopens
  <1> QED BY <1>15, <1>18

\* That keeps the invariant.
LEMMA RestartKeeps ==
  ASSUME ~Kills, StoreInv, Restart
  PROVE  StoreInv'
  <1>1. /\ op = Idle /\ wal = <<>> /\ lives < MaxLives
        /\ op' = Idle /\ lives' = lives + 1 /\ UNCHANGED <<wal, meta, snap, posted, hot>>
    BY DEF Restart
  <1>2. Pending' = {}
    BY <1>1 DEF Pending, Idle
  <1>3. PICK r, fr, ch, cg : Reopens(r, fr, ch, cg) /\ Replaced(r)
    BY RestartLeads
  <1>4. /\ Stored(r.f, fr, cg, Len(posted), r.tips, r.index, {}) /\ r.index = index
        /\ HotAtHot(r.f, r.hotAt) /\ Len(r.f.pg) <= MaxPages
    BY <1>3 DEF Reopens, StoreInv, OnDisk
  <1>5. Counted' /\ Saved'
    <2>1. lives' \in Nat /\ lives' <= MaxLives
      BY <1>1, StoreAssumption DEF StoreInv, Counted
    <2>2. Counted'
      BY <1>1, <2>1 DEF StoreInv, Counted
    <2>3. index' = index
      BY <1>3, <1>4 DEF Replaced
    <2> QED BY <1>1, <2>2, <2>3 DEF StoreInv, Saved, Idle
  <1>6. OpTrue(cg)'
    BY <1>1 DEF OpTrue, Idle
  <1>7. Stored(r.f, fr, cg, Len(posted'), r.tips, r.index, Pending')
    BY <1>1, <1>2, <1>4
  <1> QED BY <1>3, <1>4, <1>5, <1>6, <1>7, ReplacedKeeps

\* The store starts with an empty file.
LEMMA StoreStarts ==
  ASSUME Init
  PROVE  StoreInv
  <1> DEFINE f == NewFile
  <1> DEFINE ch == [c \in Chats |-> <<>>]
  <1>1. Blank("hot") \in Page /\ Blank("hot").kind = "hot" /\ Blank("hot").next = 0 /\ Len(Blank("hot").items) = 0
        /\ Len(Blank("hot").items) <= Size("hot")
    BY BlankPage
  <1>2. PICK b \in Page : /\ b = Blank("hot") /\ b.kind = "hot" /\ b.next = 0 /\ Len(b.items) <= Size(b.kind)
                          /\ DOMAIN b.items = {}
    <2>1. Blank("hot").items = <<>> /\ DOMAIN <<>> = {}
      BY BlankPage
    <2> QED BY <1>1, <2>1
  <1>3. f = [pg |-> <<b>>, free |-> 0]
    BY <1>2 DEF NewFile
  <1> HIDE DEF f
  <1>4. /\ f \in File /\ DOMAIN f.pg = {1} /\ Len(f.pg) = 1 /\ f.free = 0 /\ f.pg[1] = b
    <2>1. /\ f.pg = <<b>> /\ f.free = 0 /\ f.pg \in Seq(Page) /\ Len(f.pg) = 1 /\ DOMAIN f.pg = 1..1 /\ f.pg[1] = b
          /\ f \in [pg : Seq(Page), free : Nat] /\ 1..1 = {1}
      BY <1>3, Singleton
    <2>2. \A p \in DOMAIN f.pg : f.pg[p].next <= Len(f.pg) /\ Len(f.pg[p].items) <= Size(f.pg[p].kind)
      BY <1>2, <2>1
    <2>3. f.free <= Len(f.pg)
      BY <2>1
    <2>4. f \in File
      BY <2>1, <2>2, <2>3 DEF File
    <2> QED BY <2>1, <2>4
  <1>5. Path(f, <<>>)
    BY DEF Path
  <1>6. Shape(f, <<>>, ch, 0)
    <2>1. FreeTrue(f, <<>>)
      BY <1>2, <1>4, <1>5 DEF FreeTrue, HeadOf, ToSet
    <2>2. \A c \in Chats : ChatPath(f, c, ch[c])
      BY <1>5 DEF ChatPath
    <2>3. HotTrue(f)
      BY <1>2, <1>4 DEF HotTrue, HotRoot
    <2>4. \A p \in DOMAIN f.pg : OwnPage(f.pg[p], 0)
      BY <1>2, <1>4 DEF OwnPage
    <2> QED BY <1>4, <2>1, <2>2, <2>3, <2>4 DEF Shape
  <1>7. /\ mem = f /\ disk = f /\ tips = [c \in Chats |-> NoTip] /\ index = [c \in Chats |-> {}]
        /\ hotAt = [k \in Keys |-> 0] /\ ring = [c \in Chats |-> <<>>] /\ wal = <<>>
        /\ meta = [lsn |-> 1, cp |-> 0] /\ snap = [cp |-> 0, index |-> [c \in Chats |-> {}]]
        /\ op = Idle /\ posted = <<>> /\ lives = 0
    BY DEF Init, f
  <1>8. Stored(f, <<>>, ch, 0, tips, index, {})
    <2>1. \A c \in Chats : TipOf(f, ch[c]) = NoTip /\ EntriesOf(f, ch[c]) = {} /\ Owns(f, c) = {}
      <3> TAKE c \in Chats
      <3>1. TipOf(f, <<>>) = NoTip
        <4>1. Len(Tuples(f, <<>>)) = 0
          BY TuplesNone
        <4> QED BY <4>1 DEF TipOf, NoTip, HeadOf, LastOf
      <3>2. EntriesOf(f, <<>>) = {}
        BY DEF EntriesOf, ToSet
      <3>3. Owns(f, c) = {}
        BY <1>2, <1>4 DEF Owns
      <3> QED BY <3>1, <3>2, <3>3
    <2>2. \A p \in DOMAIN f.pg : f.pg[p].kind # "chat"
      BY <1>2, <1>4
    <2> HIDE DEF ch
    <2> QED BY <1>6, <1>7, <2>1, <2>2 DEF Stored
  <1>9. Chained
    <2>1. Len(posted) = 0 /\ Pending = {}
      BY <1>7 DEF Pending, Idle
    <2>2. OpTrue(ch)
      BY <1>7 DEF OpTrue, Idle
    <2>3. Stored(mem, <<>>, ch, Len(posted), tips, index, Pending)
      BY <1>7, <1>8, <2>1
    <2> QED BY <2>2, <2>3 DEF Chained
  <1>10. Counted
    <2>1. Len(posted) = 0 /\ posted \in Seq(Chats) /\ wal \in Seq(Chats) /\ op.at = "idle" /\ op \in Ops
      BY <1>7 DEF Idle, Ops
    <2> QED BY <1>7, <2>1, StoreAssumption DEF Counted
  <1>11. OnDisk /\ Typed
    <2>1. 1 <= MaxPages
      BY StoreAssumption
    <2>2. OnDisk
      BY <1>4, <1>7, <2>1 DEF OnDisk
    <2>3. Typed
      BY <1>7 DEF Typed
    <2> QED BY <2>2, <2>3
  <1>12. HotAtHot(mem, hotAt) /\ Saved
    BY <1>7 DEF HotAtHot, Saved, Idle
  <1> QED BY <1>9, <1>10, <1>11, <1>12 DEF StoreInv

\* The invariant is inductive.
LEMMA StoreStep ==
  ASSUME ~Kills, StoreInv, [Next]_vars
  PROVE  StoreInv'
  <1>1. ASSUME NEW c \in Chats, NewPage(c) \/ AppendMessage(c)
        PROVE  StoreInv'
    BY <1>1, NewPageKeeps, AppendKeeps
  <1>2. ASSUME LinkIt
        PROVE  StoreInv'
    BY <1>2, LinkItKeeps
  <1>3. ASSUME NEW c \in Chats, NEW keep \in Keeps, ChatTrimKeepLast(c, keep)
        PROVE  StoreInv'
    BY <1>3, TrimKeeps
  <1>4. ASSUME NEW c \in Chats, NEW more \in BOOLEAN, ChatRecent(c, more)
        PROVE  StoreInv'
    BY <1>4, RecentKeeps
  <1>5. ASSUME NEW k \in Keys, NEW v \in Vals, HotSet(k, v)
        PROVE  StoreInv'
    BY <1>5, HotSetKeeps
  <1>6. ASSUME NEW k \in Deletable, HotDel(k)
        PROVE  StoreInv'
    BY <1>6, HotDelKeeps
  <1>7. ASSUME Evict
        PROVE  StoreInv'
    BY <1>7, EvictKeeps
  <1>8. ASSUME Flush \/ SaveMsgIndex \/ PersistMeta \/ Rotate
        PROVE  StoreInv'
    BY <1>8, CheckpointKeeps
  <1>9. ASSUME Restart
        PROVE  StoreInv'
    BY <1>9, RestartKeeps
  <1>10. ASSUME UNCHANGED vars
         PROVE  StoreInv'
    <2>1. UNCHANGED <<mem, disk, tips, index, hotAt, ring, wal, lsn, meta, snap, op, posted, hot, lives>>
      BY <1>10 DEF vars
    <2>2. Typed' /\ Counted' /\ OnDisk' /\ Saved'
      BY <2>1 DEF StoreInv, Typed, Counted, OnDisk, Saved
    <2>3. Chained' /\ HotAtHot(mem, hotAt)'
      BY <2>1 DEF StoreInv, Chained, Pending, OpTrue
    <2> QED BY <2>2, <2>3 DEF StoreInv
  <1> QED BY <1>1, <1>2, <1>3, <1>4, <1>5, <1>6, <1>7, <1>8, <1>9, <1>10 DEF Next

\* The invariant holds throughout, as long as the store is only ever closed.
THEOREM StoreHolds ==
  ASSUME ~Kills
  PROVE  Spec => []StoreInv
  <1>1. Init => StoreInv
    BY StoreStarts
  <1>2. StoreInv /\ [Next]_vars => StoreInv'
    BY StoreStep
  <1> QED BY <1>1, <1>2, PTL DEF Spec

\* The file and the memory hold what the code can put there.
THEOREM StoreTypes ==
  ASSUME ~Kills
  PROVE  Spec => []TypeOK
  <1>1. ASSUME StoreInv
        PROVE  TypeOK
    <2>1. PICK fr, ch : Stored(mem, fr, ch, Len(posted), tips, index, Pending)
      BY <1>1 DEF StoreInv, Chained
    <2>2. mem \in File /\ disk \in File /\ Len(disk.pg) = Len(mem.pg) /\ Len(mem.pg) <= MaxPages
      BY <1>1, <2>1 DEF StoreInv, OnDisk, Stored, Shape
    <2>3. ASSUME NEW f \in File
          PROVE  /\ f.free \in 0..Len(f.pg)
                 /\ \A p \in DOMAIN f.pg :
                       /\ f.pg[p].kind \in {"free", "chat", "hot"}
                       /\ f.pg[p].chat \in Chats \cup {NoChat}
                       /\ f.pg[p].next \in 0..Len(f.pg)
                       /\ Len(f.pg[p].items) <= IF f.pg[p].kind = "hot" THEN HotCap ELSE Cap
      <3>1. f.free \in 0..Len(f.pg) /\ Len(f.pg) \in Nat
        BY FileFacts
      <3>2. ASSUME NEW p \in DOMAIN f.pg
            PROVE  /\ f.pg[p].kind \in {"free", "chat", "hot"}
                   /\ f.pg[p].chat \in Chats \cup {NoChat}
                   /\ f.pg[p].next \in 0..Len(f.pg)
                   /\ Len(f.pg[p].items) <= Size(f.pg[p].kind)
        <4>1. /\ f.pg[p] \in Page /\ f.pg[p].next \in Nat /\ f.pg[p].next <= Len(f.pg)
              /\ Len(f.pg[p].items) <= Size(f.pg[p].kind)
          BY FileFacts
        <4>2. f.pg[p].kind \in {"free", "chat", "hot"} /\ f.pg[p].chat \in Chats \cup {NoChat}
          BY <4>1, PageFacts
        <4> QED BY <3>1, <4>1, <4>2
      <3> QED BY <3>1, <3>2 DEF Size
    <2>4. \A f \in {mem, disk} :
             /\ f.free \in 0..Len(f.pg)
             /\ \A p \in DOMAIN f.pg :
                   /\ f.pg[p].kind \in {"free", "chat", "hot"}
                   /\ f.pg[p].chat \in Chats \cup {NoChat}
                   /\ f.pg[p].next \in 0..Len(f.pg)
                   /\ Len(f.pg[p].items) <= IF f.pg[p].kind = "hot" THEN HotCap ELSE Cap
      BY <2>2, <2>3, Zenon
    <2>5. ASSUME NEW c \in Chats
          PROVE  tips[c].head \in 0..Len(mem.pg) /\ tips[c].tail \in 0..Len(mem.pg)
      <3>1. tips[c] = TipOf(mem, ch[c]) /\ ch[c] \in Seq(DOMAIN mem.pg)
        BY <2>1 DEF Stored, Shape, ChatPath, Path
      <3>2. DOMAIN mem.pg = 1..Len(mem.pg) /\ Len(mem.pg) \in Nat
        BY <2>2, FileFacts
      <3>3. HeadOf(ch[c]) \in {0} \cup DOMAIN mem.pg /\ LastOf(ch[c]) \in {0} \cup DOMAIN mem.pg
        <4>1. CASE ch[c] = <<>>
          BY <4>1 DEF HeadOf, LastOf
        <4>2. CASE ch[c] # <<>>
          <5>1. 1 \in DOMAIN ch[c] /\ Len(ch[c]) \in DOMAIN ch[c]
            BY <3>1, <4>2
          <5> QED BY <3>1, <4>2, <5>1 DEF HeadOf, LastOf
        <4> QED BY <4>1, <4>2
      <3>4. tips[c].head = HeadOf(ch[c]) /\ tips[c].tail = LastOf(ch[c])
        BY <3>1 DEF TipOf
      <3> QED BY <3>2, <3>3, <3>4
    <2>6. Len(posted) <= MaxPosted /\ lives <= MaxLives
      BY <1>1 DEF StoreInv, Counted
    <2> QED BY <2>2, <2>4, <2>5, <2>6, Zenon DEF TypeOK
  <1> QED BY <1>1, StoreHolds, PTL

\* A page is on the free list if and only if it is free (engine.ts, allocPage and freePage).
THEOREM FreeListHolds ==
  ASSUME ~Kills
  PROVE  Spec => []FreeListTrue
  <1>1. ASSUME StoreInv
        PROVE  FreeListTrue
    <2>1. PICK fr, ch : Shape(mem, fr, ch, Len(posted))
      BY <1>1 DEF StoreInv, Chained, Stored
    <2>2. mem \in File /\ Path(mem, fr) /\ mem.free = HeadOf(fr)
          /\ \A p \in DOMAIN mem.pg : mem.pg[p].kind = "free" <=> p \in ToSet(fr)
      BY <2>1 DEF Shape, FreeTrue
    <2>3. Chain(mem, mem.free) = fr
      BY <2>2, ChainOfPath
    <2>4. ToSet(fr) \subseteq DOMAIN mem.pg
      BY <2>2 DEF Path, ToSet
    <2> QED BY <2>2, <2>3, <2>4 DEF FreeListTrue
  <1> QED BY <1>1, StoreHolds, PTL

\* What the invariant says of a chat.
LEMMA ChatFacts ==
  ASSUME StoreInv, NEW c \in Chats
  PROVE  \E s : /\ Chain(mem, tips[c].head) = s /\ Contents(mem, tips[c].head) = Tuples(mem, s)
                /\ ChatOf(c) = Listed(mem, s) /\ Tuples(mem, s) \in Seq({c} \X (1..Len(posted)))
                /\ ChatPath(mem, c, s) /\ tips[c] = TipOf(mem, s) /\ index[c] = EntriesOf(mem, s)
  <1>1. PICK fr, ch : Stored(mem, fr, ch, Len(posted), tips, index, Pending)
    BY DEF StoreInv, Chained
  <1>2. PICK s : s = ch[c]
    OBVIOUS
  <1>3. Shape(mem, fr, ch, Len(posted)) /\ tips[c] = TipOf(mem, s) /\ index[c] = EntriesOf(mem, s)
    BY <1>1, <1>2 DEF Stored
  <1>4. /\ Chain(mem, HeadOf(s)) = s /\ Contents(mem, HeadOf(s)) = Tuples(mem, s)
        /\ Messages(mem, HeadOf(s)) = Listed(mem, s)
        /\ Tuples(mem, s) \in Seq({c} \X (1..Len(posted)))
    BY <1>2, <1>3, ReadChain
  <1>5. ChatPath(mem, c, s)
    BY <1>2, <1>3 DEF Shape
  <1>6. tips[c].head = HeadOf(s)
    BY <1>3 DEF TipOf
  <1> QED BY <1>3, <1>4, <1>5, <1>6 DEF ChatOf

\* A chat never shows the messages of another, and its pages are chat pages.
THEOREM ChatsHold ==
  ASSUME ~Kills
  PROVE  Spec => []ChatsApart
  <1>1. ASSUME StoreInv
        PROVE  ChatsApart
    <2>1. ASSUME NEW c \in Chats
          PROVE  /\ \A t \in ToSet(Contents(mem, tips[c].head)) : t[1] = c
                 /\ \A p \in ToSet(Chain(mem, tips[c].head)) : mem.pg[p].kind = "chat"
      <3>1. PICK s : /\ Chain(mem, tips[c].head) = s /\ Contents(mem, tips[c].head) = Tuples(mem, s)
                     /\ Tuples(mem, s) \in Seq({c} \X (1..Len(posted))) /\ ChatPath(mem, c, s)
        BY <1>1, ChatFacts
      <3>2. \A t \in ToSet(Tuples(mem, s)) : t[1] = c
        BY <3>1 DEF ToSet
      <3>3. \A p \in ToSet(s) : mem.pg[p].kind = "chat"
        BY <3>1 DEF ToSet, ChatPath
      <3> QED BY <3>1, <3>2, <3>3
    <2> QED BY <2>1 DEF ChatsApart
  <1> QED BY <1>1, StoreHolds, PTL

\* chatGet finds exactly the messages that reading the chat finds.
THEOREM IndexHolds ==
  ASSUME ~Kills
  PROVE  Spec => []IndexFinds
  <1>1. ASSUME StoreInv
        PROVE  IndexFinds
    <2>1. ASSUME NEW c \in Chats
          PROVE  index[c] = UNION {Entries(mem, p) : p \in ToSet(Chain(mem, tips[c].head))}
      <3>1. PICK s : Chain(mem, tips[c].head) = s /\ index[c] = EntriesOf(mem, s)
        BY <1>1, ChatFacts
      <3> QED BY <3>1 DEF EntriesOf
    <2> QED BY <2>1 DEF IndexFinds
  <1> QED BY <1>1, StoreHolds, PTL

\* The tail is the last page of the chain and the count the number of messages.
THEOREM TipsHold ==
  ASSUME ~Kills
  PROVE  Spec => []TipsTrue
  <1>1. ASSUME StoreInv
        PROVE  TipsTrue
    <2>1. ASSUME NEW c \in Chats, tips[c].head # 0
          PROVE  tips[c].tail = Last(Chain(mem, tips[c].head)) /\ tips[c].count = Len(ChatOf(c))
      <3>1. PICK s : /\ Chain(mem, tips[c].head) = s /\ ChatOf(c) = Listed(mem, s)
                     /\ Tuples(mem, s) \in Seq({c} \X (1..Len(posted))) /\ tips[c] = TipOf(mem, s)
        BY <1>1, ChatFacts
      <3>2. tips[c].head = HeadOf(s) /\ tips[c].tail = LastOf(s) /\ tips[c].count = Len(Tuples(mem, s))
        BY <3>1 DEF TipOf
      <3>3. s # <<>>
        BY <2>1, <3>2 DEF HeadOf
      <3>4. LastOf(s) = Last(s)
        BY <3>3 DEF LastOf, Last
      <3>5. Len(Listed(mem, s)) = Len(Tuples(mem, s))
        <4>1. PICK t \in Seq({c} \X (1..Len(posted))) : t = Tuples(mem, s)
          BY <3>1
        <4>2. Listed(mem, s) = [i \in DOMAIN t |-> t[i][2]]
          BY <4>1 DEF Listed
        <4>3. Len([i \in DOMAIN t |-> t[i][2]]) = Len(t)
          OBVIOUS
        <4> QED BY <4>1, <4>2, <4>3
      <3> QED BY <3>1, <3>2, <3>4, <3>5
    <2> QED BY <2>1 DEF TipsTrue
  <1> QED BY <1>1, StoreHolds, PTL

-----------------------------------------------------------------------------
(* The store implements the log it promises *)

\* The second parts of a list of pairs.
Seconds(all) == [i \in DOMAIN all |-> all[i][2]]

\* Appending and cutting go through.
SecondsTrue(c, S, all) ==
    /\ Seconds(all) \in Seq(S) /\ Len(Seconds(all)) = Len(all) /\ DOMAIN Seconds(all) = DOMAIN all
    /\ \A m \in S : Seconds(Append(all, <<c, m>>)) = Append(Seconds(all), m)
    /\ \A keep \in Nat : Seconds(KeepLast(all, keep)) = KeepLast(Seconds(all), keep)

LEMMA SecondsFacts ==
  ASSUME NEW c, NEW S, NEW all \in Seq({c} \X S)
  PROVE  SecondsTrue(c, S, all)
  <1> DEFINE b == Seconds(all)
  <1>1. PICK L \in Nat : L = Len(all) /\ DOMAIN all = 1..L
    OBVIOUS
  <1>2. b \in Seq(S) /\ Len(b) = L /\ DOMAIN b = 1..L /\ \A i \in 1..L : b[i] = all[i][2]
    BY <1>1 DEF Seconds
  <1> HIDE DEF b
  <1>3. ASSUME NEW m \in S
        PROVE  Seconds(Append(all, <<c, m>>)) = Append(b, m)
    <2> DEFINE a == Append(all, <<c, m>>)
    <2>1. a \in Seq({c} \X S) /\ Len(a) = L + 1 /\ DOMAIN a = 1..(L + 1)
          /\ a[L + 1] = <<c, m>> /\ \A i \in 1..L : a[i] = all[i]
      BY <1>1
    <2>2. Append(b, m) \in Seq(S) /\ Len(Append(b, m)) = L + 1
          /\ Append(b, m)[L + 1] = m /\ \A i \in 1..L : Append(b, m)[i] = b[i]
      BY <1>2
    <2> HIDE DEF a
    <2>3. Seconds(a) = [i \in 1..(L + 1) |-> a[i][2]]
      BY <2>1 DEF Seconds
    <2>4. \A i \in 1..(L + 1) : i \in 1..L \/ i = L + 1
      OBVIOUS
    <2>5. \A i \in 1..(L + 1) : a[i][2] = Append(b, m)[i]
      BY <1>2, <2>1, <2>2, <2>4
    <2>6. PICK z \in Seq(S) : z = Append(b, m) /\ Len(z) = L + 1
      BY <2>2
    <2>7. z = [i \in 1..(L + 1) |-> z[i]]
      <3>1. Len(z) = L + 1
        BY <2>6
      <3>2. z = [i \in 1..Len(z) |-> z[i]]
        OBVIOUS
      <3> QED BY <3>1, <3>2
    <2>8. Seconds(a) = Append(b, m)
      BY <2>3, <2>5, <2>6, <2>7
    <2> QED BY <2>8 DEF a
  <1>4. ASSUME NEW keep \in Nat
        PROVE  Seconds(KeepLast(all, keep)) = KeepLast(b, keep)
    <2> DEFINE d == IF L > keep THEN L - keep ELSE 0
    <2>1. d \in 0..L /\ KeepLast(all, keep) = Drop(all, d) /\ KeepLast(b, keep) = Drop(b, d)
      BY <1>1, <1>2 DEF KeepLast, Drop
    <2> HIDE DEF d
    <2>2. /\ Drop(all, d) \in Seq({c} \X S) /\ Len(Drop(all, d)) = L - d
          /\ \A i \in 1..(L - d) : Drop(all, d)[i] = all[d + i]
      BY <1>1, <2>1, DropLen, ZenonT(30)
    <2>3. /\ Drop(b, d) \in Seq(S) /\ Len(Drop(b, d)) = L - d
          /\ \A i \in 1..(L - d) : Drop(b, d)[i] = b[d + i]
      <3>1. b \in Seq(S) /\ Len(b) = L /\ d \in 0..Len(b)
        BY <1>2, <2>1
      <3>2. /\ Drop(b, d) \in Seq(S) /\ Len(Drop(b, d)) = Len(b) - d
            /\ \A i \in 1..(Len(b) - d) : Drop(b, d)[i] = b[d + i]
        BY <3>1, DropLen
      <3> QED BY <3>1, <3>2
    <2> DEFINE x == Drop(all, d)
    <2> DEFINE y == Drop(b, d)
    <2>4. /\ x \in Seq({c} \X S) /\ Len(x) = L - d /\ \A i \in 1..(L - d) : x[i] = all[d + i]
          /\ y \in Seq(S) /\ Len(y) = L - d /\ \A i \in 1..(L - d) : y[i] = b[d + i]
      BY <2>2, <2>3
    <2> HIDE DEF x, y
    <2>5. \A i \in 1..(L - d) : d + i \in 1..L
      BY <2>1
    <2>6. DOMAIN x = 1..(L - d) /\ y = [i \in 1..(L - d) |-> y[i]]
      BY <2>1, <2>4
    <2>7. Seconds(x) = y
      BY <1>2, <2>4, <2>5, <2>6, SMTT(30) DEF Seconds
    <2> QED BY <2>1, <2>7 DEF x, y
  <1> QED BY <1>1, <1>2, <1>3, <1>4, Zenon DEF b, SecondsTrue

\* What is read of a chat.
ReadsAs(f, head, s, c, n) ==
    /\ Messages(f, head) = Seconds(Tuples(f, s))
    /\ Tuples(f, s) \in Seq({c} \X (1..n))

LEMMA StoredReads ==
  ASSUME NEW f, NEW fr, NEW ch, NEW n, NEW tip, NEW idx, NEW X, Stored(f, fr, ch, n, tip, idx, X), NEW c \in Chats
  PROVE  ReadsAs(f, tip[c].head, ch[c], c, n)
  <1>1. Shape(f, fr, ch, n) /\ tip[c] = TipOf(f, ch[c])
    BY DEF Stored
  <1>2. tip[c].head = HeadOf(ch[c])
    BY <1>1 DEF TipOf
  <1>3. Messages(f, HeadOf(ch[c])) = Listed(f, ch[c]) /\ Tuples(f, ch[c]) \in Seq({c} \X (1..n))
    BY <1>1, ReadChain
  <1> QED BY <1>2, <1>3 DEF Listed, Seconds, ReadsAs

\* A chat whose pages are the same reads the same.
LEMMA SameReads ==
  ASSUME NEW f, NEW fr, NEW ch, NEW n, NEW tip, NEW idx, NEW X, Stored(f, fr, ch, n, tip, idx, X),
         NEW g, NEW gr, NEW cg, NEW m, NEW ntip, NEW nidx, NEW Y, Stored(g, gr, cg, m, ntip, nidx, Y),
         NEW c \in Chats, cg[c] = ch[c], SamePages(c, g, f)
  PROVE  Messages(g, ntip[c].head) = Messages(f, tip[c].head)
  <1>1. Shape(f, fr, ch, n)
    BY DEF Stored
  <1>2. Tuples(g, ch[c]) = Tuples(f, ch[c])
    BY <1>1, ChainSame
  <1>3. ReadsAs(f, tip[c].head, ch[c], c, n)
    BY StoredReads
  <1>4. ReadsAs(g, ntip[c].head, cg[c], c, m)
    BY StoredReads
  <1> QED BY <1>2, <1>3, <1>4 DEF ReadsAs

\* The other chats read as before.
OthersRead(c) == \A d \in Chats : d # c => ChatOf(d)' = ChatOf(d)

LEMMA OthersReadOn ==
  ASSUME NEW fr, NEW ch, NEW n, NEW X, Stored(mem, fr, ch, n, tips, index, X),
         NEW r, Replaced(r), NEW gr, NEW cg, NEW m, NEW Y, Stored(r.f, gr, cg, m, r.tips, r.index, Y),
         NEW c, \A d \in Chats : d # c => cg[d] = ch[d] /\ SamePages(d, r.f, mem)
  PROVE  OthersRead(c)
  <1> SUFFICES ASSUME NEW d \in Chats, d # c
               PROVE  ChatOf(d)' = ChatOf(d)
    BY DEF OthersRead
  <1>1. Messages(r.f, r.tips[d].head) = Messages(mem, tips[d].head)
    BY SameReads
  <1>2. ChatOf(d)' = Messages(mem', tips'[d].head) /\ ChatOf(d) = Messages(mem, tips[d].head)
    BY DEF ChatOf
  <1>3. mem' = r.f /\ tips' = r.tips
    BY DEF Replaced
  <1> QED BY <1>1, <1>2, <1>3

\* The message is read at the end of its chat.
LEMMA AppendReads ==
  ASSUME StoreInv, NEW c \in Chats, AppendMessage(c)
  PROVE  /\ ChatOf(c)' = Append(ChatOf(c), Len(posted) + 1) /\ OthersRead(c)
         /\ ring' = [ring EXCEPT ![c] = Newest(Append(@, Len(posted) + 1))]
  <1>1. PICK n \in Nat : n = Len(posted)
    BY DEF StoreInv, Counted
  <1>2. PICK r, fr, ch : /\ Stored(mem, fr, ch, n, tips, index, {})
                         /\ Inserted(r, Loaded, fr, ch, c, n + 1) /\ Replaced(r)
    BY <1>1, AppendLeads
  <1>3. /\ Stored(r.f, fr, ch, n + 1, r.tips, r.index, {}) /\ SameBut(c, r.f, mem)
        /\ r.ring = [ring EXCEPT ![c] = Newest(Append(@, n + 1))]
        /\ Tuples(r.f, ch[c]) = Append(Tuples(mem, ch[c]), <<c, n + 1>>)
    BY <1>2, LoadedFacts, SMTT(30) DEF Inserted
  <1>4. mem' = r.f /\ tips' = r.tips /\ ring' = r.ring
    BY <1>2 DEF Replaced
  <1>5. \A d \in Chats : d # c => SamePages(d, r.f, mem)
    BY <1>3 DEF SamePages, SameBut
  <1>6. OthersRead(c)
    BY <1>2, <1>3, <1>5, OthersReadOn
  <1>7. /\ ChatOf(c) = Seconds(Tuples(mem, ch[c])) /\ Tuples(mem, ch[c]) \in Seq({c} \X (1..n))
        /\ ChatOf(c)' = Seconds(Tuples(r.f, ch[c]))
    <2>1. ChatOf(c)' = Messages(mem', tips'[c].head) /\ ChatOf(c) = Messages(mem, tips[c].head)
      BY DEF ChatOf
    <2>2. ReadsAs(mem, tips[c].head, ch[c], c, n)
      BY <1>2, StoredReads
    <2>3. ReadsAs(r.f, r.tips[c].head, ch[c], c, n + 1)
      BY <1>3, StoredReads
    <2> QED BY <1>4, <2>1, <2>2, <2>3 DEF ReadsAs
  <1>8. Seconds(Append(Tuples(mem, ch[c]), <<c, n + 1>>)) = Append(Seconds(Tuples(mem, ch[c])), n + 1)
    <2>1. PICK all : all = Tuples(mem, ch[c])
      OBVIOUS
    <2>2. {c} \X (1..n) \subseteq {c} \X (1..(n + 1)) /\ n + 1 \in 1..(n + 1)
      OBVIOUS
    <2>3. all \in Seq({c} \X (1..(n + 1)))
      BY <1>7, <2>1, <2>2
    <2>4. SecondsTrue(c, 1..(n + 1), all)
      BY <2>3, SecondsFacts
    <2> QED BY <2>1, <2>2, <2>4 DEF SecondsTrue
  <1> QED BY <1>1, <1>3, <1>4, <1>6, <1>7, <1>8

\* The last messages are read after a trim.
LEMMA TrimReads ==
  ASSUME StoreInv, NEW c \in Chats, NEW keep \in Keeps, ChatTrimKeepLast(c, keep)
  PROVE  /\ ChatOf(c)' = KeepLast(ChatOf(c), keep) /\ OthersRead(c)
         /\ \A d \in Chats : d # c => ring'[d] = ring[d]
         /\ (ring'[c] = ring[c] /\ ChatOf(c)' = ChatOf(c)) \/ ring'[c] = Newest(ChatOf(c)')
  <1>1. PICK n \in Nat : n = Len(posted)
    BY DEF StoreInv, Counted
  <1>2. PICK r, fr, ch : /\ Stored(mem, fr, ch, n, tips, index, {})
                         /\ TrimKept(r, Loaded, ch, c, keep, n) /\ Replaced(r) /\ SameBut(c, r.f, mem)
    BY <1>1, TrimLeads
  <1>3. PICK gr, t :
           /\ Stored(r.f, gr, With(ch, c, t), n, r.tips, r.index, {})
           /\ \A d \in Chats : d # c => r.ring[d] = ring[d]
           /\ \/ t = ch[c] /\ r.f = mem /\ r.ring[c] = ring[c]
              \/ r.ring[c] = Newest(Listed(r.f, t))
           /\ Tuples(r.f, t) = KeepLast(Tuples(mem, ch[c]), keep)
    BY <1>2, LoadedFacts, Zenon DEF TrimKept
  <1>4. mem' = r.f /\ tips' = r.tips /\ ring' = r.ring
    BY <1>2 DEF Replaced
  <1>5. PICK cg : cg = With(ch, c, t)
    OBVIOUS
  <1>6. cg[c] = t /\ \A d \in Chats : d # c => cg[d] = ch[d] /\ SamePages(d, r.f, mem)
    BY <1>2, <1>5 DEF With, SamePages, SameBut
  <1>7. Stored(r.f, gr, cg, n, r.tips, r.index, {})
    BY <1>3, <1>5
  <1>8. OthersRead(c)
    BY <1>2, <1>6, <1>7, OthersReadOn
  <1>9. /\ ChatOf(c) = Seconds(Tuples(mem, ch[c])) /\ Tuples(mem, ch[c]) \in Seq({c} \X (1..n))
        /\ ChatOf(c)' = Seconds(Tuples(r.f, t))
    <2>1. ChatOf(c)' = Messages(mem', tips'[c].head) /\ ChatOf(c) = Messages(mem, tips[c].head)
      BY DEF ChatOf
    <2>2. ReadsAs(mem, tips[c].head, ch[c], c, n)
      BY <1>2, StoredReads
    <2>3. ReadsAs(r.f, r.tips[c].head, cg[c], c, n)
      BY <1>7, StoredReads
    <2> QED BY <1>4, <1>6, <2>1, <2>2, <2>3 DEF ReadsAs
  <1>10. keep \in Nat
    BY StoreAssumption
  <1>11. ChatOf(c)' = KeepLast(ChatOf(c), keep)
    <2>1. PICK all : all = Tuples(mem, ch[c])
      OBVIOUS
    <2>2. all \in Seq({c} \X (1..n))
      BY <1>9, <2>1
    <2>3. SecondsTrue(c, 1..n, all)
      BY <2>2, SecondsFacts
    <2> QED BY <1>3, <1>9, <1>10, <2>1, <2>3 DEF SecondsTrue
  <1>12. Listed(r.f, t) = ChatOf(c)'
    BY <1>9 DEF Listed, Seconds
  <1>13. (ring'[c] = ring[c] /\ ChatOf(c)' = ChatOf(c)) \/ ring'[c] = Newest(ChatOf(c)')
    <2>1. CASE t = ch[c] /\ r.f = mem /\ r.ring[c] = ring[c]
      BY <1>4, <1>9, <2>1
    <2>2. CASE r.ring[c] = Newest(Listed(r.f, t))
      BY <1>4, <1>12, <2>2
    <2> QED BY <1>3, <2>1, <2>2
  <1> QED BY <1>3, <1>4, <1>8, <1>11, <1>13

\* No chat reads differently.
ChatsSame == \A c \in Chats : ChatOf(c)' = ChatOf(c)

LEMMA ChatsSameOn ==
  ASSUME NEW fr, NEW ch, NEW n, NEW X, Stored(mem, fr, ch, n, tips, index, X),
         NEW r, Replaced(r), NEW gr, NEW cg, NEW m, NEW Y, Stored(r.f, gr, cg, m, r.tips, r.index, Y),
         \A d \in Chats : cg[d] = ch[d] /\ SamePages(d, r.f, mem)
  PROVE  ChatsSame
  <1> SUFFICES ASSUME NEW d \in Chats
               PROVE  ChatOf(d)' = ChatOf(d)
    BY DEF ChatsSame
  <1>1. Messages(r.f, r.tips[d].head) = Messages(mem, tips[d].head)
    BY SameReads
  <1>2. ChatOf(d)' = Messages(mem', tips'[d].head) /\ ChatOf(d) = Messages(mem, tips[d].head)
    BY DEF ChatOf
  <1>3. mem' = r.f /\ tips' = r.tips
    BY DEF Replaced
  <1> QED BY <1>1, <1>2, <1>3

\* A page that is taken shows nothing before it is linked.
LEMMA NewPageReads ==
  ASSUME StoreInv, NEW c \in Chats, NewPage(c)
  PROVE  ChatsSame
  <1>1. op = Idle /\ mem' = AllocFor(mem, c) /\ UNCHANGED <<tips, index>>
    BY DEF NewPage
  <1>2. Pending = {}
    BY <1>1 DEF Pending, Idle
  <1>3. PICK n \in Nat : n = Len(posted)
    BY DEF StoreInv, Counted
  <1>4. PICK fr, ch : Stored(mem, fr, ch, n, tips, index, {})
    BY <1>2, <1>3 DEF StoreInv, Chained
  <1>5. PICK p, g : p = Allocated(mem) /\ g = AllocFor(mem, c)
    OBVIOUS
  <1>6. Stored(g, Popped(fr), ch, n, tips, index, {p}) /\ SameBut(c, g, mem)
    <2>1. tips = [d \in Chats |-> tips[d]] /\ index = [d \in Chats |-> index[d]]
      BY DEF StoreInv, Typed
    <2> QED BY <1>3, <1>4, <1>5, <2>1, NewPageStored
  <1>7. Shape(mem, fr, ch, n)
    BY <1>4 DEF Stored
  <1>8. \A q \in DOMAIN mem.pg : mem.pg[q].kind = "chat" => g.pg[q] = mem.pg[q]
    BY <1>3, <1>5, <1>7, ChatAlloc
  <1>9. ASSUME NEW d \in Chats
        PROVE  ChatOf(d)' = ChatOf(d)
    <2>1. SamePages(d, g, mem)
      BY <1>8 DEF SamePages
    <2>2. Messages(g, tips[d].head) = Messages(mem, tips[d].head)
      BY <1>4, <1>6, <2>1, SameReads
    <2>3. ChatOf(d)' = Messages(mem', tips'[d].head) /\ ChatOf(d) = Messages(mem, tips[d].head)
      BY DEF ChatOf
    <2> QED BY <1>1, <1>5, <2>2, <2>3
  <1> QED BY <1>9 DEF ChatsSame

\* Nor when it is: there is nothing on it yet.
LEMMA LinkItReads ==
  ASSUME StoreInv, LinkIt
  PROVE  ChatsSame /\ ring' = ring
  <1>1. PICK c, p, n : c = op.c /\ p = op.page /\ n = Len(posted)
    OBVIOUS
  <1>2. PICK r, fr, ch : /\ Stored(mem, fr, ch, n, tips, index, {p})
                         /\ Joined(r, Loaded, fr, ch, c, p, n) /\ Replaced(r) /\ c \in Chats
    BY <1>1, LinkItLeads
  <1>3. PICK cg : cg = With(ch, c, Append(ch[c], p))
    OBVIOUS
  <1>4. /\ Stored(r.f, fr, cg, n, r.tips, r.index, {}) /\ SameBut(c, r.f, mem) /\ r.ring = ring
        /\ Tuples(r.f, Append(ch[c], p)) = Tuples(mem, ch[c])
    BY <1>2, <1>3, LoadedFacts DEF Joined
  <1>5. cg[c] = Append(ch[c], p) /\ \A d \in Chats : d # c => cg[d] = ch[d] /\ SamePages(d, r.f, mem)
    BY <1>2, <1>3, <1>4 DEF With, SamePages, SameBut
  <1>6. OthersRead(c)
    <2>1. Stored(mem, fr, ch, n, tips, index, {p})
      BY <1>2
    <2>2. Stored(r.f, fr, cg, n, r.tips, r.index, {})
      BY <1>4
    <2>3. \A d \in Chats : d # c => cg[d] = ch[d] /\ SamePages(d, r.f, mem)
      BY <1>5
    <2>4. Replaced(r)
      BY <1>2
    <2> QED BY <2>1, <2>2, <2>3, <2>4, OthersReadOn
  <1>7. mem' = r.f /\ tips' = r.tips /\ ring' = r.ring
    BY <1>2 DEF Replaced
  <1>8. ChatOf(c)' = ChatOf(c)
    <2>1. ChatOf(c)' = Messages(mem', tips'[c].head) /\ ChatOf(c) = Messages(mem, tips[c].head)
      BY DEF ChatOf
    <2>2. ReadsAs(mem, tips[c].head, ch[c], c, n)
      BY <1>2, StoredReads
    <2>3. ReadsAs(r.f, r.tips[c].head, cg[c], c, n)
      BY <1>2, <1>4, StoredReads
    <2> QED BY <1>4, <1>5, <1>7, <2>1, <2>2, <2>3 DEF ReadsAs
  <1> QED BY <1>4, <1>6, <1>7, <1>8 DEF ChatsSame, OthersRead

\* A change to the hot pages changes no chat.
LEMMA RehotReads ==
  ASSUME StoreInv, NEW fr, NEW ch, NEW n, Stored(mem, fr, ch, n, tips, index, {}),
         NEW r, Rehot(r, Loaded, ch, n), Replaced(r)
  PROVE  ChatsSame /\ ring' = ring
  <1>1. SameButHot(r.f, mem) /\ r.ring = ring
    BY LoadedFacts DEF Rehot
  <1>2. PICK gr : Stored(r.f, gr, ch, n, r.tips, r.index, {})
    BY DEF Rehot
  <1>3. \A d \in Chats : SamePages(d, r.f, mem)
    BY <1>1 DEF SameButHot, SamePages
  <1>4. ChatsSame
    BY <1>2, <1>3, ChatsSameOn
  <1> QED BY <1>1, <1>4 DEF Replaced

LEMMA HotReadsOn ==
  ASSUME StoreInv, (\E k \in Keys, v \in Vals : HotSet(k, v)) \/ (\E k \in Deletable : HotDel(k))
  PROVE  ChatsSame /\ ring' = ring
  <1>1. ASSUME NEW k \in Keys, NEW v \in Vals, HotSet(k, v)
        PROVE  ChatsSame /\ ring' = ring
    <2>1. PICK r, fr, ch : /\ Stored(mem, fr, ch, Len(posted), tips, index, {})
                           /\ Rehot(r, Loaded, ch, Len(posted)) /\ Replaced(r)
      BY <1>1, HotSetLeads
    <2> QED BY <2>1, RehotReads
  <1>2. ASSUME NEW k \in Deletable, HotDel(k)
        PROVE  ChatsSame /\ ring' = ring
    <2>1. PICK r, fr, ch : /\ Stored(mem, fr, ch, Len(posted), tips, index, {})
                           /\ Rehot(r, Loaded, ch, Len(posted)) /\ Replaced(r)
      BY <1>2, HotDelLeads
    <2> QED BY <2>1, RehotReads
  <1> QED BY <1>1, <1>2

\* Nothing is read differently where the file and the tips stay.
LEMMA StillReads ==
  ASSUME UNCHANGED <<mem, tips>>
  PROVE  ChatsSame
  BY DEF ChatsSame, ChatOf

\* A page has an entry for each of its tuples.
LEMMA EntriesOfPage ==
  ASSUME NEW f, NEW p, NEW L \in Nat, DOMAIN f.pg[p].items = 1..L
  PROVE  IsFiniteSet(Entries(f, p)) /\ Cardinality(Entries(f, p)) = L
  <1> DEFINE E == Entries(f, p)
  <1> DEFINE h == [i \in 1..L |-> <<f.pg[p].items[i][2], p, i>>]
  <1>1. E = {<<f.pg[p].items[i][2], p, i>> : i \in 1..L}
    BY DEF Entries
  <1>2. h \in Bijection(1..L, E)
    <2>1. h \in [1..L -> E]
      BY <1>1
    <2>2. \A i, j \in 1..L : h[i] = h[j] => i = j
      OBVIOUS
    <2>3. \A e \in E : \E i \in 1..L : h[i] = e
      BY <1>1
    <2> HIDE DEF h, E
    <2>4. h \in Injection(1..L, E) /\ h \in Surjection(1..L, E)
      BY <2>1, <2>2, <2>3 DEF Injection, Surjection, IsInjective
    <2> QED BY <2>4 DEF Bijection
  <1>3. ExistsBijection(1..L, E)
    BY <1>2 DEF ExistsBijection
  <1> HIDE DEF E, h
  <1>4. IsFiniteSet(E) /\ Cardinality(E) = L
    BY <1>3, FS_NatBijection, FS_CountingElements
  <1> QED BY <1>4 DEF E

\* A chain has an entry for each of its tuples.
LEMMA EntriesCount ==
  ASSUME NEW f \in File, NEW s \in Seq(DOMAIN f.pg), \A i, j \in DOMAIN s : s[i] = s[j] => i = j
  PROVE  Cardinality(EntriesOf(f, s)) = Len(Tuples(f, s))
  <1>1. PICK u : TuplesUpTo(f, s, u)
    BY TuplesSeq
  <1> DEFINE N == Len(s)
  <1> DEFINE On(n) == UNION {Entries(f, s[i]) : i \in 1..n}
  <1> DEFINE T == {n \in 0..N : IsFiniteSet(On(n)) /\ Cardinality(On(n)) = Len(u[n])}
  <1>2. N \in Nat /\ DOMAIN s = 1..N /\ T \in SUBSET Nat
    OBVIOUS
  <1>3. 0 \in T
    <2>1. Len(u[0]) = 0 /\ On(0) = {}
      BY <1>1 DEF TuplesUpTo
    <2>2. 0 \in 0..N
      BY <1>2
    <2>3. IsFiniteSet(On(0)) /\ Cardinality(On(0)) = 0
      BY <2>1, FS_EmptySet
    <2> HIDE DEF On, N
    <2> QED BY <2>1, <2>2, <2>3
  <1>4. ASSUME NEW n \in 0..(N - 1), n \in T
        PROVE  n + 1 \in T
    <2> DEFINE v == u[n]
    <2> DEFINE w == f.pg[s[n + 1]].items
    <2>1. n + 1 \in 1..N /\ (n + 1) - 1 = n /\ n \in 0..N /\ n + 1 \in 0..N
      BY <1>2, SMTT(30)
    <2>2. u[n + 1] = v \o w /\ v \in Seq(Tuple) /\ w \in Seq(Tuple)
      <3>1. u[n + 1] = u[(n + 1) - 1] \o f.pg[s[n + 1]].items
        BY <1>1, <2>1, Zenon DEF TuplesUpTo
      <3>2. v \in Seq(Tuple)
        BY <1>1, <2>1 DEF TuplesUpTo
      <3>3. w \in Seq(Tuple)
        BY <1>2, <2>1, FileFacts, PageFacts, SMTT(30)
      <3> QED BY <2>1, <3>1, <3>2, <3>3
    <2> DEFINE E == Entries(f, s[n + 1])
    <2>3. PICK L \in Nat : L = Len(w) /\ DOMAIN w = 1..L
      BY <2>2
    <2>4. IsFiniteSet(E) /\ Cardinality(E) = L
      BY <2>3, EntriesOfPage
    <2>5. On(n + 1) = On(n) \cup E
      <3>1. \A i \in 1..(n + 1) : i = n + 1 \/ i \in 1..n
        BY <2>1
      <3>2. n + 1 \in 1..(n + 1) /\ \A i \in 1..n : i \in 1..(n + 1)
        BY <2>1
      <3> QED BY <3>1, <3>2
    <2>6. On(n) \cap E = {}
      <3>1. \A i \in 1..n : s[i] # s[n + 1]
        BY <1>2, <2>1
      <3>2. \A p : \A e \in Entries(f, p) : e[2] = p
        BY DEF Entries
      <3> QED BY <3>1, <3>2
    <2>7. IsFiniteSet(On(n)) /\ Cardinality(On(n)) = Len(v)
      BY <1>4
    <2> HIDE DEF On, E, v, w
    <2>8. IsFiniteSet(On(n + 1)) /\ Cardinality(On(n + 1)) = Len(v) + L - 0
      <3>1. /\ IsFiniteSet(On(n) \cup E)
            /\ Cardinality(On(n) \cup E) = Cardinality(On(n)) + Cardinality(E) - Cardinality(On(n) \cap E)
        BY <2>4, <2>7, FS_Union
      <3> QED BY <2>4, <2>5, <2>6, <2>7, <3>1, FS_EmptySet
    <2>9. Len(u[n + 1]) = Len(v) + L /\ Len(v) \in Nat
      BY <2>2, <2>3
    <2> QED BY <2>1, <2>8, <2>9
  <1>5. N \in T
    <2> HIDE DEF T, N
    <2> QED BY <1>2, <1>3, <1>4, Climb
  <1>6. On(N) = EntriesOf(f, s)
    BY <1>2 DEF ToSet, EntriesOf
  <1> HIDE DEF On
  <1> QED BY <1>1, <1>5, <1>6 DEF TuplesUpTo

\* The entries are of the messages of the chain.
LEMMA EntriesNames ==
  ASSUME NEW f \in File, NEW s \in Seq(DOMAIN f.pg)
  PROVE  ToSet(Seconds(Tuples(f, s))) = {e[1] : e \in EntriesOf(f, s)}
  <1> DEFINE all == Tuples(f, s)
  <1>1. ToSet(all) = UNION {ToSet(f.pg[p].items) : p \in ToSet(s)}
    BY TuplesSet
  <1>2. ToSet(Seconds(all)) = {x[2] : x \in ToSet(all)}
    <2> HIDE DEF all
    <2> QED BY DEF ToSet, Seconds
  <1>3. \A p : {e[1] : e \in Entries(f, p)} = {x[2] : x \in ToSet(f.pg[p].items)}
    <2> TAKE p
    <2>1. \A e \in Entries(f, p) : \E i \in DOMAIN f.pg[p].items : e[1] = f.pg[p].items[i][2]
      BY DEF Entries
    <2>2. ASSUME NEW i \in DOMAIN f.pg[p].items
          PROVE  \E e \in Entries(f, p) : e[1] = f.pg[p].items[i][2]
      <3>1. <<f.pg[p].items[i][2], p, i>> \in Entries(f, p)
        BY DEF Entries
      <3>2. <<f.pg[p].items[i][2], p, i>>[1] = f.pg[p].items[i][2]
        OBVIOUS
      <3> QED BY <3>1, <3>2
    <2>3. {x[2] : x \in ToSet(f.pg[p].items)} = {f.pg[p].items[i][2] : i \in DOMAIN f.pg[p].items}
      BY DEF ToSet
    <2> DEFINE it == f.pg[p].items
    <2> DEFINE en == Entries(f, p)
    <2>4. /\ \A e \in en : \E i \in DOMAIN it : e[1] = it[i][2]
          /\ \A i \in DOMAIN it : \E e \in en : e[1] = it[i][2]
      BY <2>1, <2>2
    <2>5. {x[2] : x \in ToSet(it)} = {it[i][2] : i \in DOMAIN it}
      BY <2>3
    <2> HIDE DEF it, en
    <2>6. {e[1] : e \in en} = {it[i][2] : i \in DOMAIN it}
      BY <2>4
    <2>7. {e[1] : e \in en} = {x[2] : x \in ToSet(it)}
      BY <2>5, <2>6
    <2> QED BY <2>7 DEF it, en
  <1> HIDE DEF all
  <1>4. {e[1] : e \in EntriesOf(f, s)} = UNION {{e[1] : e \in Entries(f, p)} : p \in ToSet(s)}
    BY DEF EntriesOf
  <1>5. {x[2] : x \in ToSet(all)} = UNION {{x[2] : x \in ToSet(f.pg[p].items)} : p \in ToSet(s)}
    BY <1>1
  <1> QED BY <1>2, <1>3, <1>4, <1>5, ZenonT(30) DEF all

\* After a restart every chat has its messages, and the ring the last of them.
LEMMA RestartReads ==
  ASSUME ~Kills, StoreInv, Restart, NEW c \in Chats
  PROVE  /\ Len(ChatOf(c)') = Len(ChatOf(c)) /\ ToSet(ChatOf(c)') = ToSet(ChatOf(c))
         /\ ring'[c] = Newest(ChatOf(c)') /\ ChatOf(c)' \in Seq(1..Len(posted))
  <1>1. PICK n : n = Len(posted)
    OBVIOUS
  <1>2. PICK r, fr, ch, cg : Reopens(r, fr, ch, cg) /\ Replaced(r)
    BY RestartLeads
  <1>3. Stored(mem, fr, ch, n, tips, index, {})
    BY <1>1, <1>2 DEF Reopens
  <1>4. Stored(r.f, fr, cg, n, r.tips, index, {})
    BY <1>1, <1>2 DEF Reopens
  <1>5. PICK s, t : s = ch[c] /\ t = cg[c]
    OBVIOUS
  <1>6. /\ mem \in File /\ Path(mem, s) /\ index[c] = EntriesOf(mem, s)
        /\ r.f \in File /\ Path(r.f, t) /\ index[c] = EntriesOf(r.f, t)
    BY <1>3, <1>4, <1>5 DEF Stored, Shape, ChatPath
  <1>7. s \in Seq(DOMAIN mem.pg) /\ t \in Seq(DOMAIN r.f.pg)
        /\ (\A i, j \in DOMAIN s : s[i] = s[j] => i = j) /\ (\A i, j \in DOMAIN t : t[i] = t[j] => i = j)
    BY <1>6 DEF Path
  <1>8. Len(Tuples(mem, s)) = Len(Tuples(r.f, t))
    <2>1. Cardinality(EntriesOf(mem, s)) = Len(Tuples(mem, s))
      BY <1>6, <1>7, EntriesCount
    <2>2. Cardinality(EntriesOf(r.f, t)) = Len(Tuples(r.f, t))
      BY <1>6, <1>7, EntriesCount
    <2> QED BY <1>6, <2>1, <2>2
  <1>9. ToSet(Seconds(Tuples(mem, s))) = ToSet(Seconds(Tuples(r.f, t)))
    <2>1. ToSet(Seconds(Tuples(mem, s))) = {e[1] : e \in EntriesOf(mem, s)}
      BY <1>6, <1>7, EntriesNames, Zenon
    <2>2. ToSet(Seconds(Tuples(r.f, t))) = {e[1] : e \in EntriesOf(r.f, t)}
      BY <1>6, <1>7, EntriesNames, Zenon
    <2> QED BY <1>6, <2>1, <2>2
  <1>10. ReadsAs(mem, tips[c].head, s, c, n)
    BY <1>3, <1>5, StoredReads
  <1>11. ReadsAs(r.f, r.tips[c].head, t, c, n)
    BY <1>4, <1>5, StoredReads
  <1>12. ChatOf(c) = Messages(mem, tips[c].head) /\ ChatOf(c)' = Messages(r.f, r.tips[c].head)
    <2>1. ChatOf(c)' = Messages(mem', tips'[c].head) /\ ChatOf(c) = Messages(mem, tips[c].head)
      BY DEF ChatOf
    <2> QED BY <1>2, <2>1 DEF Replaced
  <1>13. ChatOf(c) = Seconds(Tuples(mem, s)) /\ ChatOf(c)' = Seconds(Tuples(r.f, t))
    BY <1>10, <1>11, <1>12 DEF ReadsAs
  <1>14. /\ Len(Seconds(Tuples(mem, s))) = Len(Tuples(mem, s))
         /\ Len(Seconds(Tuples(r.f, t))) = Len(Tuples(r.f, t))
         /\ Seconds(Tuples(r.f, t)) \in Seq(1..n)
    <2>1. PICK x, y : x = Tuples(mem, s) /\ y = Tuples(r.f, t)
      OBVIOUS
    <2>2. x \in Seq({c} \X (1..n)) /\ y \in Seq({c} \X (1..n))
      BY <1>10, <1>11, <2>1 DEF ReadsAs
    <2>3. SecondsTrue(c, 1..n, x)
      BY <2>2, SecondsFacts
    <2>4. SecondsTrue(c, 1..n, y)
      BY <2>2, SecondsFacts
    <2> QED BY <2>1, <2>3, <2>4 DEF SecondsTrue
  <1>15. ring'[c] = Newest(ChatOf(c)')
    <2>1. ring' = r.ring /\ r.ring = [d \in Chats |-> Newest(Messages(r.f, r.tips[d].head))]
      BY <1>2 DEF Replaced, Reopens
    <2>2. ring'[c] = Newest(Messages(r.f, r.tips[c].head))
      BY <2>1
    <2> QED BY <1>12, <2>2
  <1> QED BY <1>1, <1>8, <1>9, <1>13, <1>14, <1>15

\* What is read of a chat is a list of messages that were posted.
LEMMA ChatTyped ==
  ASSUME StoreInv, NEW c \in Chats
  PROVE  ChatOf(c) \in Seq(1..Len(posted))
  <1>1. PICK n : n = Len(posted)
    OBVIOUS
  <1>2. PICK fr, ch, X : Stored(mem, fr, ch, n, tips, index, X)
    BY <1>1 DEF StoreInv, Chained
  <1>3. ReadsAs(mem, tips[c].head, ch[c], c, n)
    BY <1>2, StoredReads
  <1>4. PICK all : all = Tuples(mem, ch[c])
    OBVIOUS
  <1>5. all \in Seq({c} \X (1..n)) /\ Messages(mem, tips[c].head) = Seconds(all)
    BY <1>3, <1>4 DEF ReadsAs
  <1>6. SecondsTrue(c, 1..n, all)
    BY <1>5, SecondsFacts
  <1> QED BY <1>1, <1>5, <1>6 DEF ChatOf, SecondsTrue

\* The steps that change no chat.
ReadsOn == ChatsSame /\ UNCHANGED <<posted, lives>>

LEMMA ReadsOnSteps ==
  ASSUME StoreInv,
         \/ \E c \in Chats : NewPage(c)
         \/ LinkIt
         \/ \E c \in Chats, more \in BOOLEAN : ChatRecent(c, more)
         \/ \E k \in Keys, v \in Vals : HotSet(k, v)
         \/ \E k \in Deletable : HotDel(k)
         \/ Evict
         \/ Flush \/ SaveMsgIndex \/ PersistMeta \/ Rotate
         \/ UNCHANGED vars
  PROVE  ReadsOn
  <1>1. ASSUME NEW c \in Chats, NewPage(c)
        PROVE  ReadsOn
    BY <1>1, NewPageReads DEF NewPage, ReadsOn
  <1>2. ASSUME LinkIt
        PROVE  ReadsOn
    BY <1>2, LinkItReads DEF LinkIt, ReadsOn
  <1>3. ASSUME (\E k \in Keys, v \in Vals : HotSet(k, v)) \/ (\E k \in Deletable : HotDel(k))
        PROVE  ReadsOn
    <2>1. ChatsSame
      BY <1>3, HotReadsOn
    <2>2. UNCHANGED <<posted, lives>>
      BY <1>3 DEF HotSet, HotDel
    <2> QED BY <2>1, <2>2 DEF ReadsOn
  <1>4. ASSUME NEW c \in Chats, NEW more \in BOOLEAN, ChatRecent(c, more)
        PROVE  ReadsOn
    BY <1>4, StillReads DEF ChatRecent, ReadsOn
  <1>5. ASSUME Evict \/ Flush \/ SaveMsgIndex \/ PersistMeta \/ Rotate \/ UNCHANGED vars
        PROVE  ReadsOn
    BY <1>5, StillReads DEF Evict, Flush, SaveMsgIndex, PersistMeta, Rotate, vars, ReadsOn
  <1> QED BY <1>1, <1>2, <1>3, <1>4, <1>5

\* Every step of the store is a step of the log, or changes nothing of it.
LEMMA LogStep ==
  ASSUME ~Kills, Shuffles, StoreInv, [Next]_vars
  PROVE  [Log!Next]_<<[c \in Chats |-> ChatOf(c)], Len(posted), lives>>
  <1> DEFINE logs == [c \in Chats |-> ChatOf(c)]
  <1> DEFINE Step == [Log!Next]_<<logs, Len(posted), lives>>
  <1>1. ASSUME ReadsOn
        PROVE  Step
    <2>1. logs' = logs
      BY <1>1 DEF ReadsOn, ChatsSame
    <2>2. posted' = posted /\ lives' = lives
      BY <1>1 DEF ReadsOn
    <2> QED BY <2>1, <2>2
  <1>2. ASSUME NEW c \in Chats, AppendMessage(c)
        PROVE  Step
    <2>1. ChatOf(c)' = Append(ChatOf(c), Len(posted) + 1) /\ OthersRead(c)
      BY <1>2, AppendReads
    <2>2. Len(posted') = Len(posted) + 1 /\ lives' = lives
      BY <1>2 DEF AppendMessage, Insert, StoreInv, Counted
    <2>3. logs' = [logs EXCEPT ![c] = Append(@, Len(posted'))]
      BY <2>1, <2>2 DEF OthersRead
    <2>4. Log!AppendTo(c)
      BY <2>2, <2>3 DEF Log!AppendTo
    <2> QED BY <2>4 DEF Log!Next
  <1>3. ASSUME NEW c \in Chats, NEW keep \in Keeps, ChatTrimKeepLast(c, keep)
        PROVE  Step
    <2>1. ChatOf(c)' = KeepLast(ChatOf(c), keep) /\ OthersRead(c)
      BY <1>3, TrimReads
    <2>2. posted' = posted /\ lives' = lives
      BY <1>3 DEF ChatTrimKeepLast
    <2>3. PICK all \in Seq(1..Len(posted)) : all = ChatOf(c)
      BY ChatTyped
    <2>4. keep \in Nat /\ Len(all) \in Nat
      BY <2>3, StoreAssumption
    <2>5. CASE Len(all) > keep
      <3>1. ChatOf(c)' = SubSeq(all, Len(all) - keep + 1, Len(all))
        BY <2>1, <2>3, <2>5 DEF KeepLast
      <3>2. logs' = [logs EXCEPT ![c] = SubSeq(@, Len(@) - keep + 1, Len(@))]
        BY <2>1, <2>3, <3>1 DEF OthersRead
      <3>3. Len(logs[c]) > keep
        BY <2>3, <2>5
      <3>4. Log!Trim(c, keep)
        BY <2>2, <3>2, <3>3 DEF Log!Trim
      <3> QED BY <3>4 DEF Log!Next
    <2>6. CASE ~(Len(all) > keep)
      <3>1. ChatOf(c)' = ChatOf(c)
        BY <2>1, <2>3, <2>4, <2>6, KeepLastFacts
      <3>2. logs' = logs
        BY <2>1, <3>1 DEF OthersRead
      <3> QED BY <2>2, <3>2
    <2> QED BY <2>5, <2>6
  <1>4. ASSUME Restart
        PROVE  Step
    <2>1. \A c \in Chats : Len(ChatOf(c)') = Len(ChatOf(c)) /\ ToSet(ChatOf(c)') = ToSet(ChatOf(c))
      BY <1>4, RestartReads
    <2>2. \A c \in Chats : Log!SameMessages(logs'[c], logs[c])
      <3> TAKE c \in Chats
      <3>1. logs'[c] = ChatOf(c)' /\ logs[c] = ChatOf(c)
        OBVIOUS
      <3>2. Log!SameMessages(ChatOf(c)', ChatOf(c))
        BY <2>1, Zenon DEF Log!SameMessages, Log!ToSet, ToSet
      <3> QED BY <3>1, <3>2
    <2>3. lives' = lives + 1 /\ posted' = posted
      BY <1>4 DEF Restart
    <2>4. Log!Restart
      BY <2>2, <2>3 DEF Log!Restart
    <2> QED BY <2>4 DEF Log!Next
  <1> HIDE DEF Step
  <1>5. ASSUME \/ \E c \in Chats : NewPage(c)
               \/ LinkIt
               \/ \E c \in Chats, more \in BOOLEAN : ChatRecent(c, more)
               \/ \E k \in Keys, v \in Vals : HotSet(k, v)
               \/ \E k \in Deletable : HotDel(k)
               \/ Evict
               \/ Flush \/ SaveMsgIndex \/ PersistMeta \/ Rotate
               \/ UNCHANGED vars
        PROVE  Step
    BY <1>1, <1>5, ReadsOnSteps
  <1>6. Step
    BY <1>2, <1>3, <1>4, <1>5 DEF Next
  <1> QED BY <1>6 DEF Step

\* A store that is closed and never killed keeps every chat as its log: what was
\* appended, in its order, less what trims have dropped, and after a restart the
\* same messages (engine.ts:540-599, 681-756).
THEOREM StoreIsLog ==
  ASSUME ~Kills, Shuffles
  PROVE  Spec => ImplementsChatLog
  <1>1. Init => Log!Init
    <2> SUFFICES ASSUME Init
                 PROVE  Log!Init
      OBVIOUS
    <2>1. StoreInv /\ Len(posted) = 0 /\ lives = 0
      BY StoreStarts DEF Init
    <2>2. ASSUME NEW c \in Chats
          PROVE  ChatOf(c) = <<>>
      <3>1. ChatOf(c) \in Seq(1..0)
        BY <2>1, ChatTyped
      <3>2. PICK s \in Seq(1..0) : s = ChatOf(c)
        BY <3>1
      <3>3. s = <<>>
        OBVIOUS
      <3> QED BY <3>2, <3>3
    <2> QED BY <2>1, <2>2 DEF Log!Init
  <1>2. StoreInv /\ [Next]_vars => [Log!Next]_<<[c \in Chats |-> ChatOf(c)], Len(posted), lives>>
    BY LogStep
  <1>3. Spec => []StoreInv
    BY StoreHolds
  <1> QED BY <1>1, <1>2, <1>3, PTL DEF Spec, ImplementsChatLog, Log!Spec

-----------------------------------------------------------------------------
(* The ring has the last messages of its chat *)

\* A list without repetitions.
Unrepeated(s) == \A i, j \in DOMAIN s : s[i] = s[j] => i = j

\* It has as many elements as its set.
LEMMA CountUnrepeated ==
  ASSUME NEW S, NEW s \in Seq(S)
  PROVE  IsFiniteSet(ToSet(s)) /\ (Cardinality(ToSet(s)) = Len(s) <=> Unrepeated(s))
  <1> DEFINE T == ToSet(s)
  <1>1. PICK L \in Nat : L = Len(s) /\ DOMAIN s = 1..L
    OBVIOUS
  <1>2. s \in [1..L -> T] /\ \A x \in T : \E i \in 1..L : s[i] = x
    <2>1. s = [i \in 1..L |-> s[i]]
      BY <1>1
    <2>2. \A i \in 1..L : s[i] \in T
      BY <1>1 DEF ToSet
    <2>3. \A x \in T : \E i \in 1..L : s[i] = x
      BY <1>1 DEF ToSet
    <2> HIDE DEF T
    <2> QED BY <2>1, <2>2, <2>3
  <1> HIDE DEF T
  <1>3. s \in Surjection(1..L, T)
    BY <1>2 DEF Surjection
  <1>4. IsFiniteSet(1..L) /\ Cardinality(1..L) = L
    <2>1. IsFiniteSet(1..L) /\ Cardinality(1..L) = IF 1 > L THEN 0 ELSE L - 1 + 1
      BY FS_Interval
    <2> QED BY <2>1
  <1>5. IsFiniteSet(T) /\ (Cardinality(T) = L <=> s \in Injection(1..L, T))
    BY <1>3, <1>4, FS_Surjection
  <1>6. s \in Injection(1..L, T) <=> Unrepeated(s)
    BY <1>1, <1>2 DEF Injection, IsInjective, Unrepeated
  <1> QED BY <1>1, <1>5, <1>6 DEF T

\* The last of a list: no repetition, and as many as there are up to the limit.
TakenOf(x, s, n, limit) ==
    /\ x \in Seq(1..n) /\ Unrepeated(x) /\ ToSet(x) \subseteq ToSet(s)
    /\ Len(x) = IF Len(s) < limit THEN Len(s) ELSE limit

LEMMA KeepLastUnrepeated ==
  ASSUME NEW n, NEW s \in Seq(1..n), Unrepeated(s), NEW keep \in Nat
  PROVE  TakenOf(KeepLast(s, keep), s, n, keep)
  <1> DEFINE x == KeepLast(s, keep)
  <1>1. PICK L \in Nat : L = Len(s) /\ DOMAIN s = 1..L
    OBVIOUS
  <1>2. PICK d : d = IF L > keep THEN L - keep ELSE 0
    OBVIOUS
  <1>3. d \in 0..L /\ L - d = IF L < keep THEN L ELSE keep
    BY <1>2
  <1>4. x = Drop(s, d)
    BY <1>1, <1>2 DEF KeepLast, Drop
  <1>5. x \in Seq(1..n) /\ Len(x) = L - d /\ \A i \in 1..(L - d) : x[i] = s[d + i]
    <2>1. d \in 0..Len(s)
      BY <1>1, <1>3
    <2>2. /\ Drop(s, d) \in Seq(1..n) /\ Len(Drop(s, d)) = Len(s) - d
          /\ \A i \in 1..(Len(s) - d) : Drop(s, d)[i] = s[d + i]
      BY <2>1, DropLen
    <2> QED BY <1>1, <1>4, <2>2
  <1> HIDE DEF x
  <1>6. DOMAIN x = 1..(L - d) /\ \A i \in 1..(L - d) : d + i \in 1..L
    BY <1>1, <1>3, <1>5
  <1>7. Unrepeated(x)
    <2>1. \A i, j \in 1..(L - d) : d + i = d + j => i = j
      BY <1>1, <1>3
    <2>2. \A k, l \in 1..L : s[k] = s[l] => k = l
      BY <1>1 DEF Unrepeated
    <2>3. \A i, j \in 1..(L - d) : x[i] = x[j] => d + i = d + j
      BY <1>5, <1>6, <2>2
    <2> QED BY <1>6, <2>1, <2>3 DEF Unrepeated
  <1>8. ToSet(x) \subseteq ToSet(s)
    BY <1>1, <1>5, <1>6 DEF ToSet
  <1>9. TakenOf(x, s, n, keep)
    BY <1>1, <1>3, <1>5, <1>7, <1>8 DEF TakenOf
  <1> QED BY <1>9 DEF x

\* What the ring takes of a list.
LEMMA NewestFacts ==
  ASSUME NEW n, NEW s \in Seq(1..n), Unrepeated(s)
  PROVE  TakenOf(Newest(s), s, n, RingMax)
  <1>1. RingMax \in Nat
    BY StoreAssumption
  <1>2. Newest(s) = KeepLast(s, RingMax)
    BY DEF Newest, KeepLast
  <1>3. TakenOf(KeepLast(s, RingMax), s, n, RingMax)
    BY <1>1, KeepLastUnrepeated
  <1> QED BY <1>2, <1>3

\* The ring and the chat.
KeepsRecent(log, rg, n) ==
    /\ log \in Seq(1..n) /\ Unrepeated(log)
    /\ TakenOf(rg, log, n, RingMax)

RecentInv == \A c \in Chats : KeepsRecent(ChatOf(c), ring[c], Len(posted))

\* A new message is not yet there.
LEMMA AppendUnrepeated ==
  ASSUME NEW n \in Nat, NEW s \in Seq(1..n), Unrepeated(s)
  PROVE  /\ Append(s, n + 1) \in Seq(1..(n + 1)) /\ Unrepeated(Append(s, n + 1))
         /\ Len(Append(s, n + 1)) = Len(s) + 1 /\ ToSet(Append(s, n + 1)) = ToSet(s) \cup {n + 1}
  <1>1. PICK L \in Nat : L = Len(s) /\ DOMAIN s = 1..L
    OBVIOUS
  <1> DEFINE x == Append(s, n + 1)
  <1>2. /\ x \in Seq(1..(n + 1)) /\ Len(x) = L + 1 /\ x[L + 1] = n + 1
        /\ \A i \in 1..L : x[i] = s[i] /\ s[i] \in 1..n
    BY <1>1
  <1> HIDE DEF x
  <1>3. DOMAIN x = 1..(L + 1) /\ \A i \in 1..(L + 1) : i \in 1..L \/ i = L + 1
    BY <1>2
  <1>4. n + 1 \notin 1..n /\ L + 1 \in 1..(L + 1) /\ \A i \in 1..L : i \in 1..(L + 1)
    OBVIOUS
  <1>5. Unrepeated(x)
    <2>1. ASSUME NEW i \in 1..(L + 1), NEW j \in 1..(L + 1), x[i] = x[j]
          PROVE  i = j
      <3>1. CASE i \in 1..L /\ j \in 1..L
        <4>1. s[i] = s[j]
          BY <1>2, <2>1, <3>1
        <4> QED BY <1>1, <3>1, <4>1 DEF Unrepeated
      <3>2. CASE ~(i \in 1..L /\ j \in 1..L)
        <4>1. \A k \in 1..L : x[k] # n + 1
          BY <1>2, <1>4, SMTT(30)
        <4> QED BY <1>2, <1>3, <2>1, <3>2, <4>1
      <3> QED BY <3>1, <3>2
    <2> QED BY <1>3, <2>1 DEF Unrepeated
  <1>6. ToSet(x) = ToSet(s) \cup {n + 1}
    BY <1>1, <1>2, <1>3, <1>4, ZenonT(30) DEF ToSet
  <1> QED BY <1>1, <1>2, <1>5, <1>6 DEF x

\* An append keeps the ring in step.
LEMMA AppendKeepsRecent ==
  ASSUME NEW n \in Nat, NEW log, NEW rg, KeepsRecent(log, rg, n)
  PROVE  KeepsRecent(Append(log, n + 1), Newest(Append(rg, n + 1)), n + 1)
  <1>1. /\ log \in Seq(1..n) /\ Unrepeated(log) /\ rg \in Seq(1..n) /\ Unrepeated(rg)
        /\ ToSet(rg) \subseteq ToSet(log) /\ Len(rg) = IF Len(log) < RingMax THEN Len(log) ELSE RingMax
    BY DEF KeepsRecent, TakenOf
  <1>2. PICK a, b : a = Append(log, n + 1) /\ b = Append(rg, n + 1)
    OBVIOUS
  <1>3. a \in Seq(1..(n + 1)) /\ Unrepeated(a) /\ Len(a) = Len(log) + 1 /\ ToSet(a) = ToSet(log) \cup {n + 1}
    BY <1>1, <1>2, AppendUnrepeated
  <1>4. b \in Seq(1..(n + 1)) /\ Unrepeated(b) /\ Len(b) = Len(rg) + 1 /\ ToSet(b) = ToSet(rg) \cup {n + 1}
    BY <1>1, <1>2, AppendUnrepeated
  <1>5. PICK x : x = Newest(b)
    OBVIOUS
  <1>6. TakenOf(x, b, n + 1, RingMax)
    BY <1>4, <1>5, NewestFacts
  <1>7. Len(x) = IF Len(a) < RingMax THEN Len(a) ELSE RingMax
    <2>1. Len(x) = IF Len(b) < RingMax THEN Len(b) ELSE RingMax
      BY <1>6 DEF TakenOf
    <2>2. Len(log) \in Nat /\ RingMax \in Nat \ {0}
      BY <1>1, StoreAssumption
    <2> QED BY <1>1, <1>3, <1>4, <2>1, <2>2, SMTT(30)
  <1>8. TakenOf(x, a, n + 1, RingMax)
    BY <1>1, <1>3, <1>4, <1>6, <1>7 DEF TakenOf
  <1> QED BY <1>2, <1>3, <1>5, <1>8 DEF KeepsRecent

\* A list of messages can be put in order.
LEMMA ByAgeFacts ==
  ASSUME NEW n \in Nat, NEW all \in Seq(1..n), Unrepeated(all)
  PROVE  /\ ByAge(all) \in Seq(1..n) /\ Unrepeated(ByAge(all))
         /\ Len(ByAge(all)) = Len(all) /\ ToSet(ByAge(all)) \subseteq ToSet(all)
  <1> DEFINE D == DOMAIN all
  <1> DEFINE Orders(p) == IsInjective(p) /\ \A i, j \in D : i < j => all[p[i]] <= all[p[j]]
  <1>1. PICK L \in Nat : L = Len(all) /\ D = 1..L
    OBVIOUS
  <1>2. \E p \in [D -> D] : Orders(p)
    <2>1. ToSet(all) \in SUBSET (1..n)
      BY DEF ToSet
    <2>2. PICK s : Ascends(s, ToSet(all))
      BY <2>1, SortedOf
    <2>3. s \in Seq(ToSet(all)) /\ ToSet(s) = ToSet(all) /\ Unrepeated(s)
      <3>1. ToSet(all) \in SUBSET Nat
        BY <2>1
      <3> QED BY <2>2, <3>1, AscendsFacts DEF Ascends, Unrepeated
    <2>4. Len(s) = L
      <3>1. Cardinality(ToSet(s)) = Len(s) /\ Cardinality(ToSet(all)) = Len(all)
        BY <2>3, CountUnrepeated
      <3> QED BY <1>1, <2>3, <3>1
    <2>5. DOMAIN s = 1..L
      BY <2>3, <2>4
    <2>6. \A i \in D : \E k \in D : all[k] = s[i]
      <3>1. \A i \in D : s[i] \in ToSet(all)
        BY <1>1, <2>3, <2>5
      <3> QED BY <3>1 DEF ToSet
    <2> DEFINE p == [i \in D |-> CHOOSE k \in D : all[k] = s[i]]
    <2>7. p \in [D -> D] /\ \A i \in D : all[p[i]] = s[i]
      BY <2>6
    <2> HIDE DEF p
    <2>8. IsInjective(p)
      <3>1. \A i, j \in D : s[i] = s[j] => i = j
        BY <1>1, <2>3, <2>5 DEF Unrepeated
      <3> HIDE DEF D
      <3> QED BY <2>7, <3>1, SMTT(30) DEF IsInjective
    <2>9. \A i, j \in D : i < j => s[i] <= s[j]
      <3>1. \A i, j \in D : i < j => s[i] < s[j]
        BY <1>1, <2>2, <2>5 DEF Ascends
      <3>2. \A i \in D : s[i] \in Nat
        BY <1>1, <2>1, <2>3, <2>5
      <3> QED BY <1>1, <3>1, <3>2, SMTT(30)
    <2>10. Orders(p)
      BY <2>7, <2>8, <2>9
    <2> QED BY <2>7, <2>10
  <1> DEFINE place == CHOOSE p \in [D -> D] : Orders(p)
  <1>3. place \in [D -> D] /\ Orders(place)
    <2> HIDE DEF D, Orders
    <2> QED BY <1>2
  <1>4. ByAge(all) = [i \in D |-> all[place[i]]]
    BY DEF ByAge
  <1> HIDE DEF place
  <1>5. PICK o, x : o = place /\ x = ByAge(all)
    OBVIOUS
  <1>6. o \in [1..L -> 1..L] /\ IsInjective(o)
    BY <1>1, <1>3, <1>5
  <1>7. x = [i \in 1..L |-> all[o[i]]]
    BY <1>1, <1>4, <1>5
  <1>8. \A i \in 1..L : o[i] \in 1..L /\ x[i] = all[o[i]] /\ all[o[i]] \in 1..n
    <2>1. \A k \in 1..L : all[k] \in 1..n
      BY <1>1
    <2>2. \A i \in 1..L : o[i] \in 1..L
      BY <1>6
    <2> QED BY <1>7, <2>1, <2>2
  <1>9. x \in Seq(1..n) /\ Len(x) = L /\ DOMAIN x = 1..L
    BY <1>7, <1>8
  <1>10. Unrepeated(x)
    <2>1. \A i, j \in 1..L : o[i] = o[j] => i = j
      BY <1>6 DEF IsInjective
    <2>2. \A k, l \in 1..L : all[k] = all[l] => k = l
      BY <1>1 DEF Unrepeated
    <2>3. \A i, j \in 1..L : x[i] = x[j] => o[i] = o[j]
      BY <1>8, <2>2, SMTT(30)
    <2> QED BY <1>9, <2>1, <2>3 DEF Unrepeated
  <1>11. ToSet(x) \subseteq ToSet(all)
    BY <1>1, <1>8, <1>9, SMTT(30) DEF ToSet
  <1> QED BY <1>1, <1>5, <1>9, <1>10, <1>11

\* The ring that is read from its chat has the last of it.
LEMMA NewestKeepsRecent ==
  ASSUME NEW n, NEW log \in Seq(1..n), Unrepeated(log)
  PROVE  KeepsRecent(log, Newest(log), n)
  BY NewestFacts DEF KeepsRecent

\* What is kept of a chat is not touched by a message to another.
LEMMA KeepsRecentMore ==
  ASSUME NEW n \in Nat, NEW log, NEW rg, KeepsRecent(log, rg, n)
  PROVE  KeepsRecent(log, rg, n + 1)
  <1>1. 1..n \subseteq 1..(n + 1)
    OBVIOUS
  <1>2. \A s \in Seq(1..n) : s \in Seq(1..(n + 1))
    BY <1>1
  <1> QED BY <1>2 DEF KeepsRecent, TakenOf

\* A message is appended.
LEMMA AppendRecent ==
  ASSUME StoreInv, RecentInv, NEW c \in Chats, AppendMessage(c)
  PROVE  RecentInv'
  <1>1. PICK n \in Nat : n = Len(posted)
    BY DEF StoreInv, Counted
  <1>2. Len(posted') = n + 1
    BY <1>1 DEF AppendMessage, Insert, StoreInv, Counted
  <1>3. ChatOf(c)' = Append(ChatOf(c), n + 1) /\ OthersRead(c) /\ ring' = [ring EXCEPT ![c] = Newest(Append(@, n + 1))]
    BY <1>1, AppendReads
  <1>4. ring'[c] = Newest(Append(ring[c], n + 1)) /\ \A d \in Chats : d # c => ring'[d] = ring[d]
    BY <1>3 DEF StoreInv, Typed
  <1>5. ASSUME NEW d \in Chats
        PROVE  KeepsRecent(ChatOf(d)', ring'[d], n + 1)
    <2>1. PICK log, rg : log = ChatOf(d) /\ rg = ring[d]
      OBVIOUS
    <2>2. KeepsRecent(log, rg, n)
      BY <1>1, <2>1 DEF RecentInv
    <2>3. CASE d = c
      <3>1. KeepsRecent(Append(log, n + 1), Newest(Append(rg, n + 1)), n + 1)
        BY <2>2, AppendKeepsRecent
      <3> QED BY <1>3, <1>4, <2>1, <2>3, <3>1
    <2>4. CASE d # c
      <3>1. KeepsRecent(log, rg, n + 1)
        BY <2>2, KeepsRecentMore
      <3> QED BY <1>3, <1>4, <2>1, <2>4, <3>1 DEF OthersRead
    <2> QED BY <2>3, <2>4
  <1> QED BY <1>2, <1>5 DEF RecentInv

\* A chat is trimmed.
LEMMA TrimRecent ==
  ASSUME StoreInv, RecentInv, NEW c \in Chats, NEW keep \in Keeps, ChatTrimKeepLast(c, keep)
  PROVE  RecentInv'
  <1>1. PICK n : n = Len(posted)
    OBVIOUS
  <1>2. posted' = posted /\ keep \in Nat
    BY StoreAssumption DEF ChatTrimKeepLast
  <1>3. /\ ChatOf(c)' = KeepLast(ChatOf(c), keep) /\ OthersRead(c)
        /\ \A d \in Chats : d # c => ring'[d] = ring[d]
        /\ (ring'[c] = ring[c] /\ ChatOf(c)' = ChatOf(c)) \/ ring'[c] = Newest(ChatOf(c)')
    BY TrimReads
  <1>4. ASSUME NEW d \in Chats
        PROVE  KeepsRecent(ChatOf(d)', ring'[d], n)
    <2>1. PICK log, rg : log = ChatOf(d) /\ rg = ring[d]
      OBVIOUS
    <2>2. KeepsRecent(log, rg, n)
      BY <1>1, <2>1 DEF RecentInv
    <2>3. CASE d = c /\ ring'[c] = Newest(ChatOf(c)')
      <3>1. PICK x : x = KeepLast(log, keep)
        OBVIOUS
      <3>2. x \in Seq(1..n) /\ Unrepeated(x)
        <4>1. TakenOf(x, log, n, keep)
          BY <1>2, <2>2, <3>1, KeepLastUnrepeated DEF KeepsRecent
        <4> QED BY <4>1 DEF TakenOf
      <3>3. KeepsRecent(x, Newest(x), n)
        BY <3>2, NewestKeepsRecent
      <3> QED BY <1>3, <2>1, <2>3, <3>1, <3>3
    <2>4. CASE d # c \/ (ring'[c] = ring[c] /\ ChatOf(c)' = ChatOf(c))
      BY <1>3, <2>1, <2>2, <2>4 DEF OthersRead
    <2> QED BY <1>3, <2>3, <2>4
  <1> QED BY <1>1, <1>2, <1>4 DEF RecentInv

\* The last messages are read: from the chat, or from the ring itself.
LEMMA RecentRecent ==
  ASSUME StoreInv, RecentInv, NEW c \in Chats, NEW more \in BOOLEAN, ChatRecent(c, more)
  PROVE  RecentInv'
  <1>1. PICK n \in Nat : n = Len(posted)
    BY DEF StoreInv, Counted
  <1>2. PICK log, rg, all : log = ChatOf(c) /\ rg = ring[c] /\ all = IF more THEN log ELSE rg
    OBVIOUS
  <1>3. /\ ring' = [ring EXCEPT ![c] = Newest(ByAge(all))]
        /\ UNCHANGED <<mem, tips, posted>>
    BY <1>2 DEF ChatRecent, ChatOf
  <1>4. ChatsSame
    BY <1>3, StillReads
  <1>5. ring'[c] = Newest(ByAge(all)) /\ \A d \in Chats : d # c => ring'[d] = ring[d]
    BY <1>3 DEF StoreInv, Typed
  <1>6. /\ log \in Seq(1..n) /\ Unrepeated(log) /\ rg \in Seq(1..n) /\ Unrepeated(rg)
        /\ ToSet(rg) \subseteq ToSet(log) /\ Len(rg) = IF Len(log) < RingMax THEN Len(log) ELSE RingMax
    BY <1>1, <1>2 DEF RecentInv, KeepsRecent, TakenOf
  <1>7. all \in Seq(1..n) /\ Unrepeated(all)
    BY <1>2, <1>6
  <1>8. PICK x : x = ByAge(all)
    OBVIOUS
  <1>9. x \in Seq(1..n) /\ Unrepeated(x) /\ Len(x) = Len(all) /\ ToSet(x) \subseteq ToSet(all)
    BY <1>7, <1>8, ByAgeFacts
  <1>10. PICK z : z = Newest(x)
    OBVIOUS
  <1>11. TakenOf(z, x, n, RingMax)
    BY <1>9, <1>10, NewestFacts
  <1>12. TakenOf(z, log, n, RingMax)
    <2>1. ToSet(z) \subseteq ToSet(log)
      BY <1>2, <1>6, <1>9, <1>11 DEF TakenOf
    <2>2. Len(z) = IF Len(all) < RingMax THEN Len(all) ELSE RingMax
      BY <1>9, <1>11 DEF TakenOf
    <2>3. Len(log) \in Nat /\ RingMax \in Nat
      BY <1>6, StoreAssumption
    <2>4. Len(z) = IF Len(log) < RingMax THEN Len(log) ELSE RingMax
      BY <1>2, <1>6, <2>2, <2>3
    <2> QED BY <1>11, <2>1, <2>4 DEF TakenOf
  <1>13. KeepsRecent(log, z, n)
    BY <1>6, <1>12 DEF KeepsRecent
  <1>14. ASSUME NEW d \in Chats
         PROVE  KeepsRecent(ChatOf(d)', ring'[d], n)
    <2>1. KeepsRecent(ChatOf(d), ring[d], n) /\ ChatOf(d)' = ChatOf(d)
      BY <1>1, <1>4 DEF RecentInv, ChatsSame
    <2> QED BY <1>2, <1>5, <1>8, <1>10, <1>13, <2>1
  <1> QED BY <1>1, <1>3, <1>14 DEF RecentInv

\* The store is opened again.
LEMMA RestartRecent ==
  ASSUME ~Kills, StoreInv, RecentInv, Restart
  PROVE  RecentInv'
  <1>1. PICK n : n = Len(posted)
    OBVIOUS
  <1>2. posted' = posted
    BY DEF Restart
  <1>3. ASSUME NEW c \in Chats
        PROVE  KeepsRecent(ChatOf(c)', ring'[c], n)
    <2>1. PICK log, x : log = ChatOf(c) /\ x = ChatOf(c)'
      OBVIOUS
    <2>2. Len(x) = Len(log) /\ ToSet(x) = ToSet(log) /\ ring'[c] = Newest(x) /\ x \in Seq(1..n)
      BY <1>1, <2>1, RestartReads
    <2>3. log \in Seq(1..n) /\ Unrepeated(log)
      BY <1>1, <2>1 DEF RecentInv, KeepsRecent
    <2>4. Cardinality(ToSet(log)) = Len(log)
      BY <2>3, CountUnrepeated
    <2>5. Unrepeated(x)
      BY <2>2, <2>4, CountUnrepeated
    <2> QED BY <2>1, <2>2, <2>5, NewestKeepsRecent
  <1> QED BY <1>1, <1>2, <1>3 DEF RecentInv

\* The steps that touch neither chats nor rings.
LEMMA StillRecent ==
  ASSUME RecentInv, ChatsSame, UNCHANGED <<ring, posted>>
  PROVE  RecentInv'
  BY DEF RecentInv, ChatsSame

LEMMA RecentStep ==
  ASSUME ~Kills, StoreInv, RecentInv, [Next]_vars
  PROVE  RecentInv'
  <1>1. ASSUME NEW c \in Chats, NewPage(c)
        PROVE  RecentInv'
    BY <1>1, NewPageReads, StillRecent DEF NewPage
  <1>2. ASSUME LinkIt
        PROVE  RecentInv'
    BY <1>2, LinkItReads, StillRecent DEF LinkIt
  <1>3. ASSUME (\E k \in Keys, v \in Vals : HotSet(k, v)) \/ (\E k \in Deletable : HotDel(k))
        PROVE  RecentInv'
    <2>1. ChatsSame /\ ring' = ring
      BY <1>3, HotReadsOn
    <2>2. posted' = posted
      BY <1>3 DEF HotSet, HotDel
    <2> QED BY <2>1, <2>2, StillRecent
  <1>4. ASSUME Evict \/ Flush \/ SaveMsgIndex \/ PersistMeta \/ Rotate \/ UNCHANGED vars
        PROVE  RecentInv'
    <2>1. UNCHANGED <<mem, tips, ring, posted>>
      BY <1>4 DEF Evict, Flush, SaveMsgIndex, PersistMeta, Rotate, vars
    <2> QED BY <2>1, StillReads, StillRecent
  <1>5. ASSUME NEW c \in Chats, AppendMessage(c)
        PROVE  RecentInv'
    BY <1>5, AppendRecent
  <1>6. ASSUME NEW c \in Chats, NEW keep \in Keeps, ChatTrimKeepLast(c, keep)
        PROVE  RecentInv'
    BY <1>6, TrimRecent
  <1>7. ASSUME NEW c \in Chats, NEW more \in BOOLEAN, ChatRecent(c, more)
        PROVE  RecentInv'
    BY <1>7, RecentRecent
  <1>8. ASSUME Restart
        PROVE  RecentInv'
    BY <1>8, RestartRecent
  <1> QED BY <1>1, <1>2, <1>3, <1>4, <1>5, <1>6, <1>7, <1>8 DEF Next

\* A store that is closed and never killed answers from its ring what the chat
\* has: no message that a trim has dropped, none twice, and as many as there are
\* up to the size of the ring (engine.ts:583-632, 751-755).
THEOREM RecentHolds ==
  ASSUME ~Kills
  PROVE  Spec => []RecentIsKept
  <1>1. Init => RecentInv
    <2> SUFFICES ASSUME Init, NEW c \in Chats
                 PROVE  KeepsRecent(ChatOf(c), ring[c], Len(posted))
      BY DEF RecentInv
    <2>1. StoreInv /\ Len(posted) = 0 /\ ring[c] = <<>>
      BY StoreStarts DEF Init
    <2>2. PICK s \in Seq(1..0) : s = ChatOf(c)
      BY <2>1, ChatTyped
    <2>3. s = <<>> /\ RingMax \in Nat \ {0}
      BY StoreAssumption
    <2>4. <<>> \in Seq(1..0) /\ Unrepeated(<<>>) /\ ToSet(<<>>) = {} /\ Len(<<>>) = 0
      BY DEF Unrepeated, ToSet
    <2>5. KeepsRecent(<<>>, <<>>, 0)
      BY <2>3, <2>4 DEF KeepsRecent, TakenOf
    <2> QED BY <2>1, <2>2, <2>3, <2>5
  <1>2. StoreInv /\ RecentInv /\ [Next]_vars => RecentInv'
    BY RecentStep
  <1>3. StoreInv /\ RecentInv => RecentIsKept
    <2> SUFFICES ASSUME RecentInv, NEW c \in Chats
                 PROVE  /\ ToSet(ring[c]) \subseteq ToSet(ChatOf(c))
                        /\ Len(ring[c]) = Cardinality(ToSet(ring[c]))
                        /\ Len(ring[c]) = IF Len(ChatOf(c)) < RingMax THEN Len(ChatOf(c)) ELSE RingMax
      BY DEF RecentIsKept
    <2>1. KeepsRecent(ChatOf(c), ring[c], Len(posted))
      BY DEF RecentInv
    <2>2. ring[c] \in Seq(1..Len(posted)) /\ Unrepeated(ring[c])
      BY <2>1 DEF KeepsRecent, TakenOf
    <2>3. Cardinality(ToSet(ring[c])) = Len(ring[c])
      BY <2>2, CountUnrepeated
    <2> QED BY <2>1, <2>3 DEF KeepsRecent, TakenOf
  <1>4. Spec => []StoreInv
    BY StoreHolds
  <1> QED BY <1>1, <1>2, <1>3, <1>4, PTL DEF Spec


-----------------------------------------------------------------------------
(* Hot keys *)

\* The hot chain has a last value of every key that was set.
HotHeld ==
    /\ hot = [k \in Keys |-> hot[k]]
    /\ \E s : HotChain(mem, s) /\ \A k \in Keys : hot[k] # 0 => <<k, hot[k]>> \in Holding(mem, s)

\* The hot pages are as before.
HotPagesSame ==
    /\ hot' = hot
    /\ \A q \in DOMAIN mem.pg : q \in DOMAIN mem'.pg /\ (mem.pg[q].kind = "hot" => mem'.pg[q] = mem.pg[q])

\* So are the keys.
LEMMA HotHeldOn ==
  ASSUME HotHeld, HotPagesSame
  PROVE  HotHeld'
  <1>1. PICK s : HotChain(mem, s) /\ \A k \in Keys : hot[k] # 0 => <<k, hot[k]>> \in Holding(mem, s)
    BY DEF HotHeld
  <1>2. PICK f, g : f = mem /\ g = mem'
    OBVIOUS
  <1>3. /\ \A q \in DOMAIN f.pg : q \in DOMAIN g.pg
        /\ \A q \in DOMAIN f.pg : f.pg[q].kind = "hot" => g.pg[q] = f.pg[q]
    BY <1>2 DEF HotPagesSame
  <1>4. HotChain(g, s) /\ Holding(g, s) = Holding(f, s)
    BY <1>1, <1>2, <1>3, HotChainKept
  <1>5. hot' = hot /\ hot = [k \in Keys |-> hot[k]]
    BY DEF HotPagesSame, HotHeld
  <1> QED BY <1>1, <1>2, <1>4, <1>5 DEF HotHeld

\* An operation on a chat.
LEMMA HotSameBut ==
  ASSUME NEW c, SameBut(c, mem', mem), hot' = hot
  PROVE  HotPagesSame
  BY DEF SameBut, HotPagesSame

\* A message, and the page taken for it.
LEMMA AppendsKeepHot ==
  ASSUME StoreInv, NEW c \in Chats, NewPage(c) \/ AppendMessage(c)
  PROVE  HotPagesSame
  <1>1. CASE NewPage(c)
    <2>1. op = Idle /\ mem' = AllocFor(mem, c) /\ hot' = hot
      BY <1>1 DEF NewPage
    <2>2. PICK fr, ch : Shape(mem, fr, ch, Len(posted))
      BY DEF StoreInv, Chained, Stored
    <2>3. Len(posted) \in Nat
      BY DEF StoreInv, Counted
    <2>4. SameBut(c, AllocFor(mem, c), mem)
      BY <2>2, <2>3, ChatAlloc
    <2> QED BY <2>1, <2>4, HotSameBut
  <1>2. CASE AppendMessage(c)
    <2>1. hot' = hot
      BY <1>2 DEF AppendMessage
    <2>2. PICK r, fr, ch : Inserted(r, Loaded, fr, ch, c, Len(posted) + 1) /\ Replaced(r)
      BY <1>2, AppendLeads
    <2>3. SameBut(c, mem', mem)
      BY <2>2, LoadedFacts DEF Inserted, Replaced
    <2> QED BY <2>1, <2>3, HotSameBut
  <1> QED BY <1>1, <1>2

\* The page taken for it is linked.
LEMMA LinkKeepsHot ==
  ASSUME StoreInv, LinkIt
  PROVE  HotPagesSame
  <1>1. hot' = hot
    BY DEF LinkIt
  <1>2. PICK r, fr, ch, d : Joined(r, Loaded, fr, ch, d, op.page, Len(posted)) /\ Replaced(r)
    BY LinkItLeads
  <1>3. SameBut(d, mem', mem)
    BY <1>2, LoadedFacts DEF Joined, Replaced
  <1> QED BY <1>1, <1>3, HotSameBut

\* A trim.
LEMMA TrimKeepsHot ==
  ASSUME StoreInv, NEW c \in Chats, NEW keep \in Keeps, ChatTrimKeepLast(c, keep)
  PROVE  HotPagesSame
  <1>1. hot' = hot
    BY DEF ChatTrimKeepLast
  <1>2. PICK r : Replaced(r) /\ SameBut(c, r.f, mem)
    BY TrimLeads
  <1>3. SameBut(c, mem', mem)
    BY <1>2 DEF Replaced
  <1> QED BY <1>1, <1>3, HotSameBut

\* An open.
LEMMA RestartKeepsHot ==
  ASSUME ~Kills, StoreInv, Restart
  PROVE  HotPagesSame
  <1>1. op = Idle /\ wal = <<>> /\ disk = mem /\ Becomes(Warmed(Recovered)) /\ hot' = hot
    BY DEF Restart
  <1>2. Recovered = FromHeap
    BY <1>1, RecoveredNone
  <1>3. mem' = Relinked
    <2>1. mem' = Warmed(Recovered).f
      BY <1>1 DEF Becomes
    <2> QED BY <1>2, <2>1 DEF Warmed, FromHeap
  <1>4. PICK fr, ch : Shape(disk, fr, ch, Len(posted))
    BY <1>1 DEF StoreInv, Chained, Stored
  <1>5. Len(posted) \in Nat /\ disk \in File
    BY <1>4 DEF StoreInv, Counted, Shape
  <1>6. Rewired(Relinked, Len(disk.pg))
    BY <1>5, RelinkedEffect
  <1> DEFINE g == Relinked
  <1>7. \A p \in DOMAIN disk.pg : p \in DOMAIN g.pg /\ (disk.pg[p].kind # "chat" => g.pg[p] = disk.pg[p])
    <2> HIDE DEF g
    <2>1. Rewired(g, Len(disk.pg))
      BY <1>6 DEF g
    <2> QED BY <1>4, <1>5, <2>1, ByNumberShape
  <1> HIDE DEF g
  <1>8. mem' = g
    BY <1>3 DEF g
  <1> QED BY <1>1, <1>7, <1>8 DEF HotPagesSame

\* Setting a key.
LEMMA HotSetHeld ==
  ASSUME StoreInv, HotHeld, NEW k \in Keys, NEW v \in Vals, HotSet(k, v)
  PROVE  HotHeld'
  <1>1. PICK s : HotChain(mem, s) /\ \A j \in Keys : hot[j] # 0 => <<j, hot[j]>> \in Holding(mem, s)
    BY DEF HotHeld
  <1>2. PICK f, g, h, n : f = mem /\ g = mem' /\ h = hot /\ n = Len(posted)
    OBVIOUS
  <1>3. PICK fr, ch : Shape(f, fr, ch, n)
    BY <1>2 DEF StoreInv, Chained, Stored
  <1>4. n \in Nat
    BY <1>2 DEF StoreInv, Counted
  <1>5. g = WriteHot(f, k, v)
    BY <1>2, HotSetLeads DEF Replaced
  <1>6. hot' = [h EXCEPT ![k] = v] /\ h = [j \in Keys |-> h[j]]
    BY <1>2 DEF HotSet, HotHeld
  <1>a. hot' = [j \in Keys |-> hot'[j]] /\ \A j \in Keys : hot'[j] = IF j = k THEN v ELSE h[j]
    BY <1>6
  <1>7. PICK t : HotChain(WriteHot(f, k, v), t)
                 /\ Holding(WriteHot(f, k, v), t) = {x \in Holding(f, s) : x[1] # k} \cup {<<k, v>>}
    BY <1>1, <1>2, <1>3, <1>4, HotWritten
  <1>8. HotChain(g, t) /\ Holding(g, t) = {x \in Holding(f, s) : x[1] # k} \cup {<<k, v>>}
    BY <1>5, <1>7
  <1>9. ASSUME NEW j \in Keys, hot'[j] # 0
        PROVE  <<j, hot'[j]>> \in Holding(g, t)
    <2>1. CASE j = k
      <3>1. hot'[j] = v
        BY <1>a, <2>1
      <3> QED BY <1>8, <2>1, <3>1
    <2>2. CASE j # k
      <3>1. hot'[j] = h[j]
        BY <1>a, <2>2
      <3>2. <<j, h[j]>> \in Holding(f, s) /\ <<j, h[j]>>[1] = j
        BY <1>1, <1>2, <1>9, <3>1, SMTT(30)
      <3> QED BY <1>8, <2>2, <3>1, <3>2
    <2> QED BY <2>1, <2>2
  <1> QED BY <1>2, <1>8, <1>9, <1>a DEF HotHeld

\* Every step keeps the keys.
LEMMA HotStep ==
  ASSUME ~Kills, Deletable = {}, StoreInv, HotHeld, [Next]_vars
  PROVE  HotHeld'
  <1>1. ASSUME NEW c \in Chats, NewPage(c) \/ AppendMessage(c)
        PROVE  HotPagesSame
    BY <1>1, AppendsKeepHot
  <1>2. ASSUME LinkIt
        PROVE  HotPagesSame
    BY <1>2, LinkKeepsHot
  <1>3. ASSUME NEW c \in Chats, NEW keep \in Keeps, ChatTrimKeepLast(c, keep)
        PROVE  HotPagesSame
    BY <1>3, TrimKeepsHot
  <1>4. ASSUME NEW c \in Chats, NEW more \in BOOLEAN, ChatRecent(c, more)
        PROVE  HotPagesSame
    BY <1>4 DEF ChatRecent, HotPagesSame
  <1>5. ASSUME Evict \/ Flush \/ SaveMsgIndex \/ PersistMeta \/ Rotate \/ UNCHANGED vars
        PROVE  HotPagesSame
    <2>1. mem' = mem /\ hot' = hot
      BY <1>5 DEF Evict, Flush, SaveMsgIndex, PersistMeta, Rotate, vars
    <2> QED BY <2>1 DEF HotPagesSame
  <1>6. ASSUME Restart
        PROVE  HotPagesSame
    BY <1>6, RestartKeepsHot
  <1>7. ASSUME NEW k \in Keys, NEW v \in Vals, HotSet(k, v)
        PROVE  HotHeld'
    BY <1>7, HotSetHeld
  <1> QED BY <1>1, <1>2, <1>3, <1>4, <1>5, <1>6, <1>7, HotHeldOn DEF Next

\* A set never loses another key, however the hot chain overflows and whatever
\* trims and appends do to the free list (engine.ts:387-460).
THEOREM HotHolds ==
  ASSUME ~Kills, Deletable = {}
  PROVE  Spec => []HotKept
  <1>1. Init => HotHeld
    <2> SUFFICES ASSUME Init
                 PROVE  HotHeld
      OBVIOUS
    <2>1. mem = NewFile /\ hot = [k \in Keys |-> 0]
      BY DEF Init
    <2>2. HotChain(mem, <<HotRoot>>)
      <3>1. Path(mem, <<HotRoot>>) /\ mem.pg[HotRoot].kind = "hot"
        BY <2>1 DEF NewFile, Blank, Path, HotRoot
      <3>2. DOMAIN <<HotRoot>> = {1} /\ <<HotRoot>> # <<>> /\ <<HotRoot>>[1] = HotRoot
        OBVIOUS
      <3> QED BY <3>1, <3>2 DEF HotChain
    <2> QED BY <2>1, <2>2 DEF HotHeld
  <1>2. StoreInv /\ HotHeld /\ [Next]_vars => HotHeld'
    BY HotStep
  <1>3. StoreInv /\ HotHeld => HotKept
    <2> SUFFICES ASSUME StoreInv, HotHeld, NEW k \in Keys, hot[k] # 0
                 PROVE  <<k, hot[k]>> \in ToSet(Contents(mem, HotRoot))
      BY DEF HotKept
    <2>1. PICK s : HotChain(mem, s) /\ <<k, hot[k]>> \in Holding(mem, s)
      BY DEF HotHeld
    <2>2. mem \in File
      BY DEF StoreInv, Chained, Stored, Shape
    <2> QED BY <2>1, <2>2, HotChainRead
  <1>4. Spec => []StoreInv
    BY StoreHolds
  <1> QED BY <1>1, <1>2, <1>3, <1>4, PTL DEF Spec
=============================================================================
