-------------------------- MODULE StoreCrashProofs --------------------------
(***************************************************************************)
(* A store that may be killed between any two steps, with any of its dirty *)
(* pages written or not, loses no message: what the file on disk lacks is  *)
(* in the WAL, and the replay puts it where it was.  For every number of   *)
(* chats, keys, pages, messages and checkpoints before the kill; chats     *)
(* that are not trimmed.                                                   *)
(***************************************************************************)
EXTENDS PageStoreProofs

-----------------------------------------------------------------------------
(* Files without free pages *)

\* Without trims, no page is ever freed; the chains do not matter here.
NoChains == [c \in Chats |-> <<>>]
Whole(f, n) == Shape(f, <<>>, NoChains, n)

\* What that says of the pages.
LEMMA WholeIs ==
  ASSUME NEW f, NEW n
  PROVE  Whole(f, n) <=> /\ f \in File /\ f.free = 0 /\ HotTrue(f)
                         /\ \A p \in DOMAIN f.pg : f.pg[p].kind # "free" /\ OwnPage(f.pg[p], n)
  <1>1. Path(f, <<>>)
    BY DEF Path
  <1>2. FreeTrue(f, <<>>) <=> f.free = 0 /\ \A p \in DOMAIN f.pg : f.pg[p].kind # "free"
    <2>1. HeadOf(<<>>) = 0 /\ ToSet(<<>>) = {}
      BY DEF HeadOf, ToSet
    <2> QED BY <1>1, <2>1 DEF FreeTrue
  <1>3. \A c \in Chats : ChatPath(f, c, NoChains[c])
    BY <1>1 DEF ChatPath, NoChains
  <1> QED BY <1>2, <1>3 DEF Whole, Shape

\* A change to the hot pages frees none.
LEMMA WholeHot ==
  ASSUME NEW f, NEW n, Whole(f, n), NEW g, NEW gr, Shape(g, gr, NoChains, n), SameButHot(g, f)
  PROVE  Whole(g, n)
  <1>1. \A p \in DOMAIN f.pg : f.pg[p].kind # "free"
    BY WholeIs
  <1>2. \A p \in DOMAIN g.pg : g.pg[p].kind # "free"
    BY <1>1 DEF SameButHot
  <1>3. g \in File /\ HotTrue(g) /\ \A p \in DOMAIN g.pg : OwnPage(g.pg[p], n)
    BY DEF Shape
  <1>4. g.free = 0
    <2>1. Path(g, gr) /\ g.free = HeadOf(gr) /\ \A p \in DOMAIN g.pg : g.pg[p].kind = "free" <=> p \in ToSet(gr)
      BY DEF Shape, FreeTrue
    <2>2. gr \in Seq(DOMAIN g.pg)
      BY <2>1 DEF Path
    <2>3. gr # <<>> => gr[1] \in DOMAIN g.pg /\ gr[1] \in ToSet(gr)
      BY <2>2 DEF ToSet
    <2>4. gr = <<>>
      BY <1>2, <2>1, <2>3
    <2> QED BY <2>1, <2>4 DEF HeadOf
  <1> QED BY <1>2, <1>3, <1>4, WholeIs

\* The pages of a file, in short.
LEMMA WholeFacts ==
  ASSUME NEW f, NEW n, Whole(f, n)
  PROVE  /\ f \in File /\ f.free = 0 /\ HotTrue(f) /\ Len(f.pg) \in Nat /\ DOMAIN f.pg = 1..Len(f.pg)
         /\ \A p \in DOMAIN f.pg :
               /\ f.pg[p] \in Page /\ f.pg[p].kind \in {"chat", "hot"} /\ OwnPage(f.pg[p], n)
               /\ f.pg[p].items \in Seq(Tuple) /\ Len(f.pg[p].items) \in Nat
               /\ DOMAIN f.pg[p].items = 1..Len(f.pg[p].items)
               /\ Len(f.pg[p].items) <= Size(f.pg[p].kind)
  <1>1. f \in File /\ f.free = 0 /\ HotTrue(f) /\ \A p \in DOMAIN f.pg : f.pg[p].kind # "free" /\ OwnPage(f.pg[p], n)
    BY WholeIs
  <1>2. Len(f.pg) \in Nat /\ DOMAIN f.pg = 1..Len(f.pg)
    BY <1>1, FileFacts
  <1>3. ASSUME NEW p \in DOMAIN f.pg
        PROVE  /\ f.pg[p] \in Page /\ f.pg[p].kind \in {"chat", "hot"} /\ OwnPage(f.pg[p], n)
               /\ f.pg[p].items \in Seq(Tuple) /\ Len(f.pg[p].items) \in Nat
               /\ DOMAIN f.pg[p].items = 1..Len(f.pg[p].items)
               /\ Len(f.pg[p].items) <= Size(f.pg[p].kind)
    <2>1. f.pg[p] \in Page /\ Len(f.pg[p].items) <= Size(f.pg[p].kind)
      BY <1>1, FileFacts
    <2>2. f.pg[p].kind \in {"free", "chat", "hot"} /\ f.pg[p].items \in Seq(Tuple)
      BY <2>1, PageFacts
    <2> QED BY <1>1, <2>1, <2>2
  <1> QED BY <1>1, <1>2, <1>3

-----------------------------------------------------------------------------
(* Messages and their places *)

\* The tuple x is at the place i of the chat page p.
Spot(f, x, p, i) ==
    p \in DOMAIN f.pg /\ f.pg[p].kind = "chat" /\ i \in DOMAIN f.pg[p].items /\ f.pg[p].items[i] = x

\* No message is twice, and those of a page are in the order of their append.
InOrder(f) ==
    \A p, q \in DOMAIN f.pg : f.pg[p].kind = "chat" /\ f.pg[q].kind = "chat" =>
        \A i \in DOMAIN f.pg[p].items, j \in DOMAIN f.pg[q].items :
            /\ f.pg[p].items[i][2] = f.pg[q].items[j][2] => p = q /\ i = j
            /\ p = q /\ i < j => f.pg[p].items[i][2] < f.pg[q].items[j][2]

\* A page of the chat.
OfChat(f, p, c) == p \in DOMAIN f.pg /\ f.pg[p].kind = "chat" /\ f.pg[p].chat = c

\* The tail of a chat is a page of its own.
TailsOwn(f, tp) ==
    \A c \in Chats :
        /\ tp[c] = [head |-> tp[c].head, tail |-> tp[c].tail, count |-> tp[c].count]
        /\ tp[c].tail # 0 => OfChat(f, tp[c].tail, c)

\* Every message is at a place where the index has it.
Found(f, idx, post) ==
    \A m \in DOMAIN post : \E p, i : Spot(f, <<post[m], m>>, p, i) /\ <<m, p, i>> \in idx[post[m]]

\* The memory s of a store with the messages post.
Filed(s, post) ==
    /\ IsMemory(s) /\ Whole(s.f, Len(post)) /\ InOrder(s.f)
    /\ TailsOwn(s.f, s.tips) /\ HotAtHot(s.f, s.hotAt) /\ Found(s.f, s.index, post)

\* a is the beginning of b.
Prefix(a, b) == Len(a) <= Len(b) /\ \A i \in DOMAIN a : b[i] = a[i]

\* The file g has all that f has.
Grows(f, g) ==
    \A p \in DOMAIN f.pg :
        /\ p \in DOMAIN g.pg /\ g.pg[p].kind = f.pg[p].kind
        /\ f.pg[p].kind = "chat" => g.pg[p].chat = f.pg[p].chat /\ Prefix(f.pg[p].items, g.pg[p].items)

\* The file g lags behind the file f.
Behind(g, f, n) ==
    /\ Whole(g, n)
    /\ \A p \in DOMAIN f.pg : p \in DOMAIN g.pg /\ g.pg[p].kind = f.pg[p].kind
    /\ \A p \in DOMAIN g.pg : g.pg[p].kind = "chat" =>
          p \in DOMAIN f.pg /\ g.pg[p].chat \in {NoChat, f.pg[p].chat} /\ Prefix(g.pg[p].items, f.pg[p].items)

\* A place is kept by a file that has all.
LEMMA SpotGrows ==
  ASSUME NEW f, NEW n, Whole(f, n), NEW g, NEW m, Whole(g, m), Grows(f, g),
         NEW x, NEW p, NEW i, Spot(f, x, p, i)
  PROVE  Spot(g, x, p, i)
  <1>1. p \in DOMAIN f.pg /\ f.pg[p].kind = "chat" /\ i \in DOMAIN f.pg[p].items /\ f.pg[p].items[i] = x
    BY DEF Spot
  <1>2. p \in DOMAIN g.pg /\ g.pg[p].kind = "chat" /\ Prefix(f.pg[p].items, g.pg[p].items)
    BY <1>1 DEF Grows
  <1>3. PICK a, b : a = f.pg[p].items /\ b = g.pg[p].items
    OBVIOUS
  <1>4. Len(a) \in Nat /\ DOMAIN a = 1..Len(a) /\ Len(b) \in Nat /\ DOMAIN b = 1..Len(b)
    BY <1>1, <1>2, <1>3, WholeFacts
  <1>5. i \in DOMAIN a /\ Len(a) <= Len(b) /\ b[i] = a[i]
    BY <1>1, <1>2, <1>3 DEF Prefix
  <1>6. i \in DOMAIN b
    BY <1>4, <1>5
  <1> QED BY <1>1, <1>2, <1>3, <1>5, <1>6 DEF Spot

\* A list begins with itself.
LEMMA PrefixSelf ==
  ASSUME NEW S, NEW a \in Seq(S)
  PROVE  Prefix(a, a)
  BY DEF Prefix

\* A change to the hot pages takes nothing away.
LEMMA HotGrows ==
  ASSUME NEW f, NEW n, Whole(f, n), NEW g, SameButHot(g, f)
  PROVE  Grows(f, g)
  <1>1. ASSUME NEW p \in DOMAIN f.pg
        PROVE  /\ p \in DOMAIN g.pg /\ g.pg[p].kind = f.pg[p].kind
               /\ f.pg[p].kind = "chat" => g.pg[p].chat = f.pg[p].chat /\ Prefix(f.pg[p].items, g.pg[p].items)
    <2>1. f.pg[p].kind \in {"chat", "hot"} /\ f.pg[p].items \in Seq(Tuple)
      BY WholeFacts
    <2>2. Prefix(f.pg[p].items, f.pg[p].items)
      BY <2>1, PrefixSelf, SMTT(30)
    <2> QED BY <2>1, <2>2 DEF SameButHot
  <1> QED BY <1>1 DEF Grows

\* The file h is g as long as f, its new pages blank.
Blanked(h, g, f) ==
    /\ h \in File /\ Len(h.pg) = Len(f.pg) /\ h.free = g.free
    /\ \A p \in DOMAIN g.pg : h.pg[p] = g.pg[p]
    /\ \A p \in DOMAIN f.pg \ DOMAIN g.pg : h.pg[p] = Blank(f.pg[p].kind)

\* A file that lags behind still does when the other grows.
LEMMA BehindGrows ==
  ASSUME NEW f, NEW g, NEW n \in Nat, Whole(f, n), Behind(g, f, n), Len(g.pg) = Len(f.pg),
         NEW f2, NEW n2 \in Nat, n <= n2, Whole(f2, n2), Grows(f, f2), NEW h, Blanked(h, g, f2)
  PROVE  Behind(h, f2, n2)
  <1>1. Whole(g, n) /\ DOMAIN g.pg = DOMAIN f.pg /\ DOMAIN h.pg = DOMAIN f2.pg /\ h.free = 0
        /\ \A p \in DOMAIN g.pg : p \in DOMAIN h.pg
    <2>1. Whole(g, n) /\ h \in File
      BY DEF Behind, Blanked
    <2>2. DOMAIN g.pg = 1..Len(g.pg) /\ DOMAIN f.pg = 1..Len(f.pg) /\ DOMAIN h.pg = 1..Len(h.pg)
          /\ DOMAIN f2.pg = 1..Len(f2.pg) /\ g.free = 0
      BY <2>1, FileFacts, WholeFacts
    <2>3. DOMAIN g.pg = DOMAIN f.pg /\ DOMAIN h.pg = DOMAIN f2.pg /\ h.free = 0
      BY <2>2 DEF Blanked
    <2>4. \A p \in DOMAIN f.pg : p \in DOMAIN f2.pg
      BY DEF Grows
    <2> QED BY <2>1, <2>3, <2>4
  <1>2. ASSUME NEW p \in DOMAIN h.pg
        PROVE  \/ p \in DOMAIN g.pg /\ h.pg[p] = g.pg[p]
               \/ p \notin DOMAIN g.pg /\ h.pg[p] = Blank(f2.pg[p].kind) /\ f2.pg[p].kind \in {"chat", "hot"}
    BY <1>1, WholeFacts DEF Blanked
  <1>3. ASSUME NEW kind \in {"chat", "hot"}
        PROVE  /\ Blank(kind).kind = kind /\ Blank(kind).chat = NoChat /\ Blank(kind).next = 0
               /\ Len(Blank(kind).items) = 0 /\ DOMAIN Blank(kind).items = {}
    BY DEF Blank
  <1>4. Whole(h, n2)
    <2>1. HotTrue(h)
      <3>1. HotTrue(g)
        BY <1>1, WholeFacts
      <3>2. HotRoot \in DOMAIN h.pg /\ h.pg[HotRoot].kind = "hot"
        BY <1>1, <3>1 DEF HotTrue, Blanked
      <3>3. ASSUME NEW p \in DOMAIN h.pg, h.pg[p].kind = "hot", h.pg[p].next # 0
            PROVE  h.pg[h.pg[p].next].kind = "hot"
        <4>1. p \in DOMAIN g.pg /\ h.pg[p] = g.pg[p]
          BY <1>2, <1>3, <3>3, SMTT(30)
        <4>2. g.pg[p].next \in DOMAIN g.pg
          <5>1. g \in File
            BY <1>1, WholeFacts
          <5>2. g.pg[p].next \in Nat /\ g.pg[p].next <= Len(g.pg) /\ Len(g.pg) \in Nat /\ DOMAIN g.pg = 1..Len(g.pg)
            BY <4>1, <5>1, FileFacts
          <5>3. g.pg[p].next # 0
            BY <3>3, <4>1
          <5> QED BY <5>2, <5>3
        <4>3. g.pg[g.pg[p].next].kind = "hot"
          BY <3>1, <3>3, <4>1 DEF HotTrue
        <4> QED BY <4>1, <4>2, <4>3 DEF Blanked
      <3> QED BY <3>2, <3>3 DEF HotTrue
    <2>2. ASSUME NEW p \in DOMAIN h.pg
          PROVE  h.pg[p].kind # "free" /\ OwnPage(h.pg[p], n2)
      <3>1. CASE p \in DOMAIN g.pg /\ h.pg[p] = g.pg[p]
        <4>1. g.pg[p].kind \in {"chat", "hot"} /\ OwnPage(g.pg[p], n)
          BY <1>1, <3>1, WholeFacts
        <4>2. 1..n \subseteq 1..n2
          OBVIOUS
        <4>3. \A c, x : x \in {c} \X (1..n) => x \in {c} \X (1..n2)
          BY <4>2
        <4>4. OwnPage(g.pg[p], n2)
          BY <4>1, <4>3, SMTT(30) DEF OwnPage
        <4> QED BY <3>1, <4>1, <4>4
      <3>2. CASE h.pg[p] = Blank(f2.pg[p].kind) /\ f2.pg[p].kind \in {"chat", "hot"}
        BY <1>3, <3>2 DEF OwnPage
      <3> QED BY <1>2, <3>1, <3>2
    <2>3. h \in File
      BY DEF Blanked
    <2> QED BY <1>1, <2>1, <2>2, <2>3, WholeIs
  <1>5. ASSUME NEW p \in DOMAIN f2.pg
        PROVE  p \in DOMAIN h.pg /\ h.pg[p].kind = f2.pg[p].kind
    <2>1. CASE p \in DOMAIN g.pg /\ h.pg[p] = g.pg[p]
      BY <1>1, <2>1 DEF Behind, Grows
    <2>2. CASE h.pg[p] = Blank(f2.pg[p].kind) /\ f2.pg[p].kind \in {"chat", "hot"}
      BY <1>1, <1>3, <2>2
    <2> QED BY <1>1, <1>2, <2>1, <2>2
  <1>6. ASSUME NEW p \in DOMAIN h.pg, h.pg[p].kind = "chat"
        PROVE  p \in DOMAIN f2.pg /\ h.pg[p].chat \in {NoChat, f2.pg[p].chat} /\ Prefix(h.pg[p].items, f2.pg[p].items)
    <2>1. p \in DOMAIN f2.pg /\ Len(f2.pg[p].items) \in Nat /\ DOMAIN f2.pg[p].items = 1..Len(f2.pg[p].items)
      BY <1>1, WholeFacts
    <2>2. CASE p \in DOMAIN g.pg /\ h.pg[p] = g.pg[p]
      <3>1. g.pg[p].kind = "chat"
        BY <1>6, <2>2
      <3>2. p \in DOMAIN f.pg /\ g.pg[p].chat \in {NoChat, f.pg[p].chat} /\ Prefix(g.pg[p].items, f.pg[p].items)
        BY <2>2, <3>1 DEF Behind
      <3>3. f.pg[p].kind = "chat"
        BY <3>1, <3>2 DEF Behind
      <3>4. f2.pg[p].chat = f.pg[p].chat /\ Prefix(f.pg[p].items, f2.pg[p].items)
        BY <3>2, <3>3 DEF Grows
      <3>5. PICK a, b, e : a = g.pg[p].items /\ b = f.pg[p].items /\ e = f2.pg[p].items
        OBVIOUS
      <3>6. /\ Len(a) \in Nat /\ DOMAIN a = 1..Len(a) /\ Len(b) \in Nat /\ DOMAIN b = 1..Len(b) /\ Len(e) \in Nat
        BY <1>1, <2>1, <2>2, <3>2, <3>5, WholeFacts, SMTT(30)
      <3>7. Prefix(a, b) /\ Prefix(b, e)
        BY <3>2, <3>4, <3>5
      <3>8. Prefix(a, e)
        BY <3>6, <3>7 DEF Prefix
      <3> QED BY <2>1, <2>2, <3>2, <3>4, <3>5, <3>8
    <2>3. CASE h.pg[p] = Blank(f2.pg[p].kind) /\ f2.pg[p].kind \in {"chat", "hot"}
      <3>1. Prefix(h.pg[p].items, f2.pg[p].items)
        BY <1>3, <2>1, <2>3 DEF Prefix
      <3> QED BY <1>3, <2>1, <2>3, <3>1
    <2> QED BY <1>2, <2>2, <2>3
  <1> QED BY <1>4, <1>5, <1>6 DEF Behind

-----------------------------------------------------------------------------
(* What the file lacks, the WAL has *)

\* The records of a store that does not trim.
Recs ==
    [type : {"insert"}, lsn : Nat, c : Chats, page : Nat, m : Nat]
    \cup [type : {"link"}, lsn : Nat, c : Chats, page : Nat, prev : Nat]
    \cup [type : {"set"}, lsn : Nat, k : Keys, v : Vals]
    \cup [type : {"del"}, lsn : Nat, k : Keys]
    \cup [type : {"checkpoint"}, lsn : Nat]

\* What a record says is so in the file f with the messages post.
RecTrue(rec, f, post) ==
    /\ rec.type = "insert" =>
          /\ rec.m \in DOMAIN post /\ rec.c = post[rec.m]
          /\ \E i : Spot(f, <<rec.c, rec.m>>, rec.page, i)
    /\ rec.type = "link" =>
          OfChat(f, rec.page, rec.c) /\ (rec.prev # 0 => OfChat(f, rec.prev, rec.c))

\* The records are true, and their numbers and messages ascend.
WalTrue(w, next, f, post) ==
    /\ w \in Seq(Recs)
    /\ \A i \in DOMAIN w : w[i].lsn < next /\ RecTrue(w[i], f, post)
    /\ \A i, j \in DOMAIN w : i < j =>
          /\ w[i].lsn < w[j].lsn
          /\ w[i].type = "insert" /\ w[j].type = "insert" => w[i].m < w[j].m

\* A record after the n-th that the checkpoint cp does not cover puts the message m.
ToRedo(w, cp, m, n) ==
    \E j \in DOMAIN w : j > n /\ w[j].type = "insert" /\ w[j].m = m /\ ~Covered(w[j], cp)

\* The file d lags behind f by what the WAL has.
Written(d, w, cp, f, post) ==
    /\ Behind(d, f, Len(post)) /\ Len(d.pg) = Len(f.pg)
    /\ \A m \in DOMAIN post :
          ToRedo(w, cp, m, 0) \/ \E p, i : Spot(f, <<post[m], m>>, p, i) /\ i \in DOMAIN d.pg[p].items

\* So does the index of the snapshot, where it is used.
Snapped(sn, w, cp, f, post) ==
    /\ sn.index = [c \in Chats |-> sn.index[c]]
    /\ sn.cp = cp =>
          \/ \A c \in Chats : sn.index[c] = {}
          \/ \A m \in DOMAIN post :
                ToRedo(w, cp, m, 0) \/ \E p, i : Spot(f, <<post[m], m>>, p, i) /\ <<m, p, i>> \in sn.index[post[m]]

\* How far the checkpoint has come.
Checking ==
    /\ lsn \in Nat /\ meta.cp \in Nat /\ snap.cp \in Nat /\ meta.cp <= lsn /\ snap.cp <= lsn
    /\ op.at \in {"index", "meta", "rotate"} => disk = mem
    /\ op.at \in {"index", "meta"} => meta.cp < lsn
    /\ op.at \in {"meta", "rotate"} => snap.cp = lsn /\ snap.index = index
    /\ op.at = "rotate" => meta.cp = lsn

\* The store can be killed now.
Recoverable ==
    /\ WalTrue(wal, lsn, mem, posted)
    /\ Written(disk, wal, meta.cp, mem, posted)
    /\ Snapped(snap, wal, meta.cp, mem, posted)
    /\ Checking

\* A page that was taken for a message has room for it.
OpHolds ==
    /\ op \in Ops
    /\ op.at = "link" => OfChat(mem, op.page, op.c) /\ mem.pg[op.page].items = <<>>
    /\ op.at = "insert" => tips[op.c].tail # 0 /\ Room(mem.pg[tips[op.c].tail])

\* The invariant.
CrashInv ==
    /\ posted \in Seq(Chats) /\ Filed(Loaded, posted) /\ OpHolds
    /\ lsn \in Nat /\ meta.lsn \in Nat
    /\ lives \in {0, 1} /\ (lives = 0 => Recoverable)

\* A record stays true.
LEMMA RecGrows ==
  ASSUME NEW f, NEW n, Whole(f, n), NEW g, NEW m, Whole(g, m), Grows(f, g),
         NEW post, NEW more, \A i \in DOMAIN post : i \in DOMAIN more /\ more[i] = post[i],
         NEW rec, RecTrue(rec, f, post)
  PROVE  RecTrue(rec, g, more)
  <1>1. \A p, c : OfChat(f, p, c) => OfChat(g, p, c)
    BY DEF OfChat, Grows
  <1>2. \A x, p, i : Spot(f, x, p, i) => Spot(g, x, p, i)
    BY SpotGrows
  <1> QED BY <1>1, <1>2 DEF RecTrue

\* A record more.
LEMMA WalMore ==
  ASSUME NEW w, NEW next \in Nat, NEW f, NEW n, Whole(f, n), NEW g, NEW m, Whole(g, m), Grows(f, g),
         NEW post, NEW more, \A i \in DOMAIN post : i \in DOMAIN more /\ more[i] = post[i],
         WalTrue(w, next, f, post), NEW rec \in Recs, rec.lsn = next, RecTrue(rec, g, more),
         rec.type = "insert" => \A i \in DOMAIN post : i < rec.m
  PROVE  WalTrue(Append(w, rec), next + 1, g, more)
  <1> DEFINE v == Append(w, rec)
  <1>1. w \in Seq(Recs) /\ Len(w) \in Nat /\ DOMAIN w = 1..Len(w)
    BY SMTT(60) DEF WalTrue
  <1>2. PICK L \in Nat : L = Len(w)
    BY <1>1
  <1>3. v \in Seq(Recs) /\ DOMAIN v = 1..(L + 1) /\ v[L + 1] = rec /\ \A i \in 1..L : v[i] = w[i] /\ i \in DOMAIN w
    BY <1>1, <1>2
  <1> HIDE DEF v
  <1>4. \A i \in 1..(L + 1) : i \in 1..L \/ i = L + 1
    OBVIOUS
  <1>5. \A i \in DOMAIN w : w[i].lsn \in Nat /\ w[i].lsn < next /\ RecTrue(w[i], f, post)
    BY <1>1 DEF WalTrue, Recs
  <1>6. ASSUME NEW i \in 1..L
        PROVE  v[i].lsn < next + 1 /\ RecTrue(v[i], g, more)
    <2>1. v[i] = w[i] /\ w[i].lsn \in Nat /\ w[i].lsn < next /\ RecTrue(w[i], f, post)
      BY <1>3, <1>5
    <2>2. RecTrue(w[i], g, more)
      BY <2>1, RecGrows, Zenon
    <2> QED BY <2>1, <2>2
  <1>7. \A i \in DOMAIN v : v[i].lsn < next + 1 /\ RecTrue(v[i], g, more)
    BY <1>3, <1>4, <1>6
  <1>8. ASSUME NEW i \in DOMAIN v, NEW j \in DOMAIN v, i < j
        PROVE  /\ v[i].lsn < v[j].lsn
               /\ v[i].type = "insert" /\ v[j].type = "insert" => v[i].m < v[j].m
    <2>1. i \in 1..L
      BY <1>3, <1>8
    <2>2. CASE j \in 1..L
      BY <1>3, <1>8, <2>1, <2>2 DEF WalTrue
    <2>3. CASE j = L + 1
      <3>1. v[i].type = "insert" => v[i].m \in DOMAIN post
        BY <1>3, <1>5, <2>1 DEF RecTrue
      <3> QED BY <1>3, <1>5, <2>1, <2>3, <3>1
    <2> QED BY <1>3, <1>4, <2>2, <2>3
  <1>9. WalTrue(v, next + 1, g, more)
    BY <1>3, <1>7, <1>8 DEF WalTrue
  <1> QED BY <1>9 DEF v

\* What is to be redone still is when there is a record more.
LEMMA RedoMore ==
  ASSUME NEW S, NEW w \in Seq(S), NEW cp, NEW rec
  PROVE  /\ \A m : ToRedo(w, cp, m, 0) => ToRedo(Append(w, rec), cp, m, 0)
         /\ rec.type = "insert" /\ ~Covered(rec, cp) => ToRedo(Append(w, rec), cp, rec.m, 0)
  <1>1. PICK L \in Nat : L = Len(w) /\ DOMAIN w = 1..L
    OBVIOUS
  <1>2. PICK v : v = Append(w, rec)
    OBVIOUS
  <1>3. DOMAIN v = 1..(L + 1) /\ v[L + 1] = rec /\ \A i \in 1..L : v[i] = w[i]
    BY <1>1, <1>2
  <1>4. \A i \in 1..L : i \in 1..(L + 1) /\ i > 0
    OBVIOUS
  <1>5. L + 1 \in 1..(L + 1) /\ L + 1 > 0
    OBVIOUS
  <1>6. \A m : ToRedo(w, cp, m, 0) => ToRedo(v, cp, m, 0)
    BY <1>1, <1>3, <1>4 DEF ToRedo
  <1>7. rec.type = "insert" /\ ~Covered(rec, cp) => ToRedo(v, cp, rec.m, 0)
    BY <1>3, <1>5 DEF ToRedo
  <1> QED BY <1>2, <1>6, <1>7

\* The messages there are, and perhaps a new one.
Posts(rec) ==
    IF rec.type = "insert" THEN posted' = Append(posted, rec.c) /\ rec.m = Len(posted) + 1 ELSE posted' = posted

\* An operation that logs a record leaves the store recoverable.
LEMMA LoggedRecoverable ==
  ASSUME posted \in Seq(Chats), Filed(Loaded, posted), Recoverable,
         op.at \in {"idle", "link", "insert"}, op'.at \in {"idle", "link", "insert"},
         UNCHANGED <<meta, snap>>, NEW rec \in Recs, rec.lsn = lsn, wal' = Append(wal, rec), lsn' = lsn + 1, Posts(rec),
         Whole(mem', Len(posted')), Grows(mem, mem'), Blanked(disk', disk, mem'), RecTrue(rec, mem', posted')
  PROVE  Recoverable'
  <1>1. PICK n \in Nat : n = Len(posted) /\ DOMAIN posted = 1..n
    OBVIOUS
  <1>2. /\ DOMAIN posted' = (IF rec.type = "insert" THEN 1..(n + 1) ELSE 1..n)
        /\ Len(posted') = (IF rec.type = "insert" THEN n + 1 ELSE n)
        /\ \A i \in DOMAIN posted : i \in DOMAIN posted' /\ posted'[i] = posted[i]
    BY <1>1 DEF Posts
  <1>3. \A m \in DOMAIN posted' : m \in DOMAIN posted \/ (rec.type = "insert" /\ m = rec.m)
    BY <1>1, <1>2 DEF Posts
  <1>4. Whole(mem, n) /\ Loaded.f = mem
    BY <1>1 DEF Filed, Loaded
  <1>5. lsn \in Nat /\ meta.cp \in Nat /\ meta.cp <= lsn /\ snap.cp \in Nat /\ snap.cp <= lsn
    BY DEF Recoverable, Checking
  <1>6. PICK w \in Seq(Recs) : w = wal
    BY DEF Recoverable, WalTrue
  <1>7. WalTrue(wal, lsn, mem, posted)'
    <2>1. WalTrue(w, lsn, mem, posted)
      BY <1>6 DEF Recoverable
    <2>2. rec.type = "insert" => \A i \in DOMAIN posted : i < rec.m
      BY <1>1 DEF Posts
    <2>3. WalTrue(Append(w, rec), lsn + 1, mem', posted')
      BY <1>2, <1>4, <1>5, <2>1, <2>2, WalMore
    <2> QED BY <1>6, <2>3
  <1>8. /\ \A m \in DOMAIN posted : ToRedo(wal, meta.cp, m, 0) => ToRedo(wal', meta'.cp, m, 0)
        /\ rec.type = "insert" => ToRedo(wal', meta'.cp, rec.m, 0)
    <2>1. ~Covered(rec, meta.cp)
      BY <1>5 DEF Covered
    <2> QED BY <1>6, <2>1, RedoMore
  <1>9. \A x, p, i : Spot(mem, x, p, i) => Spot(mem', x, p, i)
    BY <1>4, SpotGrows
  <1>10. Written(disk, wal, meta.cp, mem, posted)'
    <2>1. Behind(disk, mem, n) /\ Len(disk.pg) = Len(mem.pg)
      BY <1>1 DEF Recoverable, Written
    <2>2. n <= Len(posted') /\ Len(posted') \in Nat
      BY <1>2
    <2>3. Behind(disk', mem', Len(posted'))
      BY <1>4, <2>1, <2>2, BehindGrows
    <2>4. Len(disk'.pg) = Len(mem'.pg)
      BY DEF Blanked
    <2>5. ASSUME NEW m \in DOMAIN posted'
          PROVE  \/ ToRedo(wal', meta'.cp, m, 0)
                 \/ \E p, i : Spot(mem', <<posted'[m], m>>, p, i) /\ i \in DOMAIN disk'.pg[p].items
      <3>1. CASE m \in DOMAIN posted
        <4>1. ASSUME NEW p, NEW i, Spot(mem, <<posted[m], m>>, p, i), i \in DOMAIN disk.pg[p].items
              PROVE  Spot(mem', <<posted'[m], m>>, p, i) /\ i \in DOMAIN disk'.pg[p].items
          <5>1. p \in DOMAIN disk.pg
            BY <2>1, <4>1 DEF Behind, Spot
          <5> QED BY <1>2, <1>9, <3>1, <4>1, <5>1 DEF Blanked
        <4> QED BY <1>8, <3>1, <4>1 DEF Recoverable, Written
      <3>2. CASE rec.type = "insert" /\ m = rec.m
        BY <1>8, <3>2
      <3> QED BY <1>3, <3>1, <3>2
    <2> QED BY <2>3, <2>4, <2>5 DEF Written
  <1>11. Snapped(snap, wal, meta.cp, mem, posted)'
    <2>1. Snapped(snap, wal, meta.cp, mem, posted)
      BY DEF Recoverable
    <2>2. ASSUME \A m \in DOMAIN posted :
                    \/ ToRedo(wal, meta.cp, m, 0)
                    \/ \E p, i : Spot(mem, <<posted[m], m>>, p, i) /\ <<m, p, i>> \in snap.index[posted[m]],
                 NEW m \in DOMAIN posted'
          PROVE  \/ ToRedo(wal', meta'.cp, m, 0)
                 \/ \E p, i : Spot(mem', <<posted'[m], m>>, p, i) /\ <<m, p, i>> \in snap.index[posted'[m]]
      BY <1>2, <1>3, <1>8, <1>9, <2>2
    <2> QED BY <2>1, <2>2 DEF Snapped
  <1>12. Checking'
    BY <1>5, SMTT(30) DEF Checking
  <1> QED BY <1>7, <1>10, <1>11, <1>12 DEF Recoverable

-----------------------------------------------------------------------------
(* What the operations and the replay do to such files *)

\* The chat pages of g have the tuples and the kind they have in f, and hot pages are the same.
SameTuples(g, f) ==
    /\ DOMAIN g.pg = DOMAIN f.pg /\ Len(g.pg) = Len(f.pg)
    /\ \A q \in DOMAIN f.pg :
          /\ g.pg[q].kind = f.pg[q].kind /\ g.pg[q].items = f.pg[q].items
          /\ f.pg[q].kind = "hot" => g.pg[q] = f.pg[q]

\* A page is given its chat.
Marked(f, p, c) == [f EXCEPT !.pg[p].kind = "chat", !.pg[p].chat = c]

LEMMA MarkEffect ==
  ASSUME NEW f, NEW n, Whole(f, n), NEW p \in DOMAIN f.pg, f.pg[p].kind = "chat", NEW c \in Chats,
         f.pg[p].chat = c \/ f.pg[p].items = <<>>
  PROVE  LET g == Marked(f, p, c)
         IN  /\ Whole(g, n) /\ SameTuples(g, f)
             /\ \A q \in DOMAIN f.pg : g.pg[q].chat = IF q = p THEN c ELSE f.pg[q].chat
  <1> DEFINE g == Marked(f, p, c)
  <1>1. f \in File /\ f.free = 0 /\ HotTrue(f) /\ f.pg[p] \in Page /\ OwnPage(f.pg[p], n)
    BY WholeFacts
  <1>2. /\ f = [pg |-> f.pg, free |-> f.free] /\ f.pg \in Seq(Page)
        /\ f.pg[p].next <= Len(f.pg) /\ Len(f.pg[p].items) <= Size("chat")
    BY <1>1, FileFacts
  <1>3. PICK page : page = [f.pg[p] EXCEPT !.chat = c]
    OBVIOUS
  <1>4. /\ page \in Page /\ page.kind = "chat" /\ page.chat = c /\ page.next = f.pg[p].next
        /\ page.items = f.pg[p].items
    BY <1>1, <1>3 DEF Page
  <1>5. g = [f EXCEPT !.pg[p] = page]
    <2>1. [[f.pg[p] EXCEPT !.kind = "chat"] EXCEPT !.chat = c] = page
      BY <1>1, <1>3 DEF Page
    <2>2. [f.pg EXCEPT ![p].kind = "chat", ![p].chat = c] = [f.pg EXCEPT ![p] = page]
      BY <1>2, <2>1
    <2> QED BY <1>2, <2>2 DEF Marked
  <1>6. g \in File /\ Writes(g, f, p, page)
    <2>1. f \in File /\ p \in DOMAIN f.pg /\ page \in Page
      BY <1>1, <1>4
    <2>2. page.next <= Len(f.pg) /\ Len(page.items) <= Size(page.kind)
      BY <1>2, <1>4
    <2> HIDE DEF g
    <2> QED BY <1>5, <2>1, <2>2, WriteEffect, Zenon
  <1> HIDE DEF g
  <1>7. SameTuples(g, f) /\ \A q \in DOMAIN f.pg : g.pg[q].chat = (IF q = p THEN c ELSE f.pg[q].chat) /\ g.pg[q].next = f.pg[q].next
    BY <1>4, <1>6 DEF SameTuples, Writes
  <1>8. Whole(g, n)
    <2>1. g.free = 0
      BY <1>1, <1>6 DEF Writes
    <2>2. HotTrue(g)
      <3>1. ASSUME NEW q \in DOMAIN g.pg, g.pg[q].kind = "hot", g.pg[q].next # 0
            PROVE  g.pg[g.pg[q].next].kind = "hot"
        <4>1. q \in DOMAIN f.pg /\ f.pg[q].kind = "hot" /\ f.pg[q].next # 0 /\ g.pg[q].next = f.pg[q].next
          BY <1>7, <3>1 DEF SameTuples
        <4>2. f.pg[q].next \in DOMAIN f.pg
          <5>1. f.pg[q].next \in Nat /\ f.pg[q].next <= Len(f.pg) /\ Len(f.pg) \in Nat /\ DOMAIN f.pg = 1..Len(f.pg)
            BY <1>1, <4>1, FileFacts
          <5> QED BY <4>1, <5>1
        <4>3. f.pg[f.pg[q].next].kind = "hot"
          BY <1>1, <4>1 DEF HotTrue
        <4> QED BY <1>7, <4>1, <4>2, <4>3 DEF SameTuples
      <3> QED BY <1>1, <1>7, <3>1 DEF HotTrue, SameTuples
    <2>3. ASSUME NEW q \in DOMAIN g.pg
          PROVE  g.pg[q].kind # "free" /\ OwnPage(g.pg[q], n)
      <3>1. q \in DOMAIN f.pg /\ f.pg[q].kind \in {"chat", "hot"} /\ OwnPage(f.pg[q], n)
        BY <1>7, WholeFacts DEF SameTuples
      <3>2. CASE q = p
        <4>1. \A i \in DOMAIN f.pg[p].items : f.pg[p].items[i] \in {c} \X (1..n)
          <5>1. CASE f.pg[p].chat = c
            BY <1>1, <5>1 DEF OwnPage
          <5>2. CASE f.pg[p].items = <<>>
            BY <5>2
          <5> QED BY <5>1, <5>2
        <4> QED BY <1>4, <1>6, <3>2, <4>1 DEF OwnPage, Writes
      <3>3. CASE q # p
        BY <1>6, <3>1, <3>3 DEF Writes
      <3> QED BY <3>2, <3>3
    <2> QED BY <1>6, <2>1, <2>2, <2>3, WholeIs
  <1> QED BY <1>7, <1>8 DEF g

\* A chat page is linked from another.
Onto(f, q, p) == [f EXCEPT !.pg[q].next = p]

LEMMA OntoEffect ==
  ASSUME NEW f, NEW n, Whole(f, n), NEW p \in DOMAIN f.pg, NEW q \in DOMAIN f.pg, f.pg[q].kind = "chat"
  PROVE  LET g == Onto(f, q, p)
         IN  /\ Whole(g, n) /\ SameTuples(g, f)
             /\ \A z \in DOMAIN f.pg : g.pg[z].chat = f.pg[z].chat
  <1> DEFINE g == Onto(f, q, p)
  <1> DEFINE page == [f.pg[q] EXCEPT !.next = p]
  <1>1. f \in File /\ f.free = 0 /\ HotTrue(f) /\ f.pg[q] \in Page
    BY WholeFacts
  <1>2. g \in File /\ Writes(g, f, q, page)
    BY <1>1, LinkEffect DEF Onto
  <1>3. page.kind = "chat" /\ page.chat = f.pg[q].chat /\ page.items = f.pg[q].items
    BY <1>1 DEF Page
  <1> HIDE DEF g, page
  <1>4. SameTuples(g, f) /\ \A z \in DOMAIN f.pg : g.pg[z].chat = f.pg[z].chat
    BY <1>2, <1>3 DEF SameTuples, Writes
  <1>5. Whole(g, n)
    <2>1. g.free = 0
      BY <1>1, <1>2 DEF Writes
    <2>2. HotTrue(g)
      <3>1. ASSUME NEW z \in DOMAIN g.pg, g.pg[z].kind = "hot", g.pg[z].next # 0
            PROVE  g.pg[g.pg[z].next].kind = "hot"
        <4>1. z \in DOMAIN f.pg /\ f.pg[z].kind = "hot" /\ f.pg[z].next # 0 /\ g.pg[z].next = f.pg[z].next
          BY <1>4, <3>1 DEF SameTuples
        <4>2. f.pg[z].next \in DOMAIN f.pg
          <5>1. f.pg[z].next \in Nat /\ f.pg[z].next <= Len(f.pg) /\ Len(f.pg) \in Nat /\ DOMAIN f.pg = 1..Len(f.pg)
            BY <1>1, <4>1, FileFacts
          <5> QED BY <4>1, <5>1
        <4>3. f.pg[f.pg[z].next].kind = "hot"
          BY <1>1, <4>1, SMTT(30) DEF HotTrue
        <4> QED BY <1>4, <4>1, <4>2, <4>3 DEF SameTuples
      <3> QED BY <1>1, <1>4, <3>1, SMTT(30) DEF HotTrue, SameTuples
    <2>3. ASSUME NEW z \in DOMAIN g.pg
          PROVE  g.pg[z].kind # "free" /\ OwnPage(g.pg[z], n)
      <3>1. z \in DOMAIN f.pg /\ f.pg[z].kind \in {"chat", "hot"} /\ OwnPage(f.pg[z], n)
        BY <1>4, WholeFacts DEF SameTuples
      <3> QED BY <1>4, <3>1, SMTT(30) DEF OwnPage, SameTuples
    <2> QED BY <1>2, <2>1, <2>2, <2>3, WholeIs
  <1> QED BY <1>4, <1>5 DEF g

\* The message m of the chat c is put on the page p.
PutOn(g, f, p, c, m, n) ==
    /\ Whole(g, n) /\ DOMAIN g.pg = DOMAIN f.pg /\ Len(g.pg) = Len(f.pg)
    /\ g.pg[p].items = Append(f.pg[p].items, <<c, m>>) /\ g.pg[p].chat = c /\ g.pg[p].kind = "chat"
    /\ \A q \in DOMAIN f.pg : q # p => g.pg[q] = f.pg[q]

LEMMA PutWhole ==
  ASSUME NEW f, NEW n \in Nat, Whole(f, n), NEW c \in Chats, NEW p, OfChat(f, p, c), Room(f.pg[p]),
         NEW n2 \in Nat, n <= n2, NEW m \in 1..n2
  PROVE  PutOn(Put(f, p, <<c, m>>), f, p, c, m, n2)
  <1> DEFINE g == Put(f, p, <<c, m>>)
  <1> DEFINE page == [f.pg[p] EXCEPT !.items = Append(@, <<c, m>>)]
  <1>1. /\ p \in DOMAIN f.pg /\ f.pg[p].kind = "chat" /\ f.pg[p].chat = c /\ f \in File /\ f.free = 0 /\ HotTrue(f)
        /\ f.pg[p] \in Page /\ OwnPage(f.pg[p], n) /\ f.pg[p].items \in Seq(Tuple)
    BY WholeFacts DEF OfChat
  <1>2. <<c, m>> \in Tuple
    BY DEF Tuple
  <1>3. g \in File /\ Writes(g, f, p, page)
    BY <1>1, <1>2, PutEffect
  <1>4. /\ page.kind = "chat" /\ page.chat = c /\ page.next = f.pg[p].next
        /\ page.items = Append(f.pg[p].items, <<c, m>>)
    BY <1>1, ZenonT(60) DEF Page
  <1>5. \A i \in DOMAIN page.items : page.items[i] \in {c} \X (1..n2)
    <2>1. PICK a \in Seq(Tuple) : a = f.pg[p].items /\ page.items = Append(a, <<c, m>>)
      BY <1>1, <1>4
    <2>2. 1..n \subseteq 1..n2
      OBVIOUS
    <2>3. \A i \in DOMAIN a : a[i] \in {c} \X (1..n2)
      BY <1>1, <2>1, <2>2 DEF OwnPage
    <2>4. PICK L \in Nat : L = Len(a) /\ DOMAIN a = 1..L
      OBVIOUS
    <2>5. PICK b : b = Append(a, <<c, m>>)
      OBVIOUS
    <2>6. DOMAIN b = 1..(L + 1) /\ b[L + 1] = <<c, m>> /\ \A i \in 1..L : b[i] = a[i]
      BY <2>4, <2>5
    <2>7. \A i \in 1..(L + 1) : i = L + 1 \/ i \in 1..L
      OBVIOUS
    <2>8. <<c, m>> \in {c} \X (1..n2)
      BY SMTT(30)
    <2> QED BY <2>1, <2>3, <2>4, <2>5, <2>6, <2>7, <2>8, ZenonT(60)
  <1> HIDE DEF g, page
  <1>6. g.free = 0 /\ DOMAIN g.pg = DOMAIN f.pg /\ Len(g.pg) = Len(f.pg)
        /\ \A q \in DOMAIN f.pg : g.pg[q].kind = f.pg[q].kind /\ g.pg[q].next = f.pg[q].next
    BY <1>1, <1>3, <1>4 DEF Writes
  <1>7. HotTrue(g)
    <2>1. ASSUME NEW z \in DOMAIN g.pg, g.pg[z].kind = "hot", g.pg[z].next # 0
          PROVE  g.pg[g.pg[z].next].kind = "hot"
      <3>1. z \in DOMAIN f.pg /\ f.pg[z].kind = "hot" /\ f.pg[z].next # 0 /\ g.pg[z].next = f.pg[z].next
        BY <1>6, <2>1
      <3>2. f.pg[z].next \in DOMAIN f.pg
        <4>1. f.pg[z].next \in Nat /\ f.pg[z].next <= Len(f.pg) /\ Len(f.pg) \in Nat /\ DOMAIN f.pg = 1..Len(f.pg)
          BY <1>1, <3>1, FileFacts
        <4> QED BY <3>1, <4>1
      <3>3. f.pg[f.pg[z].next].kind = "hot"
        BY <1>1, <3>1 DEF HotTrue
      <3> QED BY <1>6, <3>1, <3>2, <3>3
    <2> QED BY <1>1, <1>6, <2>1, SMTT(30) DEF HotTrue
  <1>8. ASSUME NEW q \in DOMAIN g.pg
        PROVE  g.pg[q].kind # "free" /\ OwnPage(g.pg[q], n2)
    <2>1. q \in DOMAIN f.pg /\ f.pg[q].kind \in {"chat", "hot"} /\ OwnPage(f.pg[q], n)
      BY <1>6, WholeFacts, SMTT(30)
    <2>2. CASE q = p
      BY <1>3, <1>4, <1>5, <2>1, <2>2 DEF OwnPage, Writes
    <2>3. CASE q # p
      <3>1. 1..n \subseteq 1..n2
        OBVIOUS
      <3>2. \A d, x : x \in {d} \X (1..n) => x \in {d} \X (1..n2)
        BY <3>1
      <3>3. OwnPage(f.pg[q], n2)
        BY <2>1, <3>2 DEF OwnPage
      <3> QED BY <1>3, <2>1, <2>3, <3>3 DEF Writes
    <2> QED BY <2>2, <2>3
  <1>9. Whole(g, n2)
    BY <1>3, <1>6, <1>7, <1>8, WholeIs, ZenonT(60)
  <1>10. /\ g.pg[p].items = Append(f.pg[p].items, <<c, m>>) /\ g.pg[p].chat = c /\ g.pg[p].kind = "chat"
         /\ \A q \in DOMAIN f.pg : q # p => g.pg[q] = f.pg[q]
    BY <1>1, <1>3, <1>4, ZenonT(60) DEF Writes
  <1>11. PutOn(g, f, p, c, m, n2)
    BY <1>6, <1>9, <1>10 DEF PutOn
  <1> QED BY <1>11 DEF g

\* A page is linked, or linked again, to its chat.
LinkedTo(r, s, c, p, n) ==
    /\ IsMemory(r) /\ Whole(r.f, n) /\ TailsOwn(r.f, r.tips) /\ r.tips[c].tail = p
    /\ r.index = s.index /\ r.hotAt = s.hotAt /\ r.cp = s.cp
    /\ SameTuples(r.f, s.f)
    /\ \A q \in DOMAIN s.f.pg : r.f.pg[q].chat = IF q = p THEN c ELSE s.f.pg[q].chat

LEMMA LinkKeeps ==
  ASSUME NEW s, IsMemory(s), NEW n, Whole(s.f, n), TailsOwn(s.f, s.tips), NEW c \in Chats,
         NEW p \in DOMAIN s.f.pg, s.f.pg[p].kind = "chat",
         s.f.pg[p].chat = c \/ (s.f.pg[p].chat = NoChat /\ s.f.pg[p].items = <<>>),
         NEW prev, prev # 0 => prev \in DOMAIN s.f.pg /\ s.f.pg[prev].kind = "chat"
  PROVE  LinkedTo(LinkPage(s, c, p, prev), s, c, p, n)
  <1> DEFINE b == NewTail(s, c, p)
  <1> DEFINE r == LinkPage(s, c, p, prev)
  <1>1. PICK g : g = Marked(s.f, p, c)
    OBVIOUS
  <1>2. Whole(g, n) /\ SameTuples(g, s.f) /\ \A q \in DOMAIN s.f.pg : g.pg[q].chat = IF q = p THEN c ELSE s.f.pg[q].chat
    <2>1. LET d == Marked(s.f, p, c)
          IN  /\ Whole(d, n) /\ SameTuples(d, s.f)
              /\ \A q \in DOMAIN s.f.pg : d.pg[q].chat = IF q = p THEN c ELSE s.f.pg[q].chat
      BY MarkEffect
    <2> QED BY <1>1, <2>1, Zenon
  <1>3. PICK T : T = [s.tips[c] EXCEPT !.head = IF @ = 0 THEN p ELSE @, !.tail = p]
    OBVIOUS
  <1>4. T = [head |-> T.head, tail |-> T.tail, count |-> T.count] /\ T.tail = p
    <2>1. PICK x, y, k : s.tips[c] = [head |-> x, tail |-> y, count |-> k]
      BY ZenonT(90) DEF TailsOwn
    <2>2. PICK U : U = s.tips[c]
      OBVIOUS
    <2>3. U = [head |-> x, tail |-> y, count |-> k]
      BY <2>1, <2>2
    <2>4. PICK h : h = IF x = 0 THEN p ELSE x
      OBVIOUS
    <2>5. T = [[U EXCEPT !.head = h] EXCEPT !.tail = p]
      BY <1>3, <2>2, <2>3, <2>4
    <2>6. [U EXCEPT !.head = h] = [head |-> h, tail |-> y, count |-> k]
      BY <2>3
    <2>7. T = [head |-> h, tail |-> p, count |-> k]
      BY <2>5, <2>6
    <2> QED BY <2>7
  <1>5. b = [s EXCEPT !.f = g, !.tips[c] = T]
    <2> DEFINE S1 == [s EXCEPT !.f.pg[p].kind = "chat", !.f.pg[p].chat = c]
    <2> DEFINE S2 == [S1 EXCEPT !.tips[c].head = IF @ = 0 THEN p ELSE @]
    <2>1. b = [S2 EXCEPT !.tips[c].tail = p]
      BY DEF NewTail
    <2>2. PICK F, U, I, H, R, C : /\ s = [f |-> F, tips |-> U, index |-> I, hotAt |-> H, ring |-> R, cp |-> C]
                                  /\ F = s.f /\ U = s.tips /\ I = s.index /\ H = s.hotAt /\ R = s.ring /\ C = s.cp
      BY Zenon DEF IsMemory
    <2>3. g = [s.f EXCEPT !.pg[p].kind = "chat", !.pg[p].chat = c]
      BY <1>1, Zenon DEF Marked
    <2>4. S1 = [f |-> g, tips |-> U, index |-> I, hotAt |-> H, ring |-> R, cp |-> C]
      <3>1. PICK K : K = [s EXCEPT !.f.pg[p].kind = "chat"]
        OBVIOUS
      <3>2. PICK G : G = [F EXCEPT !.pg[p].kind = "chat"]
        OBVIOUS
      <3>3. K = [f |-> G, tips |-> U, index |-> I, hotAt |-> H, ring |-> R, cp |-> C]
        BY <2>2, <3>1, <3>2
      <3>4. g = [G EXCEPT !.pg[p].chat = c]
        BY <2>2, <2>3, <3>2
      <3>5. S1 = [K EXCEPT !.f.pg[p].chat = c]
        BY <3>1
      <3> HIDE DEF S1
      <3> QED BY <3>3, <3>4, <3>5
    <2> HIDE DEF b, S1
    <2>5. PICK T1 : T1 = [s.tips EXCEPT ![c].head = IF @ = 0 THEN p ELSE @]
      OBVIOUS
    <2>6. [T1 EXCEPT ![c].tail = p] = [s.tips EXCEPT ![c] = T]
      BY <1>3, <2>5 DEF IsMemory
    <2>7. S2 = [f |-> g, tips |-> T1, index |-> I, hotAt |-> H, ring |-> R, cp |-> C]
      BY <2>2, <2>4, <2>5
    <2> HIDE DEF S2
    <2>8. b = [f |-> g, tips |-> [T1 EXCEPT ![c].tail = p], index |-> I, hotAt |-> H, ring |-> R, cp |-> C]
      BY <2>1, <2>7
    <2>9. [s EXCEPT !.f = g, !.tips[c] = T]
          = [f |-> g, tips |-> [U EXCEPT ![c] = T], index |-> I, hotAt |-> H, ring |-> R, cp |-> C]
      <3>1. PICK K : K = [s EXCEPT !.f = g]
        OBVIOUS
      <3>2. K = [f |-> g, tips |-> U, index |-> I, hotAt |-> H, ring |-> R, cp |-> C]
        BY <2>2, <3>1
      <3>3. [s EXCEPT !.f = g, !.tips[c] = T] = [K EXCEPT !.tips[c] = T]
        BY <3>1
      <3> QED BY <3>2, <3>3
    <2> QED BY <2>2, <2>6, <2>8, <2>9
  <1> HIDE DEF b
  <1>6. /\ b.f = g /\ b.tips = [s.tips EXCEPT ![c] = T] /\ b.index = s.index /\ b.hotAt = s.hotAt
        /\ b.ring = s.ring /\ b.cp = s.cp
        /\ b = [f |-> b.f, tips |-> b.tips, index |-> b.index, hotAt |-> b.hotAt, ring |-> b.ring, cp |-> b.cp]
    BY <1>5 DEF IsMemory
  <1>7. PICK h : /\ r.f = h /\ Whole(h, n) /\ SameTuples(h, g) /\ \A q \in DOMAIN g.pg : h.pg[q].chat = g.pg[q].chat
                 /\ r.tips = b.tips /\ r.index = b.index /\ r.hotAt = b.hotAt /\ r.ring = b.ring /\ r.cp = b.cp
                 /\ r = [f |-> r.f, tips |-> r.tips, index |-> r.index, hotAt |-> r.hotAt, ring |-> r.ring, cp |-> r.cp]
    <2>1. CASE prev = 0
      <3>1. r = b
        BY <2>1 DEF LinkPage, b
      <3>2. SameTuples(g, g)
        BY DEF SameTuples
      <3> HIDE DEF r
      <3> QED BY <1>2, <1>6, <3>1, <3>2
    <2>2. CASE prev # 0
      <3>1. prev \in DOMAIN g.pg /\ g.pg[prev].kind = "chat" /\ p \in DOMAIN g.pg
        BY <1>2, <2>2 DEF SameTuples
      <3>2. PICK h : h = Onto(g, prev, p)
        OBVIOUS
      <3>3. Whole(h, n) /\ SameTuples(h, g) /\ \A q \in DOMAIN g.pg : h.pg[q].chat = g.pg[q].chat
        BY <1>2, <3>1, <3>2, OntoEffect
      <3>4. r = [b EXCEPT !.f = h]
        <4>1. r = [b EXCEPT !.f.pg[prev].next = p]
          BY <2>2 DEF LinkPage, b
        <4> QED BY <1>6, <3>2, <4>1 DEF Onto
      <3> HIDE DEF r
      <3> QED BY <1>6, <3>3, <3>4
    <2> QED BY <2>1, <2>2
  <1> HIDE DEF r
  <1>8. r.tips = [s.tips EXCEPT ![c] = T]
    BY <1>6, <1>7, SMTT(30)
  <1>9. IsMemory(r)
    BY <1>6, <1>7, <1>8, SMTT(30) DEF IsMemory
  <1>10. SameTuples(h, s.f) /\ \A q \in DOMAIN s.f.pg : h.pg[q].chat = IF q = p THEN c ELSE s.f.pg[q].chat
    BY <1>2, <1>7 DEF SameTuples
  <1>11. r.tips[c] = T /\ \A d \in Chats : d # c => r.tips[d] = s.tips[d]
    BY <1>8 DEF IsMemory
  <1>12. ASSUME NEW d \in Chats
         PROVE  /\ r.tips[d] = [head |-> r.tips[d].head, tail |-> r.tips[d].tail, count |-> r.tips[d].count]
                /\ r.tips[d].tail # 0 => OfChat(r.f, r.tips[d].tail, d)
    <2>1. CASE d = c
      <3>1. OfChat(h, p, c)
        BY <1>10 DEF OfChat, SameTuples
      <3> QED BY <1>4, <1>7, <1>11, <2>1, <3>1, SMTT(30)
    <2>2. CASE d # c
      <3>1. r.tips[d] = s.tips[d]
        BY <1>11, <2>2, SMTT(30)
      <3>2. ASSUME s.tips[d].tail # 0
            PROVE  OfChat(h, s.tips[d].tail, d)
        <4>1. OfChat(s.f, s.tips[d].tail, d)
          BY <3>2 DEF TailsOwn
        <4>2. s.tips[d].tail # p
          BY <2>2, <4>1, StoreAssumption, SMTT(30) DEF OfChat
        <4> QED BY <1>10, <4>1, <4>2 DEF OfChat, SameTuples
      <3>3. s.tips[d] = [head |-> s.tips[d].head, tail |-> s.tips[d].tail, count |-> s.tips[d].count]
        BY DEF TailsOwn
      <3> QED BY <1>7, <3>1, <3>2, <3>3
    <2> QED BY <2>1, <2>2
  <1>13. TailsOwn(r.f, r.tips)
    BY <1>12 DEF TailsOwn
  <1>14. r.tips[c].tail = p
    BY <1>4, <1>11, SMTT(30)
  <1>15. LinkedTo(r, s, c, p, n)
    BY <1>6, <1>7, <1>9, <1>10, <1>13, <1>14 DEF LinkedTo
  <1> QED BY <1>15 DEF r

\* More messages were posted.
LEMMA WholeMore ==
  ASSUME NEW f, NEW n \in Nat, Whole(f, n), NEW n2 \in Nat, n <= n2
  PROVE  Whole(f, n2)
  <1>1. 1..n \subseteq 1..n2
    OBVIOUS
  <1>2. \A c, x : x \in {c} \X (1..n) => x \in {c} \X (1..n2)
    BY <1>1
  <1>3. \A p \in DOMAIN f.pg : OwnPage(f.pg[p], n) => OwnPage(f.pg[p], n2)
    BY <1>2 DEF OwnPage
  <1> QED BY <1>3, WholeIs

\* Where a message is on a page.
LEMMA SlotFacts ==
  ASSUME NEW page, Len(page.items) \in Nat, DOMAIN page.items = 1..Len(page.items), NEW m
  PROVE  \/ SlotOf(page, m) = 0 /\ \A i \in DOMAIN page.items : page.items[i][2] # m
         \/ SlotOf(page, m) \in DOMAIN page.items /\ page.items[SlotOf(page, m)][2] = m /\ SlotOf(page, m) > 0
  <1> DEFINE I == {i \in 1..Len(page.items) : page.items[i][2] = m}
  <1>1. SlotOf(page, m) = IF I # {} THEN Min(I) ELSE 0
    BY DEF SlotOf, SelectInSeq
  <1>2. I \in SUBSET Nat /\ I \subseteq 1..Len(page.items)
    OBVIOUS
  <1>3. CASE I = {}
    BY <1>1, <1>3, SMTT(30)
  <1>4. CASE I # {}
    <2>1. Min(I) \in I
      <3> HIDE DEF I
      <3> QED BY <1>2, <1>4, MinFacts, SMTT(30)
    <2>2. SlotOf(page, m) \in I
      BY <1>1, <1>4, <2>1
    <2> QED BY <2>2
  <1> QED BY <1>3, <1>4

\* The message m is at the place k of the page p, and the index has it.
Redone(r, s, c, p, m, k, n) ==
    /\ IsMemory(r) /\ Whole(r.f, n) /\ DOMAIN r.f.pg = DOMAIN s.f.pg /\ Len(r.f.pg) = Len(s.f.pg)
    /\ r.tips = s.tips /\ r.hotAt = s.hotAt /\ r.cp = s.cp /\ r.ring = s.ring
    /\ \A q \in DOMAIN s.f.pg :
          /\ r.f.pg[q].kind = s.f.pg[q].kind
          /\ q # p => r.f.pg[q].chat = s.f.pg[q].chat /\ r.f.pg[q].items = s.f.pg[q].items
    /\ r.f.pg[p].chat = c
    /\ \/ k \in DOMAIN s.f.pg[p].items /\ s.f.pg[p].items[k][2] = m /\ r.f.pg[p].items = s.f.pg[p].items
       \/ /\ k = Len(s.f.pg[p].items) + 1 /\ r.f.pg[p].items = Append(s.f.pg[p].items, <<c, m>>)
          /\ \A i \in DOMAIN s.f.pg[p].items : s.f.pg[p].items[i][2] # m
    /\ r.index = [s.index EXCEPT ![c] = {e \in @ : e[1] # m} \cup {<<m, p, k>>}]

LEMMA RedoKeeps ==
  ASSUME NEW s, IsMemory(s), NEW n \in Nat, Whole(s.f, n), NEW c \in Chats,
         NEW p \in DOMAIN s.f.pg, s.f.pg[p].kind = "chat", s.f.pg[p].chat = c \/ s.f.pg[p].items = <<>>,
         NEW n2 \in Nat, n <= n2, NEW m \in 1..n2, SlotOf(s.f.pg[p], m) > 0 \/ Room(s.f.pg[p])
  PROVE  \E k : Redone(RedoInsert(s, c, p, m), s, c, p, m, k, n2)
  <1> DEFINE r == RedoInsert(s, c, p, m)
  <1> DEFINE page == s.f.pg[p]
  <1> DEFINE slot == SlotOf(page, m)
  <1> DEFINE o == IF page.kind = "free" \/ page.items = <<>>
                  THEN [s EXCEPT !.f.pg[p].kind = "chat", !.f.pg[p].chat = c] ELSE s
  <1>4. r = IF slot > 0 THEN [o EXCEPT !.index[c] = {e \in @ : e[1] # m} \cup {<<m, p, slot>>}]
            ELSE IF ~Room(page) THEN o
            ELSE [o EXCEPT !.f = Put(o.f, p, <<c, m>>),
                           !.index[c] = {e \in @ : e[1] # m} \cup {<<m, p, NextSlot(page)>>}]
    BY ZenonT(30) DEF RedoInsert
  <1>1. page = s.f.pg[p]
    OBVIOUS
  <1>2. slot = SlotOf(page, m)
    OBVIOUS
  <1>3. o = IF page.kind = "free" \/ page.items = <<>>
            THEN [s EXCEPT !.f.pg[p].kind = "chat", !.f.pg[p].chat = c] ELSE s
    OBVIOUS
  <1> HIDE DEF r, page, slot, o
  <1>5. /\ Len(page.items) \in Nat /\ DOMAIN page.items = 1..Len(page.items)
        /\ page.kind = "chat" /\ (page.chat = c \/ page.items = <<>>)
    BY <1>1, WholeFacts, SMTT(30)
  <1>6. PICK g : /\ o.f = g /\ Whole(g, n) /\ SameTuples(g, s.f)
                 /\ \A q \in DOMAIN s.f.pg : g.pg[q].chat = IF q = p THEN c ELSE s.f.pg[q].chat
                 /\ o = [s EXCEPT !.f = g]
    <2>1. CASE page.items = <<>>
      <3>1. PICK g : g = Marked(s.f, p, c)
        OBVIOUS
      <3>2. Whole(g, n) /\ SameTuples(g, s.f) /\ \A q \in DOMAIN s.f.pg : g.pg[q].chat = IF q = p THEN c ELSE s.f.pg[q].chat
        BY <1>1, <2>1, <3>1, MarkEffect
      <3>3. o = [s EXCEPT !.f = g]
        <4>1. s = [f |-> s.f, tips |-> s.tips, index |-> s.index, hotAt |-> s.hotAt, ring |-> s.ring, cp |-> s.cp]
          BY Zenon DEF IsMemory
        <4>2. g = [s.f EXCEPT !.pg[p].kind = "chat", !.pg[p].chat = c]
          BY <3>1, Zenon DEF Marked
        <4>3. o = [s EXCEPT !.f.pg[p].kind = "chat", !.f.pg[p].chat = c]
          BY <1>3, <2>1
        <4> QED BY <4>1, <4>2, <4>3, ZenonT(90)
      <3>4. o.f = g
        BY <3>3, SMTT(30) DEF IsMemory
      <3> QED BY <3>2, <3>3, <3>4
    <2>2. CASE page.items # <<>>
      <3>1. o = s /\ page.chat = c
        BY <1>3, <1>5, <2>2, SMTT(30)
      <3>2. SameTuples(s.f, s.f) /\ o = [s EXCEPT !.f = s.f]
        BY <3>1, SMTT(30) DEF SameTuples, IsMemory
      <3> QED BY <1>1, <3>1, <3>2, ZenonT(30)
    <2> QED BY <2>1, <2>2
  <1>7. /\ o.tips = s.tips /\ o.index = s.index /\ o.hotAt = s.hotAt /\ o.ring = s.ring /\ o.cp = s.cp
        /\ o = [f |-> o.f, tips |-> o.tips, index |-> o.index, hotAt |-> o.hotAt, ring |-> o.ring, cp |-> o.cp]
    BY <1>6 DEF IsMemory
  <1>8. ASSUME NEW h, NEW k, r = [o EXCEPT !.f = h, !.index[c] = {e \in @ : e[1] # m} \cup {<<m, p, k>>}]
        PROVE  /\ r.f = h /\ IsMemory(r) /\ r.tips = s.tips /\ r.hotAt = s.hotAt /\ r.cp = s.cp /\ r.ring = s.ring
               /\ r.index = [s.index EXCEPT ![c] = {e \in @ : e[1] # m} \cup {<<m, p, k>>}]
    <2>1. PICK E : E = {e \in s.index[c] : e[1] # m} \cup {<<m, p, k>>}
      OBVIOUS
    <2>2. r = [o EXCEPT !.f = h, !.index = [s.index EXCEPT ![c] = E]]
      BY <1>7, <1>8, <2>1
    <2>3. /\ r.f = h /\ r.tips = s.tips /\ r.hotAt = s.hotAt /\ r.cp = s.cp /\ r.ring = s.ring
          /\ r.index = [s.index EXCEPT ![c] = E]
          /\ r = [f |-> r.f, tips |-> r.tips, index |-> r.index, hotAt |-> r.hotAt, ring |-> r.ring, cp |-> r.cp]
      BY <1>7, <2>2
    <2>4. r.index = [d \in Chats |-> r.index[d]]
      BY <2>3 DEF IsMemory
    <2>5. IsMemory(r)
      BY <2>3, <2>4 DEF IsMemory
    <2> QED BY <2>1, <2>3, <2>5, SMTT(30)
  <1>9. CASE slot > 0
    <2>1. slot \in DOMAIN page.items /\ page.items[slot][2] = m
      BY <1>2, <1>5, <1>9, SlotFacts, SMTT(30)
    <2>2. r = [o EXCEPT !.f = g, !.index[c] = {e \in @ : e[1] # m} \cup {<<m, p, slot>>}]
      <3>1. r = [o EXCEPT !.index[c] = {e \in @ : e[1] # m} \cup {<<m, p, slot>>}]
        BY <1>4, <1>9
      <3> QED BY <1>6, <1>7, <3>1
    <2>3. Whole(g, n2)
      BY <1>6, WholeMore
    <2>4. /\ r.f = g /\ IsMemory(r) /\ r.tips = s.tips /\ r.hotAt = s.hotAt /\ r.cp = s.cp /\ r.ring = s.ring
          /\ r.index = [s.index EXCEPT ![c] = {e \in @ : e[1] # m} \cup {<<m, p, slot>>}]
      BY <1>8, <2>2, Zenon
    <2>5. Redone(r, s, c, p, m, slot, n2)
      <3>1. /\ DOMAIN g.pg = DOMAIN s.f.pg /\ Len(g.pg) = Len(s.f.pg) /\ g.pg[p].chat = c
            /\ \A q \in DOMAIN s.f.pg :
                  /\ g.pg[q].kind = s.f.pg[q].kind
                  /\ q # p => g.pg[q].chat = s.f.pg[q].chat /\ g.pg[q].items = s.f.pg[q].items
        BY <1>6, Zenon DEF SameTuples
      <3>2. g.pg[p].items = s.f.pg[p].items /\ slot \in DOMAIN s.f.pg[p].items /\ s.f.pg[p].items[slot][2] = m
        BY <1>1, <1>6, <2>1, Zenon DEF SameTuples
      <3> QED BY <2>3, <2>4, <3>1, <3>2, Zenon DEF Redone
    <2> QED BY <2>5 DEF r
  <1>10. CASE ~(slot > 0)
    <2>1. Room(page) /\ \A i \in DOMAIN page.items : page.items[i][2] # m
      BY <1>1, <1>2, <1>5, <1>10, SlotFacts
    <2>2. PICK h : h = Put(g, p, <<c, m>>)
      OBVIOUS
    <2>3. r = [o EXCEPT !.f = h, !.index[c] = {e \in @ : e[1] # m} \cup {<<m, p, NextSlot(page)>>}]
      BY <1>4, <1>6, <1>10, <2>1, <2>2
    <2>4. OfChat(g, p, c) /\ Room(g.pg[p]) /\ g.pg[p].items = page.items
      BY <1>1, <1>6, <2>1 DEF OfChat, SameTuples, Room
    <2>5. /\ Whole(h, n2) /\ DOMAIN h.pg = DOMAIN g.pg /\ Len(h.pg) = Len(g.pg)
          /\ h.pg[p].items = Append(page.items, <<c, m>>) /\ h.pg[p].chat = c /\ h.pg[p].kind = "chat"
          /\ \A q \in DOMAIN g.pg : q # p => h.pg[q] = g.pg[q]
      <3>1. PutOn(Put(g, p, <<c, m>>), g, p, c, m, n2)
        BY <1>6, <2>4, PutWhole, Zenon
      <3> QED BY <2>2, <2>4, <3>1 DEF PutOn
    <2>6. /\ DOMAIN h.pg = DOMAIN s.f.pg /\ Len(h.pg) = Len(s.f.pg)
          /\ \A q \in DOMAIN s.f.pg :
                /\ h.pg[q].kind = s.f.pg[q].kind
                /\ q # p => h.pg[q].chat = s.f.pg[q].chat /\ h.pg[q].items = s.f.pg[q].items
      <3>1. ASSUME NEW q \in DOMAIN s.f.pg
            PROVE  h.pg[q].kind = s.f.pg[q].kind
        <4>1. CASE q = p
          BY <1>1, <1>5, <2>5, <4>1, Zenon
        <4>2. CASE q # p
          BY <1>6, <2>5, <4>2, Zenon DEF SameTuples
        <4> QED BY <4>1, <4>2
      <3>2. ASSUME NEW q \in DOMAIN s.f.pg, q # p
            PROVE  h.pg[q].chat = s.f.pg[q].chat /\ h.pg[q].items = s.f.pg[q].items
        <4>1. g.pg[q].chat = s.f.pg[q].chat
          BY <1>6, <3>2, Zenon
        <4> QED BY <1>6, <2>5, <3>2, <4>1, Zenon DEF SameTuples
      <3> QED BY <1>6, <2>5, <3>1, <3>2, Zenon DEF SameTuples
    <2>7. /\ r.f = h /\ IsMemory(r) /\ r.tips = s.tips /\ r.hotAt = s.hotAt /\ r.cp = s.cp /\ r.ring = s.ring
          /\ r.index = [s.index EXCEPT ![c] = {e \in @ : e[1] # m} \cup {<<m, p, NextSlot(page)>>}]
      BY <1>8, <2>3, Zenon
    <2>8. Redone(r, s, c, p, m, NextSlot(page), n2)
      BY <1>1, <2>1, <2>5, <2>6, <2>7, ZenonT(30) DEF Redone, NextSlot
    <2> QED BY <2>8 DEF r
  <1> QED BY <1>9, <1>10

\* r is s with a change to the hot pages.
Heated(r, s, n) ==
    /\ IsMemory(r) /\ Whole(r.f, n) /\ SameButHot(r.f, s.f) /\ HotAtHot(r.f, r.hotAt)
    /\ r.tips = s.tips /\ r.index = s.index /\ r.cp = s.cp /\ r.ring = s.ring

\* A hot key is set.
LEMMA SetHotHeats ==
  ASSUME NEW s, IsMemory(s), NEW n \in Nat, Whole(s.f, n), HotAtHot(s.f, s.hotAt), NEW k \in Keys, NEW v \in Vals
  PROVE  Heated(SetHot(s, k, v), s, n)
  <1> DEFINE g == WriteHot(s.f, k, v)
  <1> DEFINE r == SetHot(s, k, v)
  <1>1. Shape(s.f, <<>>, NoChains, n)
    BY DEF Whole
  <1>2. (\E gr : Shape(g, gr, NoChains, n)) /\ SameButHot(g, s.f)
    BY <1>1, WriteHotEffect
  <1> HIDE DEF g
  <1>3. Whole(g, n)
    BY <1>2, WholeHot
  <1>4. r = [s EXCEPT !.f = g, !.hotAt[k] = HotRoot]
    BY DEF SetHot, g
  <1> HIDE DEF r
  <1>5. /\ r.f = g /\ r.tips = s.tips /\ r.index = s.index /\ r.hotAt = [s.hotAt EXCEPT ![k] = HotRoot]
        /\ r.ring = s.ring /\ r.cp = s.cp
        /\ r = [f |-> r.f, tips |-> r.tips, index |-> r.index, hotAt |-> r.hotAt, ring |-> r.ring, cp |-> r.cp]
    BY <1>4 DEF IsMemory
  <1>6. IsMemory(r)
    BY <1>5 DEF IsMemory
  <1>7. HotAtHot(g, r.hotAt)
    <2>1. HotAtHot(g, s.hotAt)
      BY <1>2, HotAtKept
    <2>2. HotRoot \in DOMAIN g.pg /\ g.pg[HotRoot].kind = "hot"
      BY <1>3, WholeIs DEF HotTrue
    <2>3. \A j \in Keys : r.hotAt[j] = IF j = k THEN HotRoot ELSE s.hotAt[j]
      BY <1>5 DEF IsMemory
    <2> QED BY <2>1, <2>2, <2>3 DEF HotAtHot
  <1>8. Heated(r, s, n)
    BY <1>2, <1>3, <1>5, <1>6, <1>7 DEF Heated
  <1> QED BY <1>8 DEF r

\* A hot key is deleted.
LEMMA DelHotHeats ==
  ASSUME NEW s, IsMemory(s), NEW n \in Nat, Whole(s.f, n), HotAtHot(s.f, s.hotAt), NEW k \in Keys
  PROVE  Heated(DelHot(s, k), s, n)
  <1> DEFINE p == HotStart(s, k)
  <1> DEFINE g == DeleteHot(s.f, k, p)
  <1> DEFINE r == DelHot(s, k)
  <1>1. Shape(s.f, <<>>, NoChains, n)
    BY SMTT(30) DEF Whole
  <1>2. p \in DOMAIN s.f.pg /\ s.f.pg[p].kind = "hot"
    <2>1. HotRoot \in DOMAIN s.f.pg /\ s.f.pg[HotRoot].kind = "hot"
      BY WholeIs DEF HotTrue
    <2>2. s.hotAt[k] = 0 \/ (s.hotAt[k] \in DOMAIN s.f.pg /\ s.f.pg[s.hotAt[k]].kind = "hot")
      BY DEF HotAtHot
    <2>3. ~(0 > 0)
      OBVIOUS
    <2> QED BY <2>1, <2>2, <2>3, SMTT(30) DEF HotStart
  <1> HIDE DEF p
  <1>3. Shape(g, <<>>, NoChains, n) /\ SameButHot(g, s.f)
    BY <1>1, <1>2, DeleteHotEffect, SMTT(30)
  <1> HIDE DEF g
  <1>4. r = [s EXCEPT !.f = g, !.hotAt[k] = 0]
    BY DEF DelHot, g, p
  <1> HIDE DEF r
  <1>5. /\ r.f = g /\ r.tips = s.tips /\ r.index = s.index /\ r.hotAt = [s.hotAt EXCEPT ![k] = 0]
        /\ r.ring = s.ring /\ r.cp = s.cp
        /\ r = [f |-> r.f, tips |-> r.tips, index |-> r.index, hotAt |-> r.hotAt, ring |-> r.ring, cp |-> r.cp]
    BY <1>4 DEF IsMemory
  <1>6. IsMemory(r)
    BY <1>5 DEF IsMemory
  <1>7. HotAtHot(g, r.hotAt)
    <2>1. HotAtHot(g, s.hotAt)
      BY <1>3, HotAtKept
    <2>2. \A j \in Keys : r.hotAt[j] = IF j = k THEN 0 ELSE s.hotAt[j]
      BY <1>5 DEF IsMemory
    <2> QED BY <2>1, <2>2 DEF HotAtHot
  <1>8. Whole(g, n)
    BY <1>3 DEF Whole
  <1>9. Heated(r, s, n)
    BY <1>3, <1>5, <1>6, <1>7, <1>8 DEF Heated
  <1> QED BY <1>9 DEF r

-----------------------------------------------------------------------------
(* The steps of the store *)

\* The pages of the chats keep their tuples and their chat.
LEMMA TuplesKept ==
  ASSUME NEW f, NEW n, Whole(f, n), NEW g, SameTuples(g, f), \A q \in DOMAIN f.pg : g.pg[q].chat = f.pg[q].chat
  PROVE  /\ Grows(f, g) /\ (InOrder(f) => InOrder(g)) /\ \A at : HotAtHot(f, at) => HotAtHot(g, at)
         /\ \A x, p, i : Spot(f, x, p, i) => Spot(g, x, p, i)
  <1>1. DOMAIN g.pg = DOMAIN f.pg /\ \A q \in DOMAIN f.pg : g.pg[q].kind = f.pg[q].kind /\ g.pg[q].items = f.pg[q].items
    BY DEF SameTuples
  <1>2. Grows(f, g)
    <2>1. ASSUME NEW p \in DOMAIN f.pg
          PROVE  Prefix(f.pg[p].items, g.pg[p].items)
      <3>1. f.pg[p].items \in Seq(Tuple)
        BY WholeFacts
      <3>2. Prefix(f.pg[p].items, f.pg[p].items)
        BY <3>1, PrefixSelf
      <3> QED BY <1>1, <3>2
    <2> QED BY <1>1, <2>1 DEF Grows
  <1>3. ASSUME InOrder(f)
        PROVE  InOrder(g)
    <2>1. ASSUME NEW p \in DOMAIN g.pg, NEW q \in DOMAIN g.pg, g.pg[p].kind = "chat", g.pg[q].kind = "chat"
          PROVE  \A i \in DOMAIN g.pg[p].items, j \in DOMAIN g.pg[q].items :
                    /\ g.pg[p].items[i][2] = g.pg[q].items[j][2] => p = q /\ i = j
                    /\ p = q /\ i < j => g.pg[p].items[i][2] < g.pg[q].items[j][2]
      <3>1. /\ p \in DOMAIN f.pg /\ q \in DOMAIN f.pg /\ f.pg[p].kind = "chat" /\ f.pg[q].kind = "chat"
            /\ g.pg[p].items = f.pg[p].items /\ g.pg[q].items = f.pg[q].items
        BY <1>1, <2>1
      <3>2. \A i \in DOMAIN f.pg[p].items, j \in DOMAIN f.pg[q].items :
               /\ f.pg[p].items[i][2] = f.pg[q].items[j][2] => p = q /\ i = j
               /\ p = q /\ i < j => f.pg[p].items[i][2] < f.pg[q].items[j][2]
        BY <1>3, <3>1 DEF InOrder
      <3> QED BY <3>1, <3>2
    <2> QED BY <2>1 DEF InOrder
  <1>4. ASSUME NEW at, HotAtHot(f, at)
        PROVE  HotAtHot(g, at)
    BY <1>1, <1>4 DEF HotAtHot
  <1>5. \A x, p, i : Spot(f, x, p, i) => Spot(g, x, p, i)
    BY <1>1 DEF Spot
  <1> QED BY <1>2, <1>3, <1>4, <1>5

\* The state after an operation.
LEMMA FiledNext ==
  ASSUME NEW s, NEW post, Filed(s, post), posted' = post,
         mem' = s.f, tips' = s.tips, index' = s.index, hotAt' = s.hotAt, ring' = s.ring
  PROVE  Filed(Loaded, posted)'
  <1>1. /\ Loaded'.f = s.f /\ Loaded'.tips = s.tips /\ Loaded'.index = s.index /\ Loaded'.hotAt = s.hotAt
        /\ Loaded'.ring = s.ring
        /\ Loaded' = [f |-> s.f, tips |-> s.tips, index |-> s.index, hotAt |-> s.hotAt, ring |-> s.ring, cp |-> Loaded'.cp]
    BY DEF Loaded
  <1>2. IsMemory(Loaded')
    BY <1>1 DEF Filed, IsMemory
  <1> QED BY <1>1, <1>2 DEF Filed

\* What there is of the state in memory.
LEMMA FiledFacts ==
  ASSUME CrashInv
  PROVE  /\ IsMemory(Loaded) /\ Loaded.f = mem /\ Loaded.tips = tips /\ Loaded.index = index /\ Loaded.hotAt = hotAt
         /\ Loaded.ring = ring /\ posted \in Seq(Chats) /\ Len(posted) \in Nat /\ DOMAIN posted = 1..Len(posted)
         /\ Whole(mem, Len(posted)) /\ InOrder(mem) /\ TailsOwn(mem, tips) /\ HotAtHot(mem, hotAt)
         /\ Found(mem, index, posted)
  <1>1. Loaded.f = mem /\ Loaded.tips = tips /\ Loaded.index = index /\ Loaded.hotAt = hotAt /\ Loaded.ring = ring
    BY DEF Loaded
  <1>2. posted \in Seq(Chats) /\ Filed(Loaded, posted)
    BY DEF CrashInv
  <1>3. Len(posted) \in Nat /\ DOMAIN posted = 1..Len(posted)
    BY <1>2
  <1> QED BY <1>1, <1>2, <1>3 DEF Filed

\* The pages an operation has appended are blank in the file.
LEMMA BecomesBlanked ==
  ASSUME disk \in File, Len(disk.pg) = Len(mem.pg), NEW n, Whole(mem, n), NEW s, NEW n2, Whole(s.f, n2),
         Grows(mem, s.f), Becomes(s)
  PROVE  Blanked(disk', disk, mem')
  <1>1. PICK g : g = s.f
    OBVIOUS
  <1>2. mem \in File /\ g \in File
    BY <1>1, WholeFacts
  <1>3. Len(mem.pg) <= Len(g.pg)
    BY <1>1, <1>2, NoShorter DEF Grows
  <1>4. PICK h : h = [disk EXCEPT !.pg = Grown(@, g.pg)]
    OBVIOUS
  <1>5. /\ h \in File /\ Len(h.pg) = Len(g.pg) /\ h.free = disk.free
        /\ \A p \in DOMAIN disk.pg : h.pg[p] = disk.pg[p]
        /\ \A p \in DOMAIN g.pg \ DOMAIN disk.pg : h.pg[p] = Blank(g.pg[p].kind)
    BY <1>2, <1>3, <1>4, GrownFile
  <1>6. mem' = g /\ disk' = h
    BY <1>1, <1>4 DEF Becomes
  <1> QED BY <1>5, <1>6 DEF Blanked

\* What an operation that logs a record keeps.
LEMMA LoggedCrash ==
  ASSUME CrashInv, NEW s, Becomes(s), Filed(s, posted'), Grows(mem, s.f),
         op.at \in {"idle", "link", "insert"}, op'.at \in {"idle", "link", "insert"}, OpHolds', posted' \in Seq(Chats),
         UNCHANGED <<meta, snap, lives>>, NEW rec \in Recs, rec.lsn = lsn, wal' = Append(wal, rec), lsn' = lsn + 1,
         Posts(rec), RecTrue(rec, s.f, posted')
  PROVE  CrashInv'
  <1>1. Filed(Loaded, posted)'
    BY FiledNext DEF Becomes
  <1>2. ASSUME lives = 0
        PROVE  Recoverable'
    <2>1. Recoverable
      BY <1>2 DEF CrashInv
    <2>2. disk \in File /\ Len(disk.pg) = Len(mem.pg)
      BY <2>1, WholeFacts DEF Recoverable, Written, Behind
    <2>3. Whole(s.f, Len(posted'))
      BY DEF Filed
    <2>4. Blanked(disk', disk, mem')
      BY <2>2, <2>3, FiledFacts, BecomesBlanked
    <2>5. mem' = s.f /\ posted \in Seq(Chats) /\ Filed(Loaded, posted)
      BY DEF CrashInv, Becomes
    <2> QED BY <2>1, <2>3, <2>4, <2>5, LoggedRecoverable
  <1> QED BY <1>1, <1>2 DEF CrashInv

\* A list begins with what it was before one more.
LEMMA PrefixAppend ==
  ASSUME NEW S, NEW a \in Seq(S), NEW x
  PROVE  /\ Prefix(a, Append(a, x)) /\ DOMAIN Append(a, x) = DOMAIN a \cup {Len(a) + 1} /\ Append(a, x)[Len(a) + 1] = x
         /\ \A i \in DOMAIN a : Append(a, x)[i] = a[i] /\ i < Len(a) + 1
  <1>1. PICK L \in Nat : L = Len(a) /\ DOMAIN a = 1..L
    OBVIOUS
  <1>2. PICK b : b = Append(a, x)
    OBVIOUS
  <1>3. Len(b) = L + 1 /\ DOMAIN b = 1..(L + 1) /\ b[L + 1] = x /\ \A i \in 1..L : b[i] = a[i]
    BY <1>1, <1>2
  <1>4. 1..(L + 1) = 1..L \cup {L + 1} /\ \A i \in 1..L : i < L + 1
    OBVIOUS
  <1>5. Prefix(a, b)
    BY <1>1, <1>3, SMTT(90) DEF Prefix
  <1> QED BY <1>1, <1>2, <1>3, <1>4, <1>5

\* r is s after the next message was put at the end of the chat.
InsertedTo(r, s, post, c) ==
    /\ Filed(r, Append(post, c)) /\ Grows(s.f, r.f)
    /\ \E i : Spot(r.f, <<c, Len(post) + 1>>, s.tips[c].tail, i)

\* A tuple of the file g is one of the file f or, at k of the page p, the last and the newest.
OldOrLast(f, g, q, i, n, p, k) ==
    \/ /\ i \in DOMAIN f.pg[q].items /\ g.pg[q].items[i] = f.pg[q].items[i]
       /\ f.pg[q].items[i][2] \in 1..n
    \/ /\ q = p /\ i = k /\ g.pg[q].items[i][2] = n + 1
       /\ \A j \in DOMAIN f.pg[q].items : j < k

LEMMA OrderAfter ==
  ASSUME NEW f, InOrder(f), NEW g, NEW n \in Nat, NEW p, NEW k \in Nat,
         \A q \in DOMAIN f.pg : f.pg[q].kind = "chat" => DOMAIN f.pg[q].items \subseteq Nat,
         \A q \in DOMAIN g.pg : g.pg[q].kind = "chat" =>
            \A i \in DOMAIN g.pg[q].items :
               q \in DOMAIN f.pg /\ f.pg[q].kind = "chat" /\ OldOrLast(f, g, q, i, n, p, k)
  PROVE  InOrder(g)
  <1> SUFFICES ASSUME NEW u \in DOMAIN g.pg, NEW v \in DOMAIN g.pg, g.pg[u].kind = "chat", g.pg[v].kind = "chat",
                      NEW i \in DOMAIN g.pg[u].items, NEW j \in DOMAIN g.pg[v].items
               PROVE  /\ g.pg[u].items[i][2] = g.pg[v].items[j][2] => u = v /\ i = j
                      /\ u = v /\ i < j => g.pg[u].items[i][2] < g.pg[v].items[j][2]
    BY Zenon DEF InOrder
  <1>1. /\ u \in DOMAIN f.pg /\ f.pg[u].kind = "chat" /\ OldOrLast(f, g, u, i, n, p, k)
        /\ v \in DOMAIN f.pg /\ f.pg[v].kind = "chat" /\ OldOrLast(f, g, v, j, n, p, k)
    BY Zenon
  <1>2. PICK A, B, x, y : A = f.pg[u].items /\ B = f.pg[v].items /\ x = g.pg[u].items[i][2] /\ y = g.pg[v].items[j][2]
    OBVIOUS
  <1>3. DOMAIN A \subseteq Nat /\ DOMAIN B \subseteq Nat
    BY <1>1, <1>2, Zenon
  <1>4. \/ i \in DOMAIN A /\ x = A[i][2] /\ x \in 1..n
        \/ u = p /\ i = k /\ x = n + 1 /\ \A h \in DOMAIN A : h < k
    BY <1>1, <1>2, Zenon DEF OldOrLast
  <1>5. \/ j \in DOMAIN B /\ y = B[j][2] /\ y \in 1..n
        \/ v = p /\ j = k /\ y = n + 1 /\ \A h \in DOMAIN B : h < k
    BY <1>1, <1>2, Zenon DEF OldOrLast
  <1>6. ASSUME i \in DOMAIN A, j \in DOMAIN B
        PROVE  (A[i][2] = B[j][2] => u = v /\ i = j) /\ (u = v /\ i < j => A[i][2] < B[j][2])
    <2>1. i \in DOMAIN f.pg[u].items /\ j \in DOMAIN f.pg[v].items
      BY <1>2, <1>6
    <2>2. /\ f.pg[u].items[i][2] = f.pg[v].items[j][2] => u = v /\ i = j
          /\ u = v /\ i < j => f.pg[u].items[i][2] < f.pg[v].items[j][2]
      BY <1>1, <2>1 DEF InOrder
    <2> QED BY <1>2, <2>2, Zenon
  <1>7. u = v => A = B
    BY <1>2
  <1> SUFFICES (x = y => u = v /\ i = j) /\ (u = v /\ i < j => x < y)
    BY <1>2, Zenon
  <1>8. CASE i \in DOMAIN A /\ x = A[i][2] /\ x \in 1..n
    <2>1. CASE j \in DOMAIN B /\ y = B[j][2] /\ y \in 1..n
      BY <1>6, <1>8, <2>1, Zenon
    <2>2. CASE v = p /\ j = k /\ y = n + 1
      <3>1. x < n + 1 /\ x # n + 1
        BY <1>8
      <3> QED BY <2>2, <3>1, Zenon
    <2> QED BY <1>5, <2>1, <2>2, Zenon
  <1>9. CASE u = p /\ i = k /\ x = n + 1 /\ \A h \in DOMAIN A : h < k
    <2>1. CASE j \in DOMAIN B /\ y \in 1..n
      <3>1. y # n + 1
        BY <2>1
      <3>2. ASSUME u = v PROVE ~(i < j)
        <4>1. j < k /\ j \in Nat
          BY <1>3, <1>7, <1>9, <2>1, <3>2, Zenon
        <4> QED BY <1>9, <4>1
      <3> QED BY <1>9, <3>1, <3>2, Zenon
    <2>2. CASE v = p /\ j = k /\ y = n + 1
      <3>1. ~(k < k)
        BY SMTT(60)
      <3> QED BY <1>9, <2>2, <3>1, Zenon
    <2> QED BY <1>5, <2>1, <2>2, Zenon
  <1> QED BY <1>4, <1>8, <1>9, Zenon

\* The message goes to the tail of its chat.
LEMMA InsertFiled ==
  ASSUME NEW s, NEW post \in Seq(Chats), Filed(s, post), NEW c \in Chats,
         s.tips[c].tail # 0, Room(s.f.pg[s.tips[c].tail])
  PROVE  InsertedTo([RedoInsert(s, c, s.tips[c].tail, Len(post) + 1) EXCEPT !.tips[c].count = @ + 1,
                                                                           !.ring[c] = Newest(Append(@, Len(post) + 1))],
                    s, post, c)
  <1>1. PICK n \in Nat : n = Len(post) /\ DOMAIN post = 1..n
    OBVIOUS
  <1>2. PICK p : p = s.tips[c].tail
    OBVIOUS
  <1>3. PICK m \in 1..(n + 1) : m = n + 1
    OBVIOUS
  <1>4. /\ IsMemory(s) /\ Whole(s.f, n) /\ InOrder(s.f) /\ TailsOwn(s.f, s.tips) /\ HotAtHot(s.f, s.hotAt)
        /\ Found(s.f, s.index, post)
    BY <1>1, SMTT(30) DEF Filed
  <1>5. p \in DOMAIN s.f.pg /\ s.f.pg[p].kind = "chat" /\ s.f.pg[p].chat = c /\ Room(s.f.pg[p])
    BY <1>2, <1>4, Zenon DEF TailsOwn, OfChat
  <1>6. PICK b : b = RedoInsert(s, c, p, m)
    OBVIOUS
  <1>7. PICK k : Redone(b, s, c, p, m, k, n + 1)
    <2>1. n + 1 \in Nat /\ n <= n + 1
      BY SMTT(30)
    <2>2. \E k : Redone(RedoInsert(s, c, p, m), s, c, p, m, k, n + 1)
      BY <1>4, <1>5, <2>1, RedoKeeps
    <2> QED BY <1>6, <2>2
  <1>8. PICK a : a = s.f.pg[p].items
    OBVIOUS
  <1>9. a \in Seq(Tuple) /\ \A i \in DOMAIN a : a[i] \in {c} \X (1..n)
    BY <1>4, <1>5, <1>8, WholeFacts, ZenonT(60) DEF OwnPage
  <1>10. \A q \in DOMAIN s.f.pg : s.f.pg[q].kind = "chat" =>
            \A i \in DOMAIN s.f.pg[q].items : s.f.pg[q].items[i][2] \in 1..n
    BY <1>4, WholeFacts DEF OwnPage
  <1>11. m \notin 1..n
    BY <1>3
  <1>12. k = Len(a) + 1 /\ b.f.pg[p].items = Append(a, <<c, m>>)
    <2>1. k \notin DOMAIN a \/ a[k][2] # m
      BY <1>5, <1>8, <1>10, <1>11, SMTT(30)
    <2> QED BY <1>7, <1>8, <2>1, ZenonT(30) DEF Redone
  <1>13. /\ Prefix(a, b.f.pg[p].items) /\ DOMAIN b.f.pg[p].items = DOMAIN a \cup {k} /\ b.f.pg[p].items[k] = <<c, m>>
         /\ \A i \in DOMAIN a : b.f.pg[p].items[i] = a[i] /\ i < k
    BY <1>9, <1>12, PrefixAppend, SMTT(30)
  <1>14. /\ IsMemory(b) /\ Whole(b.f, n + 1) /\ DOMAIN b.f.pg = DOMAIN s.f.pg
         /\ b.tips = s.tips /\ b.hotAt = s.hotAt
         /\ \A q \in DOMAIN s.f.pg :
               /\ b.f.pg[q].kind = s.f.pg[q].kind
               /\ q # p => b.f.pg[q].chat = s.f.pg[q].chat /\ b.f.pg[q].items = s.f.pg[q].items
         /\ b.f.pg[p].chat = c
         /\ b.index = [s.index EXCEPT ![c] = {e \in @ : e[1] # m} \cup {<<m, p, k>>}]
    BY <1>7, Zenon DEF Redone
  <1>15. Grows(s.f, b.f)
    <2>1. ASSUME NEW q \in DOMAIN s.f.pg, s.f.pg[q].kind = "chat"
          PROVE  b.f.pg[q].chat = s.f.pg[q].chat /\ Prefix(s.f.pg[q].items, b.f.pg[q].items)
      <3>1. CASE q = p
        BY <1>5, <1>8, <1>13, <1>14, <3>1, Zenon
      <3>2. CASE q # p
        <4>1. s.f.pg[q].items \in Seq(Tuple)
          BY <1>4, <2>1, WholeFacts, Zenon
        <4> QED BY <1>14, <3>2, <4>1, PrefixSelf, Zenon
      <3> QED BY <3>1, <3>2, Zenon
    <2> QED BY <1>14, <2>1, SMTT(30) DEF Grows
  <1>16. ASSUME NEW q \in DOMAIN b.f.pg, b.f.pg[q].kind = "chat", NEW i \in DOMAIN b.f.pg[q].items
         PROVE  q \in DOMAIN s.f.pg /\ s.f.pg[q].kind = "chat" /\ OldOrLast(s.f, b.f, q, i, n, p, k)
    <2>1. q \in DOMAIN s.f.pg /\ s.f.pg[q].kind = "chat"
      BY <1>14, <1>16, Zenon
    <2>2. CASE q = p
      <3>1. PICK d : d = b.f.pg[p].items
        OBVIOUS
      <3>2. i \in DOMAIN d /\ DOMAIN d = DOMAIN a \cup {k} /\ d[k] = <<c, m>> /\ \A j \in DOMAIN a : d[j] = a[j] /\ j < k
        BY <1>13, <1>16, <2>2, <3>1, Zenon
      <3>3. \A j \in DOMAIN a : a[j][2] \in 1..n
        BY <1>5, <1>8, <1>10, Zenon
      <3>4. <<c, m>>[2] = m
        OBVIOUS
      <3>5. \/ i \in DOMAIN a /\ d[i] = a[i] /\ a[i][2] \in 1..n
            \/ i = k /\ d[i][2] = n + 1 /\ \A j \in DOMAIN a : j < k
        BY <1>3, <3>2, <3>3, <3>4, Zenon
      <3> QED BY <1>8, <2>1, <2>2, <3>1, <3>5, Zenon DEF OldOrLast
    <2>3. CASE q # p
      <3>1. b.f.pg[q].items = s.f.pg[q].items
        BY <1>14, <2>1, <2>3, Zenon
      <3>2. s.f.pg[q].items[i][2] \in 1..n
        BY <1>10, <1>16, <2>1, <3>1, Zenon
      <3> QED BY <1>16, <2>1, <3>1, <3>2, Zenon DEF OldOrLast
    <2> QED BY <2>2, <2>3
  <1>17. InOrder(b.f)
    <2>1. k \in Nat
      BY <1>9, <1>12
    <2>2. ASSUME NEW q \in DOMAIN s.f.pg, s.f.pg[q].kind = "chat"
          PROVE  DOMAIN s.f.pg[q].items \subseteq Nat
      <3>1. s.f.pg[q].items \in Seq(Tuple)
        BY <1>4, <2>2, WholeFacts, Zenon
      <3> QED BY <3>1, SMTT(60)
    <2> QED BY <1>4, <1>16, <2>1, <2>2, OrderAfter, Zenon
  <1>18. HotAtHot(b.f, s.hotAt)
    BY <1>4, <1>14, SMTT(30) DEF HotAtHot
  <1>19. PICK more : more = Append(post, c)
    OBVIOUS
  <1>20. Len(more) = n + 1 /\ DOMAIN more = 1..(n + 1) /\ more[m] = c /\ \A i \in 1..n : more[i] = post[i]
    BY <1>1, <1>3, <1>19
  <1>21. Spot(b.f, <<c, m>>, p, k)
    BY <1>5, <1>13, <1>14, SMTT(30) DEF Spot
  <1>22. Found(b.f, b.index, more)
    <2>1. ASSUME NEW h \in 1..n
          PROVE  \E q, i : Spot(b.f, <<more[h], h>>, q, i) /\ <<h, q, i>> \in b.index[more[h]]
      <3>1. PICK q, i : Spot(s.f, <<post[h], h>>, q, i) /\ <<h, q, i>> \in s.index[post[h]]
        BY <1>1, <1>4, SMTT(30) DEF Found
      <3>2. Spot(b.f, <<post[h], h>>, q, i)
        BY <1>4, <1>14, <1>15, <3>1, SpotGrows, SMTT(30)
      <3>3. h # m /\ post[h] \in Chats
        BY <1>1, <1>11, SMTT(30)
      <3>4. <<h, q, i>> \in b.index[post[h]]
        <4>1. PICK E : E = s.index[post[h]]
          BY SMTT(30)
        <4>2. b.index[post[h]] = E \/ b.index[post[h]] = {e \in E : e[1] # m} \cup {<<m, p, k>>}
          BY <1>4, <1>14, <3>3, <4>1, SMTT(30) DEF IsMemory
        <4> QED BY <3>1, <3>3, <4>1, <4>2
      <3> QED BY <1>20, <3>2, <3>4
    <2>2. <<m, p, k>> \in b.index[c]
      BY <1>4, <1>14 DEF IsMemory
    <2>3. \A h \in 1..(n + 1) : h \in 1..n \/ h = m
      BY <1>3
    <2> QED BY <1>20, <1>21, <2>1, <2>2, <2>3 DEF Found
  <1>23. PICK r : r = [b EXCEPT !.tips[c].count = @ + 1, !.ring[c] = Newest(Append(@, m))]
    BY SMTT(30)
  <1>24. /\ IsMemory(r) /\ r.f = b.f /\ r.index = b.index /\ r.hotAt = b.hotAt
         /\ r.tips = [s.tips EXCEPT ![c].count = @ + 1]
    <2>1. PICK N : N = Newest(Append(b.ring[c], m))
      BY SMTT(30)
    <2>2. r = [[b EXCEPT !.tips[c].count = @ + 1] EXCEPT !.ring[c] = N]
      BY <1>14, <1>23, <2>1 DEF IsMemory
    <2>3. /\ r.f = b.f /\ r.index = b.index /\ r.hotAt = b.hotAt /\ r.tips = [b.tips EXCEPT ![c].count = @ + 1]
          /\ r.ring = [b.ring EXCEPT ![c] = N] /\ r.cp = b.cp
          /\ r = [f |-> r.f, tips |-> r.tips, index |-> r.index, hotAt |-> r.hotAt, ring |-> r.ring, cp |-> r.cp]
      BY <1>14, <2>2 DEF IsMemory
    <2>4. /\ r.tips = [d \in Chats |-> r.tips[d]] /\ r.ring = [d \in Chats |-> r.ring[d]]
          /\ r.index = [d \in Chats |-> r.index[d]] /\ r.hotAt = [d \in Keys |-> r.hotAt[d]]
      <3>1. /\ b.tips = [d \in Chats |-> b.tips[d]] /\ b.ring = [d \in Chats |-> b.ring[d]]
            /\ b.index = [d \in Chats |-> b.index[d]] /\ b.hotAt = [d \in Keys |-> b.hotAt[d]]
        BY <1>14 DEF IsMemory
      <3> QED BY <2>3, <3>1
    <2>5. IsMemory(r)
      BY <2>3, <2>4 DEF IsMemory
    <2> QED BY <1>14, <2>3, <2>5
  <1>25. TailsOwn(r.f, r.tips)
    <2>1. ASSUME NEW d \in Chats
          PROVE  /\ r.tips[d] = [head |-> r.tips[d].head, tail |-> r.tips[d].tail, count |-> r.tips[d].count]
                 /\ r.tips[d].tail = s.tips[d].tail
      <3>1. PICK x, y, z : s.tips[d] = [head |-> x, tail |-> y, count |-> z]
        BY <1>4, ZenonT(30) DEF TailsOwn
      <3>2. r.tips[d] = s.tips[d] \/ r.tips[d] = [s.tips[d] EXCEPT !.count = @ + 1]
        BY <1>4, <1>24 DEF IsMemory
      <3>3. PICK T : T = s.tips[d]
        OBVIOUS
      <3>4. T = [head |-> x, tail |-> y, count |-> z] /\ T.tail = y
        BY <3>1, <3>3
      <3>5. [T EXCEPT !.count = @ + 1] = [head |-> x, tail |-> y, count |-> z + 1]
        BY <3>4
      <3>6. r.tips[d] = [head |-> x, tail |-> y, count |-> z] \/ r.tips[d] = [head |-> x, tail |-> y, count |-> z + 1]
        BY <3>2, <3>3, <3>4, <3>5, SMTT(30)
      <3> QED BY <3>3, <3>4, <3>6, SMTT(30)
    <2>2. \A q, d : OfChat(s.f, q, d) => OfChat(b.f, q, d)
      BY <1>15, SMTT(30) DEF OfChat, Grows
    <2>3. \A d \in Chats : s.tips[d].tail # 0 => OfChat(s.f, s.tips[d].tail, d)
      BY <1>4 DEF TailsOwn
    <2> QED BY <1>24, <2>1, <2>2, <2>3, SMTT(30) DEF TailsOwn
  <1>26. Filed(r, more)
    BY <1>14, <1>17, <1>18, <1>20, <1>22, <1>24, <1>25 DEF Filed
  <1>27. InsertedTo(r, s, post, c)
    BY <1>1, <1>2, <1>3, <1>15, <1>19, <1>21, <1>24, <1>26, SMTT(30) DEF InsertedTo
  <1> QED BY <1>1, <1>2, <1>3, <1>6, <1>23, <1>27

\* No operation is under way.
LEMMA IdleHolds ==
  ASSUME op' = Idle
  PROVE  OpHolds' /\ op'.at = "idle"
  BY DEF OpHolds, Ops, Idle

\* A message is appended.
LEMMA AppendCrash ==
  ASSUME CrashInv, NEW c \in Chats, AppendMessage(c)
  PROVE  CrashInv'
  <1>1. PICK n \in Nat : n = Len(posted)
    BY FiledFacts
  <1>2. PICK p : p = tips[c].tail
    OBVIOUS
  <1>3. p # 0 /\ Room(mem.pg[p]) /\ op.at \in {"idle", "insert"}
    <2>1. CASE op = Idle
      <3>1. PICK q \in DOMAIN mem.pg : q = tips[c].tail /\ Room(mem.pg[q])
        BY <2>1 DEF AppendMessage, NeedsPage
      <3>2. DOMAIN mem.pg = 1..Len(mem.pg)
        BY FiledFacts, WholeFacts
      <3>3. q # 0
        BY <3>1, <3>2
      <3> QED BY <1>2, <2>1, <3>1, <3>3 DEF Idle
    <2>2. CASE op # Idle
      <3>1. op = [at |-> "insert", c |-> c]
        BY <2>2 DEF AppendMessage
      <3>2. op.at = "insert" /\ op.c = c
        BY <3>1
      <3> QED BY <1>2, <3>2 DEF CrashInv, OpHolds
    <2> QED BY <2>1, <2>2
  <1>4. PICK s : s = [RedoInsert(Loaded, c, p, n + 1) EXCEPT !.tips[c].count = @ + 1, !.ring[c] = Newest(Append(@, n + 1))]
    OBVIOUS
  <1>5. PICK rec : rec = [type |-> "insert", lsn |-> lsn, c |-> c, page |-> p, m |-> n + 1]
    OBVIOUS
  <1>6. Becomes(s) /\ posted' = Append(posted, c) /\ op' = Idle /\ UNCHANGED <<meta, snap, lives>>
    BY <1>1, <1>2, <1>4, Zenon DEF AppendMessage, Insert
  <1>7. wal' = Append(wal, rec) /\ lsn' = lsn + 1
    <2>1. Logs(InsertRec(c, p, n + 1))
      BY <1>1, <1>2, Zenon DEF AppendMessage, Insert
    <2>2. [InsertRec(c, p, n + 1) EXCEPT !.lsn = lsn] = rec
      BY <1>5 DEF InsertRec
    <2> QED BY <2>1, <2>2 DEF Logs
  <1>8. InsertedTo(s, Loaded, posted, c)
    <2>1. posted \in Seq(Chats) /\ Filed(Loaded, posted) /\ Loaded.tips[c].tail # 0 /\ Room(Loaded.f.pg[Loaded.tips[c].tail])
      BY <1>2, <1>3, FiledFacts DEF CrashInv
    <2>2. InsertedTo([RedoInsert(Loaded, c, Loaded.tips[c].tail, Len(posted) + 1) EXCEPT !.tips[c].count = @ + 1,
                                                                          !.ring[c] = Newest(Append(@, Len(posted) + 1))],
                     Loaded, posted, c)
      BY <2>1, InsertFiled, Zenon
    <2>3. Loaded.tips[c].tail = p
      BY <1>2, FiledFacts
    <2> QED BY <1>1, <1>4, <2>2, <2>3, SMTT(30)
  <1>9. Filed(s, posted') /\ Grows(mem, s.f)
    BY <1>6, <1>8, FiledFacts DEF InsertedTo
  <1>10. posted' \in Seq(Chats) /\ Len(posted) + 1 \in DOMAIN posted' /\ posted'[n + 1] = c
    BY <1>1, <1>6, FiledFacts
  <1>11. RecTrue(rec, s.f, posted')
    <2>1. \E i : Spot(s.f, <<c, n + 1>>, p, i)
      BY <1>1, <1>2, <1>8, FiledFacts DEF InsertedTo
    <2>2. rec.type = "insert" /\ rec.c = c /\ rec.page = p /\ rec.m = n + 1
      BY <1>5
    <2> QED BY <1>1, <1>10, <2>1, <2>2 DEF RecTrue
  <1>12. rec \in Recs /\ rec.lsn = lsn /\ Posts(rec)
    <2>1. p \in Nat /\ lsn \in Nat
      <3>1. OfChat(mem, p, c)
        BY <1>2, <1>3, FiledFacts DEF TailsOwn
      <3>2. DOMAIN mem.pg = 1..Len(mem.pg)
        BY FiledFacts, WholeFacts
      <3> QED BY <3>1, <3>2 DEF OfChat, CrashInv
    <2>2. rec \in [type : {"insert"}, lsn : Nat, c : Chats, page : Nat, m : Nat]
      BY <1>5, <2>1
    <2>3. rec.type = "insert" /\ rec.c = c /\ rec.m = n + 1 /\ rec.lsn = lsn
      BY <1>5
    <2> QED BY <1>1, <1>6, <2>2, <2>3 DEF Recs, Posts
  <1>13. OpHolds' /\ op'.at \in {"idle", "link", "insert"} /\ op.at \in {"idle", "link", "insert"}
    BY <1>3, <1>6, IdleHolds
  <1> QED BY <1>6, <1>7, <1>9, <1>10, <1>11, <1>12, <1>13, LoggedCrash, ZenonT(60)

\* The page taken is linked.
LEMMA LinkCrash ==
  ASSUME CrashInv, LinkIt
  PROVE  CrashInv'
  <1>1. PICK c, p : /\ op = [at |-> "link", c |-> c, page |-> p] /\ c \in Chats /\ p \in Nat
                    /\ op.at = "link" /\ op.c = c /\ op.page = p
    <2>1. op.at = "link" /\ op \in Ops
      BY DEF LinkIt, CrashInv, OpHolds
    <2>2. op \in [at : {"link"}, c : Chats, page : Nat]
      BY <2>1 DEF Ops, Idle
    <2> QED BY <2>1, <2>2
  <1>2. OfChat(mem, p, c) /\ mem.pg[p].items = <<>>
    BY <1>1 DEF CrashInv, OpHolds
  <1>3. PICK prev : prev = tips[c].tail
    OBVIOUS
  <1>4. PICK rec : rec = [type |-> "link", lsn |-> lsn, c |-> c, page |-> p, prev |-> prev]
    OBVIOUS
  <1>5. [LinkRec(c, p, prev) EXCEPT !.lsn = lsn] = rec
    BY <1>4 DEF LinkRec
  <1>6. PICK s : s = LinkPage(Loaded, c, p, prev)
    OBVIOUS
  <1>7. Apply(Loaded, LinkRec(c, p, prev)) = s
    BY <1>6 DEF Apply, LinkRec
  <1>8. /\ wal' = Append(wal, rec) /\ lsn' = lsn + 1 /\ Becomes(s) /\ op' = [at |-> "insert", c |-> c]
        /\ UNCHANGED <<meta, snap, posted, lives>>
    <2>1. Logs(LinkRec(c, p, prev)) /\ Becomes(Apply(Loaded, LinkRec(c, p, prev))) /\ op' = [at |-> "insert", c |-> c]
          /\ UNCHANGED <<meta, snap, posted, lives>>
      BY <1>1, <1>3, ZenonT(60) DEF LinkIt
    <2> QED BY <1>5, <1>7, <2>1 DEF Logs
  <1>9. PICK n \in Nat : n = Len(posted)
    BY FiledFacts
  <1>10. prev # 0 => OfChat(mem, prev, c)
    BY <1>1, <1>3, FiledFacts DEF TailsOwn
  <1>11. LinkedTo(s, Loaded, c, p, n)
    <2>1. IsMemory(Loaded) /\ Whole(Loaded.f, n) /\ TailsOwn(Loaded.f, Loaded.tips)
      BY <1>9, FiledFacts
    <2>2. p \in DOMAIN Loaded.f.pg /\ Loaded.f.pg[p].kind = "chat" /\ Loaded.f.pg[p].chat = c
      BY <1>2, FiledFacts DEF OfChat
    <2>3. prev # 0 => prev \in DOMAIN Loaded.f.pg /\ Loaded.f.pg[prev].kind = "chat"
      BY <1>10, FiledFacts DEF OfChat
    <2> QED BY <1>1, <1>6, <2>1, <2>2, <2>3, LinkKeeps
  <1>12. /\ IsMemory(s) /\ Whole(s.f, n) /\ TailsOwn(s.f, s.tips) /\ s.tips[c].tail = p
         /\ s.index = index /\ s.hotAt = hotAt /\ SameTuples(s.f, mem)
         /\ \A q \in DOMAIN mem.pg : s.f.pg[q].chat = mem.pg[q].chat
    <2>1. mem.pg[p].chat = c
      BY <1>2 DEF OfChat
    <2> QED BY <1>11, <2>1, FiledFacts DEF LinkedTo
  <1>13. /\ Grows(mem, s.f) /\ InOrder(s.f) /\ HotAtHot(s.f, s.hotAt)
         /\ \A x, q, i : Spot(mem, x, q, i) => Spot(s.f, x, q, i)
    BY <1>9, <1>12, FiledFacts, TuplesKept
  <1>14. Filed(s, posted')
    <2>1. Found(s.f, s.index, posted)
      BY <1>12, <1>13, FiledFacts DEF Found
    <2> QED BY <1>8, <1>9, <1>12, <1>13, <2>1, SMTT(30) DEF Filed
  <1>15. p \in DOMAIN mem.pg /\ p # 0 /\ prev \in Nat
    <2>1. DOMAIN mem.pg = 1..Len(mem.pg)
      BY FiledFacts, WholeFacts
    <2>2. p \in DOMAIN mem.pg
      BY <1>2 DEF OfChat
    <2>3. prev = 0 \/ prev \in DOMAIN mem.pg
      BY <1>10 DEF OfChat
    <2> QED BY <2>1, <2>2, <2>3
  <1>16. OpHolds' /\ op'.at \in {"idle", "link", "insert"} /\ op.at \in {"idle", "link", "insert"}
    <2>1. op'.at = "insert" /\ op'.c = c /\ op' \in Ops
      BY <1>1, <1>8 DEF Ops
    <2>2. s.f.pg[p].items = <<>> /\ s.f.pg[p].kind = "chat"
      BY <1>2, <1>12, <1>15 DEF SameTuples, OfChat
    <2>3. Room(s.f.pg[p])
      BY <2>2, PagesAssumption DEF Room
    <2>4. mem' = s.f /\ tips' = s.tips
      BY <1>8 DEF Becomes
    <2> QED BY <1>1, <1>12, <1>15, <2>1, <2>3, <2>4 DEF OpHolds
  <1>17. rec \in Recs /\ rec.lsn = lsn /\ Posts(rec) /\ RecTrue(rec, s.f, posted')
    <2>1. lsn \in Nat
      BY DEF CrashInv
    <2>2. rec \in [type : {"link"}, lsn : Nat, c : Chats, page : Nat, prev : Nat]
      BY <1>1, <1>4, <1>15, <2>1
    <2>3. rec.type = "link" /\ rec.c = c /\ rec.page = p /\ rec.prev = prev /\ rec.lsn = lsn
      BY <1>4
    <2>4. \A q, d : OfChat(mem, q, d) => OfChat(s.f, q, d)
      BY <1>13 DEF OfChat, Grows
    <2> QED BY <1>2, <1>8, <1>10, <2>2, <2>3, <2>4 DEF Recs, Posts, RecTrue
  <1>18. posted' \in Seq(Chats)
    BY <1>8, FiledFacts
  <1> QED BY <1>8, <1>13, <1>14, <1>16, <1>17, <1>18, LoggedCrash, SMTT(30)

\* The messages are where they were when the hot pages change.
LEMMA HeatedFiled ==
  ASSUME NEW s, NEW post, Filed(s, post), NEW r, Heated(r, s, Len(post))
  PROVE  Filed(r, post) /\ Grows(s.f, r.f)
  <1>1. PICK n : n = Len(post)
    OBVIOUS
  <1>2. /\ Whole(s.f, n) /\ InOrder(s.f) /\ TailsOwn(s.f, s.tips) /\ Found(s.f, s.index, post)
    BY <1>1 DEF Filed
  <1>3. /\ IsMemory(r) /\ Whole(r.f, n) /\ SameButHot(r.f, s.f) /\ HotAtHot(r.f, r.hotAt)
        /\ r.tips = s.tips /\ r.index = s.index
    BY <1>1 DEF Heated
  <1>4. Grows(s.f, r.f)
    BY <1>2, <1>3, HotGrows
  <1>5. \A p \in DOMAIN r.f.pg : r.f.pg[p].kind = "chat" =>
           p \in DOMAIN s.f.pg /\ s.f.pg[p].kind = "chat" /\ r.f.pg[p] = s.f.pg[p]
    BY <1>3, SMTT(30) DEF SameButHot
  <1>6. InOrder(r.f)
    <2>1. ASSUME NEW p \in DOMAIN r.f.pg, NEW q \in DOMAIN r.f.pg, r.f.pg[p].kind = "chat", r.f.pg[q].kind = "chat"
          PROVE  \A i \in DOMAIN r.f.pg[p].items, j \in DOMAIN r.f.pg[q].items :
                    /\ r.f.pg[p].items[i][2] = r.f.pg[q].items[j][2] => p = q /\ i = j
                    /\ p = q /\ i < j => r.f.pg[p].items[i][2] < r.f.pg[q].items[j][2]
      <3>1. /\ p \in DOMAIN s.f.pg /\ q \in DOMAIN s.f.pg /\ s.f.pg[p].kind = "chat" /\ s.f.pg[q].kind = "chat"
            /\ r.f.pg[p] = s.f.pg[p] /\ r.f.pg[q] = s.f.pg[q]
        BY <1>5, <2>1, SMTT(30)
      <3>2. \A i \in DOMAIN s.f.pg[p].items, j \in DOMAIN s.f.pg[q].items :
               /\ s.f.pg[p].items[i][2] = s.f.pg[q].items[j][2] => p = q /\ i = j
               /\ p = q /\ i < j => s.f.pg[p].items[i][2] < s.f.pg[q].items[j][2]
        BY <1>2, <3>1 DEF InOrder
      <3> QED BY <3>1, <3>2
    <2> QED BY <2>1, SMTT(30) DEF InOrder
  <1>7. TailsOwn(r.f, r.tips)
    <2>1. \A q, d : OfChat(s.f, q, d) => OfChat(r.f, q, d)
      BY <1>4 DEF OfChat, Grows
    <2> QED BY <1>2, <1>3, <2>1 DEF TailsOwn
  <1>8. Found(r.f, r.index, post)
    <2>1. \A x, p, i : Spot(s.f, x, p, i) => Spot(r.f, x, p, i)
      BY <1>2, <1>3, <1>4, SpotGrows
    <2> QED BY <1>2, <1>3, <2>1 DEF Found
  <1> QED BY <1>1, <1>3, <1>4, <1>6, <1>7, <1>8 DEF Filed

\* A hot key is set or deleted.
LEMMA HotCrash ==
  ASSUME CrashInv, \/ \E k \in Keys, v \in Vals : HotSet(k, v)
                   \/ \E k \in Deletable : HotDel(k)
  PROVE  CrashInv'
  <1>1. PICK n \in Nat : n = Len(posted)
    BY FiledFacts
  <1>2. IsMemory(Loaded) /\ Whole(Loaded.f, n) /\ HotAtHot(Loaded.f, Loaded.hotAt)
    BY <1>1, FiledFacts
  <1>3. lsn \in Nat
    BY DEF CrashInv
  <1>4. PICK s, rec : /\ Becomes(s) /\ Heated(s, Loaded, n) /\ rec \in Recs /\ rec.lsn = lsn /\ rec.type \in {"set", "del"}
                      /\ wal' = Append(wal, rec) /\ lsn' = lsn + 1 /\ UNCHANGED <<meta, snap, op, posted, lives>>
                      /\ op = Idle
    <2>1. CASE \E k \in Keys, v \in Vals : HotSet(k, v)
      <3>1. PICK k \in Keys, v \in Vals : HotSet(k, v)
        BY <2>1
      <3>2. PICK s : s = SetHot(Loaded, k, v)
        OBVIOUS
      <3>3. Heated(s, Loaded, n)
        BY <1>2, <3>2, SetHotHeats
      <3>4. PICK rec : rec = [type |-> "set", lsn |-> lsn, k |-> k, v |-> v]
        OBVIOUS
      <3>5. [SetRec(k, v) EXCEPT !.lsn = lsn] = rec
        BY <3>4 DEF SetRec
      <3>6. Becomes(s) /\ Logs(SetRec(k, v)) /\ op = Idle /\ UNCHANGED <<meta, snap, op, posted, lives>>
        BY <3>1, <3>2, Zenon DEF HotSet
      <3>7. wal' = Append(wal, rec) /\ lsn' = lsn + 1
        BY <3>5, <3>6 DEF Logs
      <3>8. rec \in [type : {"set"}, lsn : Nat, k : Keys, v : Vals] /\ rec.lsn = lsn /\ rec.type = "set"
        BY <1>3, <3>4
      <3> QED BY <3>3, <3>6, <3>7, <3>8 DEF Recs
    <2>2. CASE \E k \in Deletable : HotDel(k)
      <3>1. PICK k \in Keys : HotDel(k)
        BY <2>2, StoreAssumption
      <3>2. PICK s : s = DelHot(Loaded, k)
        OBVIOUS
      <3>3. Heated(s, Loaded, n)
        BY <1>2, <3>2, DelHotHeats
      <3>4. PICK rec : rec = [type |-> "del", lsn |-> lsn, k |-> k]
        OBVIOUS
      <3>5. [DelRec(k) EXCEPT !.lsn = lsn] = rec
        BY <3>4 DEF DelRec
      <3>6. Becomes(s) /\ Logs(DelRec(k)) /\ op = Idle /\ UNCHANGED <<meta, snap, op, posted, lives>>
        BY <3>1, <3>2, Zenon DEF HotDel
      <3>7. wal' = Append(wal, rec) /\ lsn' = lsn + 1
        BY <3>5, <3>6 DEF Logs
      <3>8. rec \in [type : {"del"}, lsn : Nat, k : Keys] /\ rec.lsn = lsn /\ rec.type = "del"
        BY <1>3, <3>4
      <3> QED BY <3>3, <3>6, <3>7, <3>8 DEF Recs
    <2> QED BY <2>1, <2>2
  <1>5. Filed(s, posted') /\ Grows(mem, s.f)
    <2>1. Filed(Loaded, posted)
      BY DEF CrashInv
    <2>2. Filed(s, posted) /\ Grows(Loaded.f, s.f)
      BY <1>1, <1>4, <2>1, HeatedFiled
    <2> QED BY <1>4, <2>2, FiledFacts
  <1>6. OpHolds' /\ op'.at \in {"idle", "link", "insert"} /\ op.at \in {"idle", "link", "insert"}
    BY <1>4, IdleHolds DEF Idle
  <1>7. Posts(rec) /\ RecTrue(rec, s.f, posted')
    BY <1>4 DEF Posts, RecTrue
  <1>8. posted' \in Seq(Chats)
    BY <1>4, FiledFacts
  <1> QED BY <1>4, <1>5, <1>6, <1>7, <1>8, LoggedCrash, ZenonT(60)

\* The ring is read again.
LEMMA RecentCrash ==
  ASSUME CrashInv, NEW c \in Chats, NEW more, ChatRecent(c, more)
  PROVE  CrashInv'
  <1>1. /\ UNCHANGED <<mem, disk, tips, index, hotAt, wal, lsn, meta, snap, op, posted, hot, lives>>
        /\ \E x : ring' = [ring EXCEPT ![c] = x]
    BY DEF ChatRecent
  <1>2. PICK s : s = [f |-> mem, tips |-> tips, index |-> index, hotAt |-> hotAt, ring |-> ring', cp |-> meta.cp]
    OBVIOUS
  <1>3. s.f = mem /\ s.tips = tips /\ s.index = index /\ s.hotAt = hotAt /\ s.ring = ring' /\ s.cp = meta.cp
    BY <1>2
  <1>4. IsMemory(s)
    <2>1. ring = [d \in Chats |-> ring[d]] /\ tips = [d \in Chats |-> tips[d]] /\ index = [d \in Chats |-> index[d]]
          /\ hotAt = [k \in Keys |-> hotAt[k]]
      BY FiledFacts DEF IsMemory
    <2>2. ring' = [d \in Chats |-> ring'[d]]
      BY <1>1, <2>1
    <2> QED BY <1>2, <1>3, <2>1, <2>2 DEF IsMemory
  <1>5. Filed(s, posted)
    BY <1>3, <1>4, FiledFacts DEF Filed
  <1>6. Filed(Loaded, posted)'
    BY <1>1, <1>3, <1>5, FiledNext
  <1>7. OpHolds'
    BY <1>1 DEF CrashInv, OpHolds
  <1>8. Recoverable => Recoverable'
    BY <1>1 DEF Recoverable, Checking
  <1> QED BY <1>1, <1>6, <1>7, <1>8 DEF CrashInv

\* A page more, of which the WAL does not yet know.
LEMMA GrownRecoverable ==
  ASSUME CrashInv, Recoverable, op.at \in {"idle", "link", "insert"}, op'.at \in {"idle", "link", "insert"},
         UNCHANGED <<meta, snap, wal, lsn, posted>>, Whole(mem', Len(posted)), Grows(mem, mem'), Blanked(disk', disk, mem')
  PROVE  Recoverable'
  <1>1. PICK n \in Nat : n = Len(posted)
    BY FiledFacts
  <1>2. Whole(mem, n)
    BY <1>1, FiledFacts
  <1>3. WalTrue(wal, lsn, mem, posted)'
    <2>1. WalTrue(wal, lsn, mem, posted)
      BY DEF Recoverable
    <2>2. \A i \in DOMAIN posted : i \in DOMAIN posted /\ posted[i] = posted[i]
      OBVIOUS
    <2>3. ASSUME NEW rec, RecTrue(rec, mem, posted)
          PROVE  RecTrue(rec, mem', posted)
      BY <1>1, <1>2, <2>2, <2>3, RecGrows, Zenon
    <2> QED BY <2>1, <2>3 DEF WalTrue
  <1>4. \A x, p, i : Spot(mem, x, p, i) => Spot(mem', x, p, i)
    BY <1>1, <1>2, SpotGrows
  <1>5. Written(disk, wal, meta.cp, mem, posted)'
    <2>1. Behind(disk, mem, n) /\ Len(disk.pg) = Len(mem.pg)
      BY <1>1 DEF Recoverable, Written
    <2>2. n <= n
      OBVIOUS
    <2>3. Behind(disk', mem', n) /\ Len(disk'.pg) = Len(mem'.pg)
      BY <1>1, <1>2, <2>1, <2>2, BehindGrows DEF Blanked
    <2>4. ASSUME NEW m \in DOMAIN posted
          PROVE  \/ ToRedo(wal, meta.cp, m, 0)
                 \/ \E p, i : Spot(mem', <<posted[m], m>>, p, i) /\ i \in DOMAIN disk'.pg[p].items
      <3>1. ASSUME NEW p, NEW i, Spot(mem, <<posted[m], m>>, p, i), i \in DOMAIN disk.pg[p].items
            PROVE  Spot(mem', <<posted[m], m>>, p, i) /\ i \in DOMAIN disk'.pg[p].items
        <4>1. p \in DOMAIN disk.pg
          BY <2>1, <3>1 DEF Behind, Spot
        <4> QED BY <1>4, <3>1, <4>1 DEF Blanked
      <3> QED BY <3>1 DEF Recoverable, Written
    <2> QED BY <1>1, <2>3, <2>4 DEF Written
  <1>6. Snapped(snap, wal, meta.cp, mem, posted)'
    <2>1. Snapped(snap, wal, meta.cp, mem, posted)
      BY DEF Recoverable
    <2>2. Snapped(snap, wal, meta.cp, mem', posted)
      BY <1>4, <2>1 DEF Snapped
    <2> QED BY <2>2
  <1>7. Checking'
    BY DEF Checking, Recoverable
  <1> QED BY <1>3, <1>5, <1>6, <1>7, ZenonT(60) DEF Recoverable

\* A page is taken for a chat: there is none to take from the free list.
LEMMA NewPageCrash ==
  ASSUME CrashInv, NEW c \in Chats, NewPage(c)
  PROVE  CrashInv'
  <1>1. PICK n \in Nat : n = Len(posted)
    BY FiledFacts
  <1>2. PICK p : p = Allocated(mem)
    OBVIOUS
  <1>3. PICK g : g = AllocFor(mem, c)
    OBVIOUS
  <1>4. /\ mem' = g /\ op = Idle /\ op' = [at |-> "link", c |-> c, page |-> p]
        /\ disk' = IF p > Len(disk.pg) THEN [disk EXCEPT !.pg = Append(@, Blank("chat"))] ELSE disk
        /\ UNCHANGED <<tips, index, hotAt, ring, wal, lsn, meta, snap, posted, lives>>
    BY <1>2, <1>3, Zenon DEF NewPage
  <1>5. mem \in File /\ mem.free = 0 /\ HotTrue(mem) /\ Whole(mem, n) /\ Len(mem.pg) \in Nat /\ DOMAIN mem.pg = 1..Len(mem.pg)
    BY <1>1, FiledFacts, WholeFacts
  <1>6. p = Len(mem.pg) + 1
    BY <1>2, <1>5 DEF Allocated
  <1>7. Takes(g, mem, ChatPage(c))
    BY <1>3, <1>5, AllocForEffect
  <1>8. /\ g \in File /\ p \in DOMAIN g.pg /\ g.pg[p] = ChatPage(c) /\ Len(g.pg) = Len(mem.pg) + 1 /\ g.free = 0
        /\ \A q \in DOMAIN mem.pg : q \in DOMAIN g.pg /\ g.pg[q] = mem.pg[q]
        /\ \A q \in DOMAIN g.pg : q = p \/ q \in DOMAIN mem.pg
    BY <1>2, <1>5, <1>6, <1>7 DEF Takes
  <1>9. ChatPage(c).kind = "chat" /\ ChatPage(c).chat = c /\ ChatPage(c).next = 0 /\ ChatPage(c).items = <<>>
    BY ChatPageFacts
  <1>10. Whole(g, n)
    <2>1. HotTrue(g)
      <3>1. ASSUME NEW q \in DOMAIN g.pg, g.pg[q].kind = "hot", g.pg[q].next # 0
            PROVE  g.pg[g.pg[q].next].kind = "hot"
        <4>1. q \in DOMAIN mem.pg /\ g.pg[q] = mem.pg[q]
          BY <1>8, <1>9, <3>1
        <4>2. mem.pg[q].next \in DOMAIN mem.pg
          <5>1. mem.pg[q].next \in Nat /\ mem.pg[q].next <= Len(mem.pg)
            BY <1>5, <4>1, FileFacts
          <5> QED BY <1>5, <3>1, <4>1, <5>1
        <4>3. mem.pg[mem.pg[q].next].kind = "hot"
          BY <1>5, <3>1, <4>1 DEF HotTrue
        <4> QED BY <1>8, <4>1, <4>2, <4>3
      <3> QED BY <1>5, <1>8, <3>1 DEF HotTrue
    <2>2. ASSUME NEW q \in DOMAIN g.pg
          PROVE  g.pg[q].kind # "free" /\ OwnPage(g.pg[q], n)
      <3>1. CASE q = p
        BY <1>8, <1>9, <3>1 DEF OwnPage
      <3>2. CASE q \in DOMAIN mem.pg
        BY <1>5, <1>8, <3>2, WholeFacts, SMTT(30)
      <3> QED BY <1>8, <3>1, <3>2
    <2> QED BY <1>8, <2>1, <2>2, WholeIs, SMTT(30)
  <1>11. Grows(mem, g)
    <2>1. ASSUME NEW q \in DOMAIN mem.pg
          PROVE  Prefix(mem.pg[q].items, g.pg[q].items)
      <3>1. mem.pg[q].items \in Seq(Tuple)
        BY <1>5, WholeFacts
      <3>2. Prefix(mem.pg[q].items, mem.pg[q].items)
        BY <3>1, PrefixSelf
      <3> QED BY <1>8, <3>2
    <2> QED BY <1>8, <2>1 DEF Grows
  <1>12. PICK s : s = [f |-> g, tips |-> tips, index |-> index, hotAt |-> hotAt, ring |-> ring, cp |-> meta.cp]
    OBVIOUS
  <1>13. s.f = g /\ s.tips = tips /\ s.index = index /\ s.hotAt = hotAt /\ s.ring = ring /\ s.cp = meta.cp
    BY <1>12
  <1>14. Filed(s, posted)
    <2>1. IsMemory(s)
      BY <1>12, <1>13, FiledFacts, SMTT(30) DEF IsMemory
    <2>2. InOrder(g)
      <3>1. \A u \in DOMAIN g.pg : \A i \in DOMAIN g.pg[u].items : u \in DOMAIN mem.pg /\ g.pg[u] = mem.pg[u]
        BY <1>8, <1>9
      <3>2. ASSUME NEW u \in DOMAIN g.pg, NEW v \in DOMAIN g.pg, g.pg[u].kind = "chat", g.pg[v].kind = "chat",
                   NEW i \in DOMAIN g.pg[u].items, NEW j \in DOMAIN g.pg[v].items
            PROVE  /\ g.pg[u].items[i][2] = g.pg[v].items[j][2] => u = v /\ i = j
                   /\ u = v /\ i < j => g.pg[u].items[i][2] < g.pg[v].items[j][2]
        <4>1. /\ u \in DOMAIN mem.pg /\ v \in DOMAIN mem.pg /\ g.pg[u] = mem.pg[u] /\ g.pg[v] = mem.pg[v]
          BY <3>1
        <4>2. InOrder(mem)
          BY FiledFacts
        <4>3. \A x \in DOMAIN mem.pg[u].items, y \in DOMAIN mem.pg[v].items :
                 /\ mem.pg[u].items[x][2] = mem.pg[v].items[y][2] => u = v /\ x = y
                 /\ u = v /\ x < y => mem.pg[u].items[x][2] < mem.pg[v].items[y][2]
          BY <3>2, <4>1, <4>2 DEF InOrder
        <4> QED BY <3>2, <4>1, <4>3
      <3> QED BY <3>2 DEF InOrder
    <2>3. TailsOwn(g, tips)
      <3>1. \A q, d : OfChat(mem, q, d) => OfChat(g, q, d)
        BY <1>11 DEF OfChat, Grows
      <3> QED BY <3>1, FiledFacts DEF TailsOwn
    <2>4. HotAtHot(g, hotAt)
      BY <1>8, FiledFacts DEF HotAtHot
    <2>5. Found(g, index, posted)
      <3>1. \A x, q, i : Spot(mem, x, q, i) => Spot(g, x, q, i)
        BY <1>5, <1>10, <1>11, SpotGrows
      <3> QED BY <3>1, FiledFacts DEF Found
    <2> QED BY <1>1, <1>10, <1>13, <2>1, <2>2, <2>3, <2>4, <2>5 DEF Filed
  <1>15. Filed(Loaded, posted)'
    BY <1>4, <1>13, <1>14, FiledNext
  <1>16. op'.at = "link" /\ op'.c = c /\ op'.page = p /\ op' \in Ops /\ op.at = "idle"
    <2>1. p \in Nat
      BY <1>5, <1>6
    <2> QED BY <1>4, <2>1 DEF Ops, Idle
  <1>17. OpHolds'
    BY <1>4, <1>8, <1>9, <1>16 DEF OpHolds, OfChat
  <1>18. ASSUME lives = 0
         PROVE  Recoverable'
    <2>1. Recoverable
      BY <1>18 DEF CrashInv
    <2>2. disk \in File /\ disk.free = 0 /\ Len(disk.pg) = Len(mem.pg) /\ Len(disk.pg) \in Nat /\ DOMAIN disk.pg = 1..Len(disk.pg)
      BY <2>1, WholeFacts DEF Recoverable, Written, Behind
    <2>3. disk' = Alloc(disk, "chat")
      <3>1. p > Len(disk.pg) /\ ~(disk.free > 0)
        BY <1>5, <1>6, <2>2
      <3> QED BY <1>4, <3>1 DEF Alloc
    <2>4. Takes(disk', disk, Blank("chat"))
      BY <2>2, <2>3, AllocEffect
    <2>5. Allocated(disk) = p
      BY <1>6, <2>2 DEF Allocated
    <2>6. Blanked(disk', disk, g)
      <3>1. \A q \in DOMAIN disk.pg : disk'.pg[q] = disk.pg[q]
        BY <1>5, <1>6, <2>2, <2>4, <2>5 DEF Takes
      <3>2. \A q \in DOMAIN g.pg \ DOMAIN disk.pg : q = p
        BY <1>5, <1>8, <2>2
      <3>3. disk'.pg[p] = Blank(g.pg[p].kind)
        BY <1>8, <1>9, <2>4, <2>5 DEF Takes
      <3>4. disk' \in File /\ Len(disk'.pg) = Len(g.pg) /\ disk'.free = disk.free
        BY <1>8, <2>2, <2>4, SMTT(30) DEF Takes
      <3> QED BY <3>1, <3>2, <3>3, <3>4 DEF Blanked
    <2> QED BY <1>1, <1>4, <1>10, <1>11, <1>16, <2>1, <2>6, GrownRecoverable, SMTT(30)
  <1> QED BY <1>4, <1>15, <1>17, <1>18 DEF CrashInv

\* What is in the file of a store that can be killed.
LEMMA DiskFacts ==
  ASSUME CrashInv, Recoverable
  PROVE  /\ Whole(disk, Len(posted)) /\ Behind(disk, mem, Len(posted)) /\ Len(disk.pg) = Len(mem.pg)
         /\ DOMAIN disk.pg = DOMAIN mem.pg /\ \A p \in DOMAIN mem.pg : disk.pg[p].kind = mem.pg[p].kind
         /\ disk.free = 0 /\ mem.free = 0
  <1>1. Behind(disk, mem, Len(posted)) /\ Len(disk.pg) = Len(mem.pg)
    BY DEF Recoverable, Written
  <1>2. Whole(disk, Len(posted)) /\ Whole(mem, Len(posted))
    BY <1>1, FiledFacts DEF Behind
  <1>3. DOMAIN disk.pg = 1..Len(disk.pg) /\ DOMAIN mem.pg = 1..Len(mem.pg) /\ disk.free = 0 /\ mem.free = 0
    BY <1>2, WholeFacts
  <1> QED BY <1>1, <1>2, <1>3 DEF Behind

\* A page is written to the file.
LEMMA EvictCrash ==
  ASSUME CrashInv, Evict
  PROVE  CrashInv'
  <1>1. UNCHANGED <<mem, tips, index, hotAt, ring, wal, lsn, meta, snap, op, posted, hot, lives>>
    BY DEF Evict
  <1>2. Filed(Loaded, posted)' /\ OpHolds'
    <2>1. Loaded' = Loaded
      BY <1>1 DEF Loaded
    <2> QED BY <1>1, <2>1 DEF CrashInv, OpHolds
  <1>3. ASSUME lives = 0
        PROVE  Recoverable'
    <2>1. Recoverable
      BY <1>3, SMTT(30) DEF CrashInv
    <2>2. PICK n \in Nat : n = Len(posted)
      BY FiledFacts
    <2>3. /\ Whole(disk, n) /\ Whole(mem, n) /\ Behind(disk, mem, n) /\ Len(disk.pg) = Len(mem.pg)
          /\ DOMAIN disk.pg = DOMAIN mem.pg /\ \A q \in DOMAIN mem.pg : disk.pg[q].kind = mem.pg[q].kind
          /\ disk.free = 0 /\ mem.free = 0
      BY <2>1, <2>2, DiskFacts, FiledFacts
    <2>4. PICK p \in DOMAIN disk.pg : disk.pg[p] # mem.pg[p] /\ disk' = [disk EXCEPT !.pg[p] = mem.pg[p]]
      BY <2>3 DEF Evict
    <2>5. PICK d : d = disk'
      OBVIOUS
    <2>6. /\ disk \in File /\ mem \in File /\ mem.pg[p] \in Page /\ mem.pg[p].next <= Len(disk.pg)
          /\ Len(mem.pg[p].items) <= Size(mem.pg[p].kind)
      BY <2>3, WholeFacts, FileFacts
    <2>7. d \in File /\ Writes(d, disk, p, mem.pg[p])
      BY <2>4, <2>5, <2>6, WriteEffect
    <2>8. /\ DOMAIN d.pg = DOMAIN mem.pg /\ Len(d.pg) = Len(mem.pg) /\ d.free = 0
          /\ \A q \in DOMAIN mem.pg : d.pg[q] = (IF q = p THEN mem.pg[q] ELSE disk.pg[q]) /\ d.pg[q].kind = mem.pg[q].kind
      BY <2>3, <2>7, SMTT(30) DEF Writes
    <2>9. Whole(d, n)
      <3>1. HotTrue(mem) /\ HotTrue(disk)
        BY <2>3, WholeFacts
      <3>2. ASSUME NEW q \in DOMAIN mem.pg
            PROVE  /\ d.pg[q].next \in Nat /\ (d.pg[q].next # 0 => d.pg[q].next \in DOMAIN mem.pg)
                   /\ d.pg[q].kind = "hot" /\ d.pg[q].next # 0 => mem.pg[d.pg[q].next].kind = "hot"
        <4>1. d.pg[q].next \in Nat /\ d.pg[q].next <= Len(d.pg) /\ Len(d.pg) \in Nat /\ DOMAIN d.pg = 1..Len(d.pg)
          BY <2>7, <2>8, FileFacts
        <4>2. d.pg[q].next # 0 => d.pg[q].next \in DOMAIN mem.pg
          BY <2>8, <4>1
        <4>3. ASSUME d.pg[q].kind = "hot", d.pg[q].next # 0
              PROVE  mem.pg[d.pg[q].next].kind = "hot"
          <5>1. CASE d.pg[q] = mem.pg[q]
            BY <3>1, <4>3, <5>1, SMTT(30) DEF HotTrue
          <5>2. CASE d.pg[q] = disk.pg[q]
            BY <2>3, <3>1, <4>2, <4>3, <5>2, SMTT(30) DEF HotTrue
          <5> QED BY <2>8, <5>1, <5>2
        <4> QED BY <4>1, <4>2, <4>3
      <3>3. HotTrue(d)
        BY <2>8, <3>1, <3>2, SMTT(30) DEF HotTrue
      <3>4. ASSUME NEW q \in DOMAIN d.pg
            PROVE  d.pg[q].kind # "free" /\ OwnPage(d.pg[q], n)
        <4>1. /\ mem.pg[q].kind # "free" /\ OwnPage(mem.pg[q], n)
              /\ disk.pg[q].kind # "free" /\ OwnPage(disk.pg[q], n)
          BY <2>3, <2>8, WholeIs, SMTT(30)
        <4> QED BY <2>8, <4>1
      <3> QED BY <2>7, <2>8, <3>3, <3>4, WholeIs
    <2>10. Behind(d, mem, n)
      <3>1. ASSUME NEW q \in DOMAIN d.pg, d.pg[q].kind = "chat"
            PROVE  d.pg[q].chat \in {NoChat, mem.pg[q].chat} /\ Prefix(d.pg[q].items, mem.pg[q].items)
        <4>1. CASE d.pg[q] = mem.pg[q]
          <5>1. mem.pg[q].items \in Seq(Tuple)
            BY <2>3, <2>8, WholeFacts, SMTT(30)
          <5> QED BY <4>1, <5>1, PrefixSelf, SMTT(30)
        <4>2. CASE d.pg[q] = disk.pg[q]
          BY <2>3, <2>8, <3>1, <4>2, SMTT(30) DEF Behind
        <4> QED BY <2>8, <4>1, <4>2, SMTT(30)
      <3> QED BY <2>8, <2>9, <3>1, SMTT(30) DEF Behind
    <2>11. Written(d, wal, meta.cp, mem, posted)
      <3>1. ASSUME NEW m, NEW q, NEW i, Spot(mem, <<posted[m], m>>, q, i), i \in DOMAIN disk.pg[q].items
            PROVE  i \in DOMAIN d.pg[q].items
        <4>1. q \in DOMAIN mem.pg /\ i \in DOMAIN mem.pg[q].items
          BY <3>1 DEF Spot
        <4> QED BY <2>8, <3>1, <4>1, SMTT(30)
      <3> QED BY <2>1, <2>2, <2>8, <2>10, <3>1 DEF Recoverable, Written
    <2>12. Checking'
      <3>1. disk # mem
        BY <2>4
      <3> QED BY <1>1, <2>1, <3>1 DEF Checking, Recoverable
    <2> QED BY <1>1, <2>1, <2>5, <2>11, <2>12 DEF Recoverable
  <1> QED BY <1>1, <1>2, <1>3 DEF CrashInv

\* A checkpoint is taken, step by step.
LEMMA FlushCrash ==
  ASSUME CrashInv, Flush \/ SaveMsgIndex \/ PersistMeta \/ Rotate
  PROVE  CrashInv'
  <1>1. UNCHANGED <<mem, tips, index, hotAt, ring, posted, lives>>
    BY DEF Flush, SaveMsgIndex, PersistMeta, Rotate
  <1>2. Filed(Loaded, posted)'
    <2>1. Loaded.f = mem /\ Loaded.tips = tips /\ Loaded.index = index /\ Loaded.hotAt = hotAt /\ Loaded.ring = ring
      BY FiledFacts
    <2>2. Filed(Loaded, posted)
      BY DEF CrashInv
    <2> QED BY <1>1, <2>1, <2>2, FiledNext
  <1>3. OpHolds' /\ op'.at \in {"index", "meta", "rotate", "idle"}
    BY DEF Flush, SaveMsgIndex, PersistMeta, Rotate, OpHolds, Ops, Idle
  <1>4. lsn' \in Nat /\ meta'.lsn \in Nat
    BY DEF CrashInv, Flush, SaveMsgIndex, PersistMeta, Rotate, Logs
  <1>5. ASSUME lives = 0
        PROVE  Recoverable'
    <2>1. WalTrue(wal, lsn, mem, posted) /\ Written(disk, wal, meta.cp, mem, posted)
          /\ Snapped(snap, wal, meta.cp, mem, posted) /\ Checking
      BY <1>5, SMTT(60) DEF CrashInv, Recoverable
    <2>2. PICK n \in Nat : n = Len(posted)
      BY FiledFacts
    <2>3. Whole(mem, n) /\ Found(mem, index, posted)
      BY <2>2, FiledFacts, SMTT(30)
    <2>4. Behind(mem, mem, n)
      <3>1. ASSUME NEW p \in DOMAIN mem.pg
            PROVE  Prefix(mem.pg[p].items, mem.pg[p].items)
        <4>1. mem.pg[p].items \in Seq(Tuple)
          BY <2>3, WholeFacts
        <4> QED BY <4>1, PrefixSelf
      <3> QED BY <2>3, <3>1 DEF Behind
    <2>5. \A w, cp : Written(mem, w, cp, mem, posted)
      BY <2>2, <2>3, <2>4, ZenonT(30) DEF Written, Found, Spot
    <2>6. \A w, cp, sn : sn.index = index => Snapped(sn, w, cp, mem, posted)
      <3>1. index = [c \in Chats |-> index[c]]
        BY FiledFacts DEF IsMemory
      <3> QED BY <2>3, <3>1 DEF Found, Snapped
    <2>7. CASE Flush
      <3>1. PICK rec : rec = [type |-> "checkpoint", lsn |-> lsn]
        OBVIOUS
      <3>2. [[type |-> "checkpoint", lsn |-> 0] EXCEPT !.lsn = lsn] = rec
        BY <3>1
      <3>3. /\ disk' = mem /\ wal' = Append(wal, rec) /\ lsn' = lsn + 1 /\ op' = [at |-> "index"]
            /\ UNCHANGED <<meta, snap>>
        BY <2>7, <3>2 DEF Flush, Logs
      <3>4. lsn \in Nat /\ meta.cp \in Nat /\ meta.cp <= lsn /\ snap.cp \in Nat /\ snap.cp <= lsn
        BY <2>1 DEF Checking
      <3>5. rec \in Recs /\ rec.lsn = lsn /\ rec.type = "checkpoint"
        BY <3>1, <3>4 DEF Recs
      <3>6. WalTrue(Append(wal, rec), lsn + 1, mem, posted)
        <4>1. Grows(mem, mem)
          <5>1. ASSUME NEW p \in DOMAIN mem.pg
                PROVE  Prefix(mem.pg[p].items, mem.pg[p].items)
            <6>1. mem.pg[p].items \in Seq(Tuple)
              BY <2>3, WholeFacts
            <6> QED BY <6>1, PrefixSelf
          <5> QED BY <5>1 DEF Grows
        <4>2. RecTrue(rec, mem, posted)
          BY <3>5 DEF RecTrue
        <4>3. \A i \in DOMAIN posted : i \in DOMAIN posted /\ posted[i] = posted[i]
          OBVIOUS
        <4>4. rec.type # "insert"
          BY <3>5
        <4> QED BY <2>1, <2>3, <3>4, <3>5, <4>1, <4>2, <4>3, <4>4, WalMore
      <3>7. Snapped(snap, Append(wal, rec), meta.cp, mem, posted)
        <4>1. PICK w \in Seq(Recs) : w = wal
          BY <2>1 DEF WalTrue
        <4>2. \A m : ToRedo(w, meta.cp, m, 0) => ToRedo(Append(w, rec), meta.cp, m, 0)
          BY RedoMore
        <4> QED BY <2>1, <4>1, <4>2 DEF Snapped
      <3>8. Checking'
        BY <3>3, <3>4, <1>1, SMTT(30) DEF Checking
      <3> QED BY <1>1, <2>5, <3>3, <3>6, <3>7, <3>8 DEF Recoverable
    <2>8. CASE SaveMsgIndex
      <3>1. /\ snap' = [cp |-> lsn, index |-> index] /\ op' = [at |-> "meta"] /\ op.at = "index"
            /\ UNCHANGED <<disk, wal, lsn, meta>>
        BY <2>8 DEF SaveMsgIndex
      <3>2. snap'.index = index
        BY <3>1
      <3>3. Checking'
        BY <1>1, <2>1, <3>1 DEF Checking
      <3> QED BY <1>1, <2>1, <2>6, <3>1, <3>2, <3>3, SMTT(30) DEF Recoverable
    <2>9. CASE PersistMeta
      <3>1. /\ meta' = [lsn |-> lsn, cp |-> lsn] /\ op' = [at |-> "rotate"] /\ op.at = "meta"
            /\ UNCHANGED <<disk, wal, lsn, snap>>
        BY <2>9 DEF PersistMeta
      <3>2. disk = mem /\ snap.index = index
        BY <2>1, <3>1 DEF Checking
      <3>3. Checking'
        BY <1>1, <2>1, <3>1 DEF Checking
      <3> QED BY <1>1, <2>1, <2>5, <2>6, <3>1, <3>2, <3>3, SMTT(30) DEF Recoverable
    <2>10. CASE Rotate
      <3>1. /\ wal' = <<>> /\ op' = Idle /\ op.at = "rotate" /\ UNCHANGED <<disk, lsn, meta, snap>>
        BY <2>10 DEF Rotate
      <3>2. disk = mem /\ snap.index = index
        BY <2>1, <3>1 DEF Checking
      <3>3. Checking'
        BY <1>1, <2>1, <3>1 DEF Checking, Idle
      <3>4. WalTrue(<<>>, lsn, mem, posted)
        BY DEF WalTrue
      <3> QED BY <1>1, <2>5, <2>6, <3>1, <3>2, <3>3, <3>4 DEF Recoverable
    <2> QED BY <2>7, <2>8, <2>9, <2>10
  <1> QED BY <1>1, <1>2, <1>3, <1>4, <1>5, FiledFacts, SMTT(30) DEF CrashInv

-----------------------------------------------------------------------------
(* The replay *)

\* A record is replayed unless the checkpoint covers it.
Replay(s, rec) == IF Covered(rec, s.cp) THEN s ELSE Apply(s, rec)

\* u are the first n stages of the replay.
Stages(u, n) ==
    /\ u = [i \in 0..n |-> u[i]] /\ u[0] = FromHeap
    /\ \A i \in 1..n : u[i] = Replay(u[i - 1], wal[i])

\* The replay has stages.
LEMMA StagesExist ==
  ASSUME NEW N \in Nat
  PROVE  \E u : Stages(u, N)
  <1> DEFINE T == {n \in 0..N : \E u : Stages(u, n)}
  <1>1. 0 \in T
    <2> DEFINE h == [i \in 0..0 |-> FromHeap]
    <2>1. h = [i \in 0..0 |-> h[i]] /\ h[0] = FromHeap /\ \A i \in 1..0 : FALSE
      OBVIOUS
    <2> HIDE DEF h
    <2>2. Stages(h, 0)
      BY <2>1 DEF Stages
    <2> QED BY <2>2
  <1>2. ASSUME NEW m \in 0..(N - 1), m \in T
        PROVE  m + 1 \in T
    <2>1. PICK h : Stages(h, m)
      BY <1>2
    <2>2. PICK next : next = Replay(h[m], wal[m + 1])
      OBVIOUS
    <2> DEFINE g == [i \in 0..(m + 1) |-> IF i = m + 1 THEN next ELSE h[i]]
    <2>3. /\ g = [i \in 0..(m + 1) |-> g[i]] /\ g[m + 1] = next
          /\ \A i \in 0..m : g[i] = h[i]
          /\ \A i \in 1..(m + 1) : i \in 1..m \/ i = m + 1
          /\ \A i \in 1..(m + 1) : i - 1 \in 0..m
          /\ 0 \in 0..m /\ m \in 0..m /\ (m + 1) - 1 = m /\ m + 1 \in 0..N
          /\ \A i \in 1..m : i \in 0..m
      OBVIOUS
    <2> HIDE DEF g
    <2>4. ASSUME NEW i \in 1..(m + 1)
          PROVE  g[i] = Replay(g[i - 1], wal[i])
      <3>1. g[i - 1] = h[i - 1]
        BY <2>3
      <3>2. CASE i \in 1..m
        BY <2>1, <2>3, <3>1, <3>2, Zenon DEF Stages
      <3>3. CASE i = m + 1
        BY <2>2, <2>3, <3>1, <3>3
      <3> QED BY <2>3, <3>2, <3>3
    <2>5. g[0] = FromHeap
      BY <2>1, <2>3, Zenon DEF Stages
    <2>6. Stages(g, m + 1)
      BY <2>3, <2>4, <2>5, Zenon DEF Stages
    <2> QED BY <2>3, <2>6
  <1>3. T \in SUBSET Nat
    OBVIOUS
  <1> HIDE DEF T
  <1>4. N \in T
    BY <1>1, <1>2, <1>3, Climb
  <1> QED BY <1>4 DEF T

\* The last one is what the store starts from.
LEMMA RecoveredLast ==
  ASSUME NEW N \in Nat, Len(wal) = N
  PROVE  \E u : Stages(u, N) /\ Recovered = u[N]
  <1>1. PICK h : Stages(h, N)
    BY StagesExist
  <1>2. RecoverSteps(h)
    <2> DEFINE R(n) == Replay(h[n - 1], wal[n])
    <2> HIDE DEF R
    <2>1. \A n \in 0..N : h[n] = IF n = 0 THEN FromHeap ELSE R(n)
      <3>1. \A n \in 0..N : n = 0 \/ n \in 1..N
        OBVIOUS
      <3> QED BY <1>1, <3>1, Zenon DEF Stages, R
    <2>2. h = [n \in 0..N |-> h[n]]
      BY <1>1, Zenon DEF Stages
    <2>3. h = [n \in 0..N |-> IF n = 0 THEN FromHeap ELSE R(n)]
      <3>1. [n \in 0..N |-> h[n]] = [n \in 0..N |-> IF n = 0 THEN FromHeap ELSE R(n)]
        BY <2>1
      <3> QED BY <2>2, <3>1, Zenon
    <2> QED BY <2>3, Zenon DEF RecoverSteps, R, Replay
  <1> DEFINE u == CHOOSE u : RecoverSteps(u)
  <1>3. RecoverSteps(u)
    BY <1>2
  <1>4. Recovered = u[N]
    BY Zenon DEF Recovered, RecoverSteps
  <1> HIDE DEF u
  <1>5. Stages(u, N)
    <2> DEFINE R(n) == Replay(u[n - 1], wal[n])
    <2> HIDE DEF R
    <2>1. u = [n \in 0..N |-> IF n = 0 THEN FromHeap ELSE R(n)]
      BY <1>3, Zenon DEF RecoverSteps, R, Replay
    <2>2. u = [n \in 0..N |-> u[n]] /\ u[0] = FromHeap /\ \A n \in 1..N : u[n] = R(n)
      BY <2>1
    <2> QED BY <2>2, Zenon DEF Stages, R
  <1> QED BY <1>4, <1>5

\* The memory s after the first n records were looked at.
Replayed(s, n) ==
    /\ IsMemory(s) /\ Behind(s.f, mem, Len(posted)) /\ TailsOwn(s.f, s.tips) /\ HotAtHot(s.f, s.hotAt)
    /\ \A m \in DOMAIN posted :
          \/ ToRedo(wal, meta.cp, m, n)
          \/ \E p, k : Spot(mem, <<posted[m], m>>, p, k) /\ k \in DOMAIN s.f.pg[p].items
                       /\ <<m, p, k>> \in s.index[posted[m]]
    /\ \A j \in DOMAIN wal : j > n => (Covered(wal[j], s.cp) <=> Covered(wal[j], meta.cp))

\* A message is on a page of its chat, which has room for no more than Cap.
LEMMA SpotFacts ==
  ASSUME NEW f, NEW n, Whole(f, n), NEW c, NEW m, NEW p, NEW i, Spot(f, <<c, m>>, p, i)
  PROVE  /\ OfChat(f, p, c) /\ f.pg[p].items[i] = <<c, m>> /\ f.pg[p].items[i][2] = m /\ m \in 1..n
         /\ i \in 1..Len(f.pg[p].items) /\ Len(f.pg[p].items) \in Nat /\ Len(f.pg[p].items) <= Cap
         /\ DOMAIN f.pg[p].items = 1..Len(f.pg[p].items)
  <1>1. p \in DOMAIN f.pg /\ f.pg[p].kind = "chat" /\ i \in DOMAIN f.pg[p].items /\ f.pg[p].items[i] = <<c, m>>
    BY DEF Spot
  <1>2. /\ OwnPage(f.pg[p], n) /\ Len(f.pg[p].items) \in Nat /\ DOMAIN f.pg[p].items = 1..Len(f.pg[p].items)
        /\ Len(f.pg[p].items) <= Size(f.pg[p].kind)
    BY <1>1, WholeFacts
  <1>3. <<c, m>> \in {f.pg[p].chat} \X (1..n)
    BY <1>1, <1>2 DEF OwnPage
  <1>4. Len(f.pg[p].items) <= Cap
    BY <1>1, <1>2, SMTT(30) DEF Size
  <1> QED BY <1>1, <1>2, <1>3, <1>4 DEF OfChat

\* A page that lags behind: what it has is at the same place, and its chat is the same.
LEMMA BehindPage ==
  ASSUME NEW g, NEW f, NEW n, Whole(f, n), Behind(g, f, n), NEW c \in Chats, NEW p, OfChat(f, p, c)
  PROVE  /\ p \in DOMAIN g.pg /\ g.pg[p].kind = "chat" /\ (g.pg[p].chat = c \/ (g.pg[p].chat = NoChat /\ g.pg[p].items = <<>>))
         /\ Len(g.pg[p].items) \in Nat /\ DOMAIN g.pg[p].items = 1..Len(g.pg[p].items)
         /\ \A i \in DOMAIN g.pg[p].items : i \in DOMAIN f.pg[p].items /\ g.pg[p].items[i] = f.pg[p].items[i]
  <1>1. p \in DOMAIN f.pg /\ f.pg[p].kind = "chat" /\ f.pg[p].chat = c
    BY DEF OfChat
  <1>2. /\ p \in DOMAIN g.pg /\ g.pg[p].kind = "chat" /\ g.pg[p].chat \in {NoChat, c} /\ Whole(g, n)
        /\ Prefix(g.pg[p].items, f.pg[p].items)
    BY <1>1 DEF Behind
  <1>3. PICK a, b : a = g.pg[p].items /\ b = f.pg[p].items
    OBVIOUS
  <1>4. /\ Len(a) \in Nat /\ DOMAIN a = 1..Len(a) /\ Len(b) \in Nat /\ DOMAIN b = 1..Len(b)
        /\ OwnPage(g.pg[p], n) /\ OwnPage(f.pg[p], n) /\ a \in Seq(Tuple)
    BY <1>1, <1>2, <1>3, WholeFacts, SMTT(30)
  <1>5. \A i \in DOMAIN a : i \in DOMAIN b /\ a[i] = b[i]
    BY <1>2, <1>3, <1>4 DEF Prefix
  <1>6. g.pg[p].chat = c \/ a = <<>>
    <2>1. CASE Len(a) = 0
      BY <1>4, <2>1
    <2>2. CASE Len(a) # 0
      <3>1. 1 \in DOMAIN a
        BY <1>4, <2>2, SMTT(30)
      <3>2. a[1] \in {g.pg[p].chat} \X (1..n) /\ b[1] \in {c} \X (1..n) /\ a[1] = b[1]
        BY <1>1, <1>2, <1>3, <1>4, <1>5, <3>1 DEF OwnPage
      <3> QED BY <3>2
    <2> QED BY <2>1, <2>2
  <1> QED BY <1>2, <1>3, <1>4, <1>5, <1>6

\* What is not to be redone is at its place, also in what was replayed.
LEMMA ReplayedAt ==
  ASSUME CrashInv, NEW s, NEW n, Replayed(s, n), NEW m \in DOMAIN posted, ~ToRedo(wal, meta.cp, m, n),
         NEW p, NEW i, Spot(mem, <<posted[m], m>>, p, i)
  PROVE  i \in DOMAIN s.f.pg[p].items /\ <<m, p, i>> \in s.index[posted[m]]
  <1>1. PICK q, k : /\ Spot(mem, <<posted[m], m>>, q, k) /\ k \in DOMAIN s.f.pg[q].items
                    /\ <<m, q, k>> \in s.index[posted[m]]
    BY SMTT(30) DEF Replayed
  <1>2. q = p /\ k = i
    BY <1>1, FiledFacts DEF InOrder, Spot
  <1> QED BY <1>1, <1>2

\* The record of an append is replayed.
LEMMA ReplayInsert ==
  ASSUME CrashInv, Recoverable, NEW n \in Nat, n + 1 \in DOMAIN wal, NEW s, Replayed(s, n),
         wal[n + 1].type = "insert"
  PROVE  Replayed(RedoInsert(s, wal[n + 1].c, wal[n + 1].page, wal[n + 1].m), n + 1)
  <1>1. PICK N \in Nat : N = Len(posted) /\ DOMAIN posted = 1..N
    BY FiledFacts
  <1>2. PICK c, p, m : c = wal[n + 1].c /\ p = wal[n + 1].page /\ m = wal[n + 1].m
    OBVIOUS
  <1>3. PICK i : /\ m \in DOMAIN posted /\ c = posted[m] /\ Spot(mem, <<c, m>>, p, i)
                 /\ m \in 1..N /\ c \in Chats
    <2>1. RecTrue(wal[n + 1], mem, posted)
      BY DEF Recoverable, WalTrue
    <2>2. m \in DOMAIN posted /\ c = posted[m] /\ \E i : Spot(mem, <<c, m>>, p, i)
      BY <1>2, <2>1, SMTT(30) DEF RecTrue
    <2> QED BY <1>1, <2>2, FiledFacts
  <1>4. /\ Whole(mem, N) /\ InOrder(mem) /\ Behind(s.f, mem, N) /\ Whole(s.f, N)
        /\ IsMemory(s) /\ TailsOwn(s.f, s.tips) /\ HotAtHot(s.f, s.hotAt)
    BY <1>1, FiledFacts, SMTT(30) DEF Replayed, Behind
  <1>5. /\ OfChat(mem, p, c) /\ i \in 1..Len(mem.pg[p].items) /\ Len(mem.pg[p].items) \in Nat
        /\ Len(mem.pg[p].items) <= Cap /\ DOMAIN mem.pg[p].items = 1..Len(mem.pg[p].items)
        /\ mem.pg[p].items[i] = <<c, m>>
    BY <1>3, <1>4, SpotFacts, SMTT(60)
  <1>6. PICK a, b : a = s.f.pg[p].items /\ b = mem.pg[p].items
    OBVIOUS
  <1>7. /\ p \in DOMAIN s.f.pg /\ s.f.pg[p].kind = "chat" /\ (s.f.pg[p].chat = c \/ (s.f.pg[p].chat = NoChat /\ a = <<>>))
        /\ Len(a) \in Nat /\ DOMAIN a = 1..Len(a) /\ \A h \in DOMAIN a : h \in DOMAIN b /\ a[h] = b[h]
    BY <1>3, <1>4, <1>5, <1>6, BehindPage, SMTT(30)
  <1>8. \A j \in DOMAIN wal : j > n + 1 /\ wal[j].type = "insert" => m < wal[j].m
    <2>1. \A j \in DOMAIN wal : n + 1 < j /\ wal[j].type = "insert" => wal[n + 1].m < wal[j].m
      BY DEF Recoverable, WalTrue
    <2>2. DOMAIN wal \subseteq Nat
      BY DEF Recoverable, WalTrue
    <2> QED BY <1>2, <2>1, <2>2
  <1>9. ASSUME NEW h \in 1..(i - 1)
        PROVE  h \in DOMAIN a
    <2>1. h \in DOMAIN b /\ i \in DOMAIN b /\ h < i
      BY <1>5, <1>6, SMTT(30)
    <2>2. mem.pg[p].items[h][2] < mem.pg[p].items[i][2]
      BY <1>4, <1>5, <1>6, <2>1 DEF InOrder, OfChat
    <2>3. OwnPage(mem.pg[p], N) /\ mem.pg[p].kind = "chat" /\ mem.pg[p].chat = c /\ p \in DOMAIN mem.pg
      BY <1>4, <1>5, WholeFacts DEF OfChat
    <2>4. mem.pg[p].items[h] \in {c} \X (1..N)
      BY <1>6, <2>1, <2>3 DEF OwnPage
    <2>5. PICK e \in 1..N : mem.pg[p].items[h] = <<c, e>>
      BY <2>4
    <2>6. e < m
      BY <1>5, <2>2, <2>5
    <2>7. posted[e] = c /\ e \in DOMAIN posted
      <3>1. e \in DOMAIN posted
        BY <1>1
      <3>2. PICK q, k : Spot(mem, <<posted[e], e>>, q, k)
        BY <3>1, FiledFacts DEF Found
      <3>3. OfChat(mem, q, posted[e]) /\ mem.pg[q].items[k][2] = e /\ k \in DOMAIN mem.pg[q].items
        BY <1>4, <3>2, SpotFacts, SMTT(30)
      <3>4. mem.pg[p].items[h][2] = e
        BY <2>5
      <3>5. p = q
        BY <1>4, <1>6, <2>1, <2>3, <3>3, <3>4 DEF InOrder, OfChat
      <3> QED BY <2>3, <3>1, <3>3, <3>5 DEF OfChat
    <2>8. ~ToRedo(wal, meta.cp, e, n)
      <3> SUFFICES ASSUME NEW j \in DOMAIN wal, j > n, wal[j].type = "insert", wal[j].m = e
                   PROVE  FALSE
        BY DEF ToRedo
      <3>1. j = n + 1 \/ j > n + 1
        <4>1. DOMAIN wal \subseteq Nat
          BY DEF Recoverable, WalTrue
        <4> QED BY <4>1
      <3> QED BY <1>2, <1>3, <1>8, <2>6, <3>1
    <2>9. Spot(mem, <<posted[e], e>>, p, h)
      BY <1>6, <2>1, <2>3, <2>5, <2>7 DEF Spot
    <2> QED BY <1>6, <2>7, <2>8, <2>9, ReplayedAt
  <1>10. i \in DOMAIN a \/ i = Len(a) + 1
    <2>1. CASE i = 1
      BY <1>7, <2>1
    <2>2. CASE i # 1
      <3>1. i - 1 \in 1..(i - 1)
        BY <1>5, <2>2
      <3>2. i - 1 \in DOMAIN a
        BY <1>9, <3>1
      <3> QED BY <1>5, <1>7, <3>2
    <2> QED BY <2>1, <2>2
  <1>11. SlotOf(s.f.pg[p], m) > 0 \/ Room(s.f.pg[p])
    <2>1. CASE i \in DOMAIN a
      <3>1. a[i][2] = m
        <4>1. a[i] = <<c, m>>
          BY <1>5, <1>6, <1>7, <2>1, Zenon
        <4> QED BY <4>1
      <3>2. \/ SlotOf(s.f.pg[p], m) = 0 /\ \A h \in DOMAIN s.f.pg[p].items : s.f.pg[p].items[h][2] # m
            \/ SlotOf(s.f.pg[p], m) > 0
        BY <1>6, <1>7, SlotFacts
      <3> QED BY <1>6, <2>1, <3>1, <3>2, SMTT(30)
    <2>2. CASE i = Len(a) + 1
      <3>1. Len(a) < Cap
        BY <1>5, <1>7, <2>2, PagesAssumption, SMTT(30)
      <3> QED BY <1>6, <1>7, <3>1 DEF Room
    <2> QED BY <1>10, <2>1, <2>2, SMTT(30)
  <1>12. PICK r : r = RedoInsert(s, c, p, m)
    OBVIOUS
  <1>13. PICK k : Redone(r, s, c, p, m, k, N)
    <2>1. s.f.pg[p].chat = c \/ s.f.pg[p].items = <<>>
      BY <1>6, <1>7
    <2>2. N <= N
      BY SMTT(30)
    <2> QED BY <1>3, <1>4, <1>7, <1>11, <1>12, <2>1, <2>2, RedoKeeps
  <1>14. /\ IsMemory(r) /\ Whole(r.f, N) /\ DOMAIN r.f.pg = DOMAIN s.f.pg
         /\ r.tips = s.tips /\ r.hotAt = s.hotAt /\ r.cp = s.cp
         /\ \A q \in DOMAIN s.f.pg :
               /\ r.f.pg[q].kind = s.f.pg[q].kind
               /\ q # p => r.f.pg[q].chat = s.f.pg[q].chat /\ r.f.pg[q].items = s.f.pg[q].items
         /\ r.f.pg[p].chat = c
         /\ r.index = [s.index EXCEPT ![c] = {e \in @ : e[1] # m} \cup {<<m, p, k>>}]
    BY <1>13, ZenonT(30) DEF Redone
  <1>15. \/ k \in DOMAIN a /\ a[k][2] = m /\ r.f.pg[p].items = a
         \/ k = Len(a) + 1 /\ r.f.pg[p].items = Append(a, <<c, m>>) /\ \A h \in DOMAIN a : a[h][2] # m
    BY <1>6, <1>13, Zenon DEF Redone
  <1>16. PICK z : z = r.f.pg[p].items
    BY SMTT(30)
  <1>17. a \in Seq(Tuple)
    BY <1>4, <1>6, <1>7, WholeFacts, ZenonT(60)
  <1>18. k = i /\ i \in DOMAIN z /\ (\A h \in DOMAIN a : h \in DOMAIN z) /\ Prefix(z, b)
    <2>1. CASE k \in DOMAIN a /\ a[k][2] = m /\ r.f.pg[p].items = a
      <3>1. k \in DOMAIN b /\ b[k][2] = m /\ i \in DOMAIN b /\ b[i][2] = m
        <4>1. k \in DOMAIN b /\ b[k][2] = m
          BY <1>7, <2>1
        <4>2. i \in DOMAIN b /\ b[i] = <<c, m>>
          BY <1>5, <1>6, ZenonT(30)
        <4> QED BY <4>1, <4>2
      <3>2. k = i
        BY <1>4, <1>5, <1>6, <3>1, SMTT(30) DEF InOrder, OfChat
      <3>3. Prefix(a, b)
        BY <1>4, <1>5, <1>6, <1>7 DEF Behind, OfChat
      <3> QED BY <1>16, <2>1, <3>2, <3>3
    <2>2. CASE k = Len(a) + 1 /\ r.f.pg[p].items = Append(a, <<c, m>>) /\ \A h \in DOMAIN a : a[h][2] # m
      <3>1. i \notin DOMAIN a
        <4>1. ASSUME i \in DOMAIN a PROVE a[i][2] = m
          <5>1. a[i] = <<c, m>>
            BY <1>5, <1>6, <1>7, <4>1, Zenon
          <5> QED BY <5>1
        <4> QED BY <2>2, <4>1, SMTT(30)
      <3>2. i = k /\ i = Len(a) + 1
        BY <1>10, <2>2, <3>1
      <3>3. /\ DOMAIN z = DOMAIN a \cup {i} /\ z[i] = <<c, m>> /\ \A h \in DOMAIN a : z[h] = a[h]
        BY <1>16, <1>17, <2>2, <3>2, PrefixAppend
      <3>4. Len(z) = i /\ i <= Len(b)
        <4>1. z = Append(a, <<c, m>>)
          BY <1>16, <2>2
        <4>2. Len(z) = Len(a) + 1
          BY <1>17, <4>1
        <4>3. i \in 1..Len(b) /\ Len(b) \in Nat
          BY <1>5, <1>6
        <4> QED BY <3>2, <4>2, <4>3
      <3>5. \A h \in DOMAIN z : b[h] = z[h]
        BY <1>5, <1>6, <1>7, <3>3
      <3> QED BY <3>2, <3>3, <3>4, <3>5, SMTT(30) DEF Prefix
    <2> QED BY <1>15, <2>1, <2>2
  <1>19. Behind(r.f, mem, N)
    <2>1. ASSUME NEW q \in DOMAIN r.f.pg, r.f.pg[q].kind = "chat"
          PROVE  /\ q \in DOMAIN mem.pg /\ r.f.pg[q].chat \in {NoChat, mem.pg[q].chat}
                 /\ Prefix(r.f.pg[q].items, mem.pg[q].items)
      <3>1. CASE q = p
        BY <1>5, <1>6, <1>14, <1>16, <1>18, <3>1, ZenonT(60) DEF OfChat
      <3>2. CASE q # p
        BY <1>4, <1>14, <2>1, <3>2, SMTT(30) DEF Behind
      <3> QED BY <3>1, <3>2, SMTT(30)
    <2>2. \A q \in DOMAIN mem.pg : q \in DOMAIN r.f.pg /\ r.f.pg[q].kind = mem.pg[q].kind
      BY <1>4, <1>14, SMTT(30) DEF Behind
    <2> QED BY <1>14, <2>1, <2>2 DEF Behind
  <1>20. TailsOwn(r.f, r.tips)
    <2>1. ASSUME NEW d \in Chats, s.tips[d].tail # 0
          PROVE  OfChat(r.f, s.tips[d].tail, d)
      <3>1. OfChat(s.f, s.tips[d].tail, d)
        BY <1>4, <2>1 DEF TailsOwn
      <3>2. s.tips[d].tail = p => d = c
        BY <1>7, <3>1, StoreAssumption, SMTT(30) DEF OfChat
      <3> QED BY <1>14, <3>1, <3>2 DEF OfChat
    <2> QED BY <1>4, <1>14, <2>1, SMTT(60) DEF TailsOwn
  <1>21. HotAtHot(r.f, r.hotAt)
    BY <1>4, <1>14 DEF HotAtHot
  <1>22. ASSUME NEW e \in DOMAIN posted, ~ToRedo(wal, meta.cp, e, n + 1)
         PROVE  \E q, h : Spot(mem, <<posted[e], e>>, q, h) /\ h \in DOMAIN r.f.pg[q].items
                          /\ <<e, q, h>> \in r.index[posted[e]]
    <2>1. s.index = [d \in Chats |-> s.index[d]] /\ posted[e] \in Chats
      BY <1>4, FiledFacts DEF IsMemory
    <2>2. CASE e = m
      <3>1. <<m, p, i>> \in r.index[c]
        BY <1>3, <1>14, <1>18, <2>1
      <3> QED BY <1>3, <1>16, <1>18, <2>2, <3>1, SMTT(30)
    <2>3. CASE e # m
      <3>1. ~ToRedo(wal, meta.cp, e, n)
        <4> SUFFICES ASSUME NEW j \in DOMAIN wal, j > n, wal[j].type = "insert", wal[j].m = e, ~Covered(wal[j], meta.cp)
                     PROVE  FALSE
          BY DEF ToRedo
        <4>1. j = n + 1 \/ j > n + 1
          <5>1. DOMAIN wal \subseteq Nat
            BY DEF Recoverable, WalTrue
          <5> QED BY <5>1
        <4> QED BY <1>2, <1>22, <2>3, <4>1 DEF ToRedo
      <3>2. PICK q, h : /\ Spot(mem, <<posted[e], e>>, q, h) /\ h \in DOMAIN s.f.pg[q].items
                        /\ <<e, q, h>> \in s.index[posted[e]]
        BY <3>1 DEF Replayed
      <3>3. q \in DOMAIN s.f.pg
        BY <1>4, <3>2 DEF Behind, Spot
      <3>4. h \in DOMAIN r.f.pg[q].items
        <4>1. CASE q = p
          BY <1>6, <1>16, <1>18, <3>2, <4>1, SMTT(30)
        <4>2. CASE q # p
          BY <1>14, <3>2, <3>3, <4>2
        <4> QED BY <4>1, <4>2
      <3>5. <<e, q, h>> \in r.index[posted[e]]
        <4>1. PICK I : I = s.index[posted[e]]
          OBVIOUS
        <4>2. r.index[posted[e]] = I \/ r.index[posted[e]] = {x \in I : x[1] # m} \cup {<<m, p, k>>}
          BY <1>14, <2>1, <4>1
        <4>3. <<e, q, h>> \in I /\ <<e, q, h>>[1] # m
          BY <2>3, <3>2, <4>1, SMTT(30)
        <4> QED BY <4>2, <4>3
      <3> QED BY <3>2, <3>4, <3>5
    <2> QED BY <2>2, <2>3
  <1>23. \A j \in DOMAIN wal : j > n + 1 => (Covered(wal[j], r.cp) <=> Covered(wal[j], meta.cp))
    <2>1. \A j \in DOMAIN wal : j > n + 1 => j > n
      <3>1. DOMAIN wal \subseteq Nat
        BY DEF Recoverable, WalTrue
      <3> QED BY <3>1, SMTT(30)
    <2> QED BY <1>14, <2>1 DEF Replayed
  <1>24. Replayed(r, n + 1)
    <2>1. Behind(r.f, mem, Len(posted))
      BY <1>1, <1>19
    <2> QED BY <1>14, <1>20, <1>21, <1>22, <1>23, <2>1 DEF Replayed
  <1> QED BY <1>2, <1>12, <1>24

\* A file with the same tuples lags behind like the other.
LEMMA BehindSame ==
  ASSUME NEW f, NEW n, NEW g, Behind(g, f, n), NEW h, Whole(h, n),
         \A q \in DOMAIN g.pg : q \in DOMAIN h.pg /\ h.pg[q].kind = g.pg[q].kind,
         \A q \in DOMAIN h.pg : h.pg[q].kind = "chat" =>
            /\ q \in DOMAIN g.pg /\ g.pg[q].kind = "chat" /\ h.pg[q].items = g.pg[q].items
            /\ h.pg[q].chat = g.pg[q].chat \/ OfChat(f, q, h.pg[q].chat)
  PROVE  Behind(h, f, n)
  <1>1. \A q \in DOMAIN f.pg : q \in DOMAIN h.pg /\ h.pg[q].kind = f.pg[q].kind
    BY DEF Behind
  <1>2. ASSUME NEW q \in DOMAIN h.pg, h.pg[q].kind = "chat"
        PROVE  q \in DOMAIN f.pg /\ h.pg[q].chat \in {NoChat, f.pg[q].chat} /\ Prefix(h.pg[q].items, f.pg[q].items)
    <2>1. /\ q \in DOMAIN g.pg /\ g.pg[q].kind = "chat" /\ h.pg[q].items = g.pg[q].items
          /\ h.pg[q].chat = g.pg[q].chat \/ OfChat(f, q, h.pg[q].chat)
      BY <1>2
    <2>2. q \in DOMAIN f.pg /\ g.pg[q].chat \in {NoChat, f.pg[q].chat} /\ Prefix(g.pg[q].items, f.pg[q].items)
      BY <2>1 DEF Behind
    <2> QED BY <2>1, <2>2 DEF OfChat
  <1> QED BY <1>1, <1>2 DEF Behind

\* A record that puts no message leaves the messages where they are.
LEMMA ReplayKept ==
  ASSUME CrashInv, Recoverable, NEW n \in Nat, n + 1 \in DOMAIN wal, NEW s, Replayed(s, n),
         wal[n + 1].type # "insert" \/ Covered(wal[n + 1], meta.cp),
         NEW r, IsMemory(r), Behind(r.f, mem, Len(posted)), TailsOwn(r.f, r.tips), HotAtHot(r.f, r.hotAt),
         r.index = s.index, \A q \in DOMAIN mem.pg : mem.pg[q].kind = "chat" => r.f.pg[q].items = s.f.pg[q].items,
         \A j \in DOMAIN wal : j > n + 1 => (Covered(wal[j], r.cp) <=> Covered(wal[j], meta.cp))
  PROVE  Replayed(r, n + 1)
  <1>1. ASSUME NEW m \in DOMAIN posted, ~ToRedo(wal, meta.cp, m, n + 1)
        PROVE  \E p, k : Spot(mem, <<posted[m], m>>, p, k) /\ k \in DOMAIN r.f.pg[p].items
                         /\ <<m, p, k>> \in r.index[posted[m]]
    <2>1. ~ToRedo(wal, meta.cp, m, n)
      <3> SUFFICES ASSUME NEW j \in DOMAIN wal, j > n, wal[j].type = "insert", wal[j].m = m, ~Covered(wal[j], meta.cp)
                   PROVE  FALSE
        BY DEF ToRedo
      <3>1. j = n + 1 \/ j > n + 1
        <4>1. DOMAIN wal \subseteq Nat
          BY DEF Recoverable, WalTrue
        <4> QED BY <4>1
      <3> QED BY <1>1, <3>1 DEF ToRedo
    <2>2. PICK p, k : /\ Spot(mem, <<posted[m], m>>, p, k) /\ k \in DOMAIN s.f.pg[p].items
                      /\ <<m, p, k>> \in s.index[posted[m]]
      BY <2>1 DEF Replayed
    <2> QED BY <2>2, SMTT(30) DEF Spot
  <1> QED BY <1>1 DEF Replayed

\* The record of a link is replayed.
LEMMA ReplayLink ==
  ASSUME CrashInv, Recoverable, NEW n \in Nat, n + 1 \in DOMAIN wal, NEW s, Replayed(s, n),
         wal[n + 1].type = "link"
  PROVE  Replayed(LinkPage(s, wal[n + 1].c, wal[n + 1].page, wal[n + 1].prev), n + 1)
  <1>1. PICK N \in Nat : N = Len(posted)
    BY FiledFacts
  <1>2. PICK c, p, prev : c = wal[n + 1].c /\ p = wal[n + 1].page /\ prev = wal[n + 1].prev
    OBVIOUS
  <1>3. c \in Chats /\ OfChat(mem, p, c) /\ (prev # 0 => OfChat(mem, prev, c))
    <2>1. RecTrue(wal[n + 1], mem, posted) /\ wal[n + 1] \in Recs
      BY DEF Recoverable, WalTrue
    <2>2. wal[n + 1] \in [type : {"link"}, lsn : Nat, c : Chats, page : Nat, prev : Nat]
      BY <2>1, SMTT(30) DEF Recs
    <2> QED BY <1>2, <2>1, <2>2 DEF RecTrue
  <1>4. /\ Whole(mem, N) /\ Behind(s.f, mem, N) /\ Whole(s.f, N)
        /\ IsMemory(s) /\ TailsOwn(s.f, s.tips) /\ HotAtHot(s.f, s.hotAt)
    BY <1>1, FiledFacts DEF Replayed, Behind
  <1>5. /\ p \in DOMAIN s.f.pg /\ s.f.pg[p].kind = "chat"
        /\ s.f.pg[p].chat = c \/ (s.f.pg[p].chat = NoChat /\ s.f.pg[p].items = <<>>)
    BY <1>3, <1>4, BehindPage
  <1>6. prev # 0 => prev \in DOMAIN s.f.pg /\ s.f.pg[prev].kind = "chat"
    BY <1>3, <1>4, BehindPage
  <1>7. PICK r : r = LinkPage(s, c, p, prev)
    OBVIOUS
  <1>8. LinkedTo(r, s, c, p, N)
    BY <1>3, <1>4, <1>5, <1>6, <1>7, LinkKeeps, SMTT(30)
  <1>9. /\ IsMemory(r) /\ Whole(r.f, N) /\ TailsOwn(r.f, r.tips) /\ r.index = s.index /\ r.hotAt = s.hotAt
        /\ r.cp = s.cp /\ DOMAIN r.f.pg = DOMAIN s.f.pg
        /\ \A q \in DOMAIN s.f.pg :
              /\ r.f.pg[q].kind = s.f.pg[q].kind /\ r.f.pg[q].items = s.f.pg[q].items
              /\ r.f.pg[q].chat = IF q = p THEN c ELSE s.f.pg[q].chat
    BY <1>8 DEF LinkedTo, SameTuples
  <1>10. Behind(r.f, mem, N)
    <2>1. \A q \in DOMAIN r.f.pg : r.f.pg[q].chat = s.f.pg[q].chat \/ OfChat(mem, q, r.f.pg[q].chat)
      BY <1>3, <1>9
    <2> QED BY <1>4, <1>9, <2>1, BehindSame, SMTT(30)
  <1>11. HotAtHot(r.f, r.hotAt)
    BY <1>4, <1>9, SMTT(30) DEF HotAtHot
  <1>12. \A q \in DOMAIN mem.pg : r.f.pg[q].items = s.f.pg[q].items
    BY <1>4, <1>9 DEF Behind
  <1>13. \A j \in DOMAIN wal : j > n + 1 => (Covered(wal[j], r.cp) <=> Covered(wal[j], meta.cp))
    <2>1. \A j \in DOMAIN wal : j > n + 1 => j > n
      <3>1. DOMAIN wal \subseteq Nat
        BY DEF Recoverable, WalTrue
      <3> QED BY <3>1
    <2> QED BY <1>9, <2>1 DEF Replayed
  <1>14. wal[n + 1].type # "insert" /\ Behind(r.f, mem, Len(posted))
    BY <1>1, <1>10
  <1>15. Replayed(r, n + 1)
    BY <1>9, <1>11, <1>12, <1>13, <1>14, ReplayKept, SMTT(30)
  <1> QED BY <1>2, <1>7, <1>15, ZenonT(60)

\* The record of a hot key is replayed.
LEMMA ReplayHot ==
  ASSUME CrashInv, Recoverable, NEW n \in Nat, n + 1 \in DOMAIN wal, NEW s, Replayed(s, n),
         wal[n + 1].type \in {"set", "del"}, NEW r, Heated(r, s, Len(posted))
  PROVE  Replayed(r, n + 1)
  <1>1. PICK N \in Nat : N = Len(posted)
    BY FiledFacts, SMTT(30)
  <1>2. Behind(s.f, mem, N) /\ Whole(s.f, N) /\ TailsOwn(s.f, s.tips)
    BY <1>1 DEF Replayed, Behind
  <1>3. /\ IsMemory(r) /\ Whole(r.f, N) /\ SameButHot(r.f, s.f) /\ HotAtHot(r.f, r.hotAt)
        /\ r.tips = s.tips /\ r.index = s.index /\ r.cp = s.cp
    BY <1>1 DEF Heated
  <1>4. \A q \in DOMAIN s.f.pg : s.f.pg[q].kind \in {"chat", "hot"}
    BY <1>2, WholeFacts
  <1>5. Behind(r.f, mem, N)
    <2>1. \A q \in DOMAIN s.f.pg : q \in DOMAIN r.f.pg /\ r.f.pg[q].kind = s.f.pg[q].kind
      BY <1>3, <1>4 DEF SameButHot
    <2>2. \A q \in DOMAIN r.f.pg : r.f.pg[q].kind = "chat" =>
             q \in DOMAIN s.f.pg /\ s.f.pg[q].kind = "chat" /\ r.f.pg[q] = s.f.pg[q]
      BY <1>3 DEF SameButHot
    <2> QED BY <1>2, <1>3, <2>1, <2>2, BehindSame, SMTT(30)
  <1>6. TailsOwn(r.f, r.tips)
    <2>1. \A q, d : OfChat(s.f, q, d) => OfChat(r.f, q, d)
      BY <1>3, SMTT(30) DEF OfChat, SameButHot
    <2> QED BY <1>2, <1>3, <2>1 DEF TailsOwn
  <1>7. \A q \in DOMAIN mem.pg : mem.pg[q].kind = "chat" => r.f.pg[q].items = s.f.pg[q].items
    BY <1>2, <1>3 DEF Behind, SameButHot
  <1>8. \A j \in DOMAIN wal : j > n + 1 => (Covered(wal[j], r.cp) <=> Covered(wal[j], meta.cp))
    <2>1. \A j \in DOMAIN wal : j > n + 1 => j > n
      <3>1. DOMAIN wal \subseteq Nat
        BY DEF Recoverable, WalTrue
      <3> QED BY <3>1
    <2> QED BY <1>3, <2>1 DEF Replayed
  <1>9. wal[n + 1].type # "insert" /\ Behind(r.f, mem, Len(posted))
    BY <1>1, <1>5, SMTT(30)
  <1> QED BY <1>3, <1>6, <1>7, <1>8, <1>9, ReplayKept, SMTT(30)

\* A checkpoint that the replay comes to covers nothing that follows.
LEMMA ReplayCheckpoint ==
  ASSUME CrashInv, Recoverable, NEW n \in Nat, n + 1 \in DOMAIN wal, NEW s, Replayed(s, n),
         wal[n + 1].type = "checkpoint", ~Covered(wal[n + 1], meta.cp),
         NEW r, r = [s EXCEPT !.cp = wal[n + 1].lsn + 1]
  PROVE  Replayed(r, n + 1)
  <1>1. /\ IsMemory(s) /\ Behind(s.f, mem, Len(posted)) /\ TailsOwn(s.f, s.tips) /\ HotAtHot(s.f, s.hotAt)
    BY DEF Replayed
  <1>2. /\ IsMemory(r) /\ r.f = s.f /\ r.tips = s.tips /\ r.index = s.index /\ r.hotAt = s.hotAt
        /\ r.cp = wal[n + 1].lsn + 1
    BY <1>1 DEF IsMemory
  <1>3. ASSUME NEW j \in DOMAIN wal, j > n + 1
        PROVE  Covered(wal[j], r.cp) <=> Covered(wal[j], meta.cp)
    <2>1. wal[n + 1].lsn < wal[j].lsn
      <3>1. DOMAIN wal \subseteq Nat
        BY DEF Recoverable, WalTrue
      <3> QED BY <1>3, <3>1 DEF Recoverable, WalTrue
    <2>2. PICK x, y : x = wal[n + 1].lsn /\ y = wal[j].lsn
      OBVIOUS
    <2>3. x \in Nat /\ y \in Nat /\ meta.cp \in Nat
      <3>1. wal[n + 1] \in Recs /\ wal[j] \in Recs
        BY DEF Recoverable, WalTrue
      <3> QED BY <2>2, <3>1, SMTT(30) DEF Recs, Recoverable, Checking
    <2>4. ~(x < meta.cp)
      BY <2>2 DEF Covered
    <2>5. ~(y < x + 1) /\ ~(y < meta.cp)
      BY <2>1, <2>2, <2>3, <2>4
    <2> QED BY <1>2, <2>2, <2>5 DEF Covered
  <1>4. wal[n + 1].type # "insert"
    OBVIOUS
  <1> QED BY <1>1, <1>2, <1>3, <1>4, ReplayKept

\* One record is replayed, or is covered.
LEMMA ReplayStep ==
  ASSUME CrashInv, Recoverable, NEW n \in Nat, n + 1 \in DOMAIN wal, NEW s, Replayed(s, n)
  PROVE  Replayed(Replay(s, wal[n + 1]), n + 1)
  <1>1. PICK rec \in Recs : rec = wal[n + 1]
    BY DEF Recoverable, WalTrue
  <1>2. Covered(rec, s.cp) <=> Covered(rec, meta.cp)
    <2>1. n + 1 > n
      BY SMTT(30)
    <2> QED BY <1>1, <2>1 DEF Replayed
  <1>3. /\ IsMemory(s) /\ Behind(s.f, mem, Len(posted)) /\ TailsOwn(s.f, s.tips) /\ HotAtHot(s.f, s.hotAt)
        /\ Whole(s.f, Len(posted)) /\ Len(posted) \in Nat
    BY FiledFacts DEF Replayed, Behind
  <1>4. CASE Covered(rec, s.cp)
    <2>1. Replay(s, rec) = s
      BY <1>4 DEF Replay
    <2>2. \A j \in DOMAIN wal : j > n + 1 => (Covered(wal[j], s.cp) <=> Covered(wal[j], meta.cp))
      <3>1. \A j \in DOMAIN wal : j > n + 1 => j > n
        <4>1. DOMAIN wal \subseteq Nat
          BY DEF Recoverable, WalTrue
        <4> QED BY <4>1
      <3> QED BY <3>1 DEF Replayed
    <2>3. Replayed(s, n + 1)
      BY <1>1, <1>2, <1>3, <1>4, <2>2, ReplayKept, SMTT(30)
    <2> QED BY <1>1, <2>1, <2>3
  <1>5. CASE ~Covered(rec, s.cp)
    <2>1. Replay(s, rec) = Apply(s, rec) /\ ~Covered(rec, meta.cp)
      BY <1>2, <1>5 DEF Replay
    <2>2. CASE rec.type = "insert"
      <3>1. Apply(s, rec) = RedoInsert(s, rec.c, rec.page, rec.m)
        BY <2>2, Zenon DEF Apply
      <3>2. Replayed(RedoInsert(s, rec.c, rec.page, rec.m), n + 1)
        BY <1>1, <2>2, ReplayInsert
      <3> QED BY <1>1, <2>1, <3>1, <3>2
    <2>3. CASE rec.type = "link"
      <3>1. Apply(s, rec) = LinkPage(s, rec.c, rec.page, rec.prev)
        BY <2>3 DEF Apply
      <3>2. Replayed(LinkPage(s, rec.c, rec.page, rec.prev), n + 1)
        BY <1>1, <2>3, ReplayLink
      <3> QED BY <1>1, <2>1, <3>1, <3>2
    <2>4. CASE rec.type = "set"
      <3>1. Apply(s, rec) = SetHot(s, rec.k, rec.v)
        BY <2>4 DEF Apply
      <3>2. rec.k \in Keys /\ rec.v \in Vals
        BY <2>4 DEF Recs
      <3>3. Heated(SetHot(s, rec.k, rec.v), s, Len(posted))
        BY <1>3, <3>2, SetHotHeats
      <3>4. Replayed(SetHot(s, rec.k, rec.v), n + 1)
        BY <1>1, <2>4, <3>3, ReplayHot
      <3> QED BY <1>1, <2>1, <3>1, <3>4
    <2>5. CASE rec.type = "del"
      <3>1. Apply(s, rec) = DelHot(s, rec.k)
        BY <2>5 DEF Apply
      <3>2. rec.k \in Keys
        BY <2>5 DEF Recs
      <3>3. Heated(DelHot(s, rec.k), s, Len(posted))
        BY <1>3, <3>2, DelHotHeats
      <3>4. Replayed(DelHot(s, rec.k), n + 1)
        BY <1>1, <2>5, <3>3, ReplayHot
      <3> QED BY <1>1, <2>1, <3>1, <3>4
    <2>6. CASE rec.type = "checkpoint"
      <3>1. Apply(s, rec) = [s EXCEPT !.cp = rec.lsn + 1]
        BY <2>6 DEF Apply
      <3>2. PICK r : r = [s EXCEPT !.cp = rec.lsn + 1]
        OBVIOUS
      <3>3. Replayed(r, n + 1)
        BY <1>1, <2>1, <2>6, <3>2, ReplayCheckpoint
      <3> QED BY <1>1, <2>1, <3>1, <3>2, <3>3
    <2> QED BY <2>2, <2>3, <2>4, <2>5, <2>6 DEF Recs
  <1> QED BY <1>4, <1>5

\* The greatest of some pages is one of them.
LEMMA MaxIn ==
  ASSUME NEW n \in Nat, NEW T \in SUBSET (1..n), T # {}
  PROVE  Max(T) \in T
  <1>1. PICK s : Ascends(s, T)
    BY SortedOf
  <1>2. T \in SUBSET Nat
    OBVIOUS
  <1>3. LastOf(s) = Max(T) /\ s # <<>>
    BY <1>1, <1>2, AscendsFacts
  <1>4. s \in Seq(T)
    BY <1>1 DEF Ascends
  <1> QED BY <1>3, <1>4, FrontLast

\* The file with its chats linked anew is like the file on disk.
LEMMA HeapFile ==
  ASSUME CrashInv, Recoverable, NEW g, g = Relinked
  PROVE  /\ Behind(g, mem, Len(posted)) /\ DOMAIN g.pg = DOMAIN disk.pg
         /\ \A p \in DOMAIN disk.pg :
               g.pg[p].kind = disk.pg[p].kind /\ g.pg[p].chat = disk.pg[p].chat /\ g.pg[p].items = disk.pg[p].items
  <1>1. PICK n \in Nat : n = Len(posted)
    BY FiledFacts
  <1>2. Whole(disk, n) /\ Behind(disk, mem, n)
    BY <1>1, DiskFacts
  <1>3. disk \in File
    BY <1>2, WholeFacts
  <1>4. Rewired(g, Len(disk.pg))
    BY <1>3, RelinkedEffect
  <1>5. Shape(disk, <<>>, NoChains, n)
    BY <1>2 DEF Whole
  <1>6. /\ Shape(g, <<>>, ByNumber, n) /\ DOMAIN g.pg = DOMAIN disk.pg
        /\ \A p \in DOMAIN disk.pg :
              g.pg[p].kind = disk.pg[p].kind /\ g.pg[p].chat = disk.pg[p].chat /\ g.pg[p].items = disk.pg[p].items
    BY <1>4, <1>5, ByNumberShape
  <1>7. Whole(g, n)
    <2>1. g \in File /\ HotTrue(g) /\ \A p \in DOMAIN g.pg : OwnPage(g.pg[p], n)
      BY <1>6 DEF Shape
    <2>2. g.free = 0
      BY <1>4, <1>2, WholeFacts DEF Rewired
    <2>3. \A p \in DOMAIN g.pg : g.pg[p].kind # "free"
      BY <1>2, <1>6, WholeFacts
    <2> QED BY <2>1, <2>2, <2>3, WholeIs
  <1>8. Behind(g, mem, n)
    BY <1>2, <1>6, <1>7, BehindSame
  <1> QED BY <1>1, <1>6, <1>8

\* The tail the store finds for a chat is a page of the chat.
LEMMA HeapTail ==
  ASSUME disk \in File, NEW c \in Chats
  PROVE  /\ TipFromHeap(c) = [head |-> TipFromHeap(c).head, tail |-> TipFromHeap(c).tail, count |-> TipFromHeap(c).count]
         /\ TipFromHeap(c).tail # 0 => OfChat(disk, TipFromHeap(c).tail, c)
  <1>1. PICK ids : ids = PagesOf(c)
    OBVIOUS
  <1>2. ids \in SUBSET (1..Len(disk.pg)) /\ Len(disk.pg) \in Nat /\ \A p \in ids : OfChat(disk, p, c)
    BY <1>1, FileFacts DEF PagesOf, OfChat
  <1>3. CASE ids = {}
    <2>1. TipFromHeap(c) = NoTip
      BY <1>1, <1>3 DEF TipFromHeap
    <2> QED BY <2>1 DEF NoTip
  <1>4. CASE ids # {}
    <2>1. PICK x, y, z : x = Min(ids) /\ y = Max(ids) /\ z = Len(Contents(Relinked, Min(ids)))
      OBVIOUS
    <2>2. TipFromHeap(c) = [head |-> x, tail |-> y, count |-> z]
      BY <1>1, <1>4, <2>1, Zenon DEF TipFromHeap
    <2>3. y \in ids
      BY <1>2, <1>4, <2>1, MaxIn
    <2> QED BY <1>2, <2>2, <2>3
  <1> QED BY <1>3, <1>4

\* The page the store finds for a hot key is a hot page.
LEMMA HeapHot ==
  ASSUME disk \in File, NEW k \in Keys
  PROVE  HotFromHeap(k) = 0 \/ (HotFromHeap(k) \in DOMAIN disk.pg /\ disk.pg[HotFromHeap(k)].kind = "hot")
  <1> DEFINE on == {p \in DOMAIN disk.pg : disk.pg[p].kind = "hot" /\
                                           \E t \in ToSet(disk.pg[p].items) : t[1] = k}
  <1>1. HotFromHeap(k) = IF on = {} THEN 0 ELSE Max(on)
    BY DEF HotFromHeap
  <1>2. on \in SUBSET (1..Len(disk.pg)) /\ Len(disk.pg) \in Nat /\ \A p \in on : p \in DOMAIN disk.pg /\ disk.pg[p].kind = "hot"
    BY FileFacts
  <1> HIDE DEF on
  <1>3. on # {} => Max(on) \in on
    BY <1>2, MaxIn
  <1> QED BY <1>1, <1>2, <1>3

\* The store starts from what the file and the snapshot have.
LEMMA ReplayBase ==
  ASSUME CrashInv, Recoverable
  PROVE  Replayed(FromHeap, 0)
  <1>1. PICK n \in Nat : n = Len(posted)
    BY FiledFacts
  <1>2. PICK g : g = Relinked
    OBVIOUS
  <1>3. /\ Behind(g, mem, n) /\ DOMAIN g.pg = DOMAIN disk.pg
        /\ \A p \in DOMAIN disk.pg :
              g.pg[p].kind = disk.pg[p].kind /\ g.pg[p].chat = disk.pg[p].chat /\ g.pg[p].items = disk.pg[p].items
    BY <1>1, <1>2, HeapFile
  <1>4. disk \in File /\ Whole(disk, n) /\ Behind(disk, mem, n)
    BY <1>1, DiskFacts, WholeFacts
  <1>5. PICK tip, at : tip = [c \in Chats |-> TipFromHeap(c)] /\ at = [k \in Keys |-> HotFromHeap(k)]
    OBVIOUS
  <1>6. TailsOwn(g, tip)
    <2>1. ASSUME NEW c \in Chats
          PROVE  /\ tip[c] = [head |-> tip[c].head, tail |-> tip[c].tail, count |-> tip[c].count]
                 /\ tip[c].tail # 0 => OfChat(g, tip[c].tail, c)
      <3>1. tip[c] = TipFromHeap(c)
        BY <1>5
      <3>2. /\ tip[c] = [head |-> tip[c].head, tail |-> tip[c].tail, count |-> tip[c].count]
            /\ tip[c].tail # 0 => OfChat(disk, tip[c].tail, c)
        BY <1>4, <3>1, HeapTail
      <3> QED BY <1>3, <3>2 DEF OfChat
    <2> QED BY <2>1 DEF TailsOwn
  <1>7. HotAtHot(g, at)
    <2>1. \A k \in Keys : at[k] = 0 \/ (at[k] \in DOMAIN disk.pg /\ disk.pg[at[k]].kind = "hot")
      BY <1>4, <1>5, HeapHot
    <2> QED BY <1>3, <2>1 DEF HotAtHot
  <1>8. PICK idx : idx = IF snap.cp = meta.cp /\ \E c \in Chats : snap.index[c] # {}
                         THEN snap.index ELSE [c \in Chats |-> IndexFromHeap(c)]
    OBVIOUS
  <1>9. PICK s : s = FromHeap
    OBVIOUS
  <1>10. s = [f |-> g, tips |-> tip, index |-> idx, hotAt |-> at, ring |-> [c \in Chats |-> <<>>], cp |-> meta.cp]
    BY <1>2, <1>5, <1>8, <1>9, Zenon DEF FromHeap
  <1>11. idx = [c \in Chats |-> idx[c]]
    <2>1. CASE snap.cp = meta.cp /\ \E c \in Chats : snap.index[c] # {}
      BY <1>8, <2>1 DEF Recoverable, Snapped
    <2>2. CASE ~(snap.cp = meta.cp /\ \E c \in Chats : snap.index[c] # {})
      BY <1>8, <2>2
    <2> QED BY <2>1, <2>2
  <1>12. /\ IsMemory(s) /\ s.f = g /\ s.tips = tip /\ s.index = idx /\ s.hotAt = at /\ s.cp = meta.cp
    BY <1>5, <1>10, <1>11 DEF IsMemory
  <1>13. ASSUME NEW m \in DOMAIN posted, ~ToRedo(wal, meta.cp, m, 0)
         PROVE  \E p, k : Spot(mem, <<posted[m], m>>, p, k) /\ k \in DOMAIN g.pg[p].items /\ <<m, p, k>> \in idx[posted[m]]
    <2>1. PICK c \in Chats : c = posted[m]
      BY FiledFacts
    <2>2. PICK p, k : Spot(mem, <<c, m>>, p, k) /\ k \in DOMAIN disk.pg[p].items
      BY <1>13, <2>1, SMTT(30) DEF Recoverable, Written
    <2>3. OfChat(mem, p, c) /\ mem.pg[p].items[k][2] = m /\ Whole(mem, n)
      BY <1>1, <2>2, SpotFacts, FiledFacts, SMTT(30)
    <2>4. /\ p \in DOMAIN disk.pg /\ disk.pg[p].kind = "chat"
          /\ (disk.pg[p].chat = c \/ (disk.pg[p].chat = NoChat /\ disk.pg[p].items = <<>>))
          /\ disk.pg[p].items[k] = mem.pg[p].items[k]
      BY <1>4, <2>2, <2>3, BehindPage
    <2>5. CASE snap.cp = meta.cp /\ \E d \in Chats : snap.index[d] # {}
      <3>1. PICK q, h : Spot(mem, <<c, m>>, q, h) /\ <<m, q, h>> \in snap.index[c]
        BY <1>13, <2>1, <2>5 DEF Recoverable, Snapped
      <3>2. q = p /\ h = k
        BY <2>2, <3>1, FiledFacts, SMTT(30) DEF InOrder, Spot
      <3> QED BY <1>3, <1>8, <2>1, <2>2, <2>4, <2>5, <3>1, <3>2, SMTT(30)
    <2>6. CASE ~(snap.cp = meta.cp /\ \E d \in Chats : snap.index[d] # {})
      <3>1. idx[c] = IndexFromHeap(c)
        BY <1>8, <2>6
      <3>2. p \in PagesOf(c)
        BY <2>2, <2>4 DEF PagesOf
      <3>3. <<m, p, k>> \in Entries(disk, p)
        BY <2>2, <2>3, <2>4 DEF Entries
      <3>4. <<m, p, k>> \in idx[c]
        BY <3>1, <3>2, <3>3 DEF IndexFromHeap
      <3> QED BY <1>3, <2>1, <2>2, <2>4, <3>4
    <2> QED BY <2>5, <2>6
  <1>14. Behind(s.f, mem, Len(posted)) /\ TailsOwn(s.f, s.tips) /\ HotAtHot(s.f, s.hotAt)
    BY <1>1, <1>3, <1>6, <1>7, <1>12
  <1>15. Replayed(s, 0)
    BY <1>12, <1>13, <1>14 DEF Replayed
  <1> QED BY <1>9, <1>15

\* After the last record all is replayed.
LEMMA ReplayedAll ==
  ASSUME CrashInv, Recoverable
  PROVE  Replayed(Recovered, Len(wal))
  <1>1. PICK N \in Nat : N = Len(wal) /\ DOMAIN wal = 1..N
    BY DEF Recoverable, WalTrue
  <1>2. PICK u : Stages(u, N) /\ Recovered = u[N]
    BY <1>1, RecoveredLast
  <1> DEFINE T == {n \in 0..N : Replayed(u[n], n)}
  <1>3. 0 \in T
    <2>1. u[0] = FromHeap
      BY <1>2 DEF Stages
    <2> QED BY <2>1, ReplayBase
  <1>4. ASSUME NEW n \in 0..(N - 1), n \in T
        PROVE  n + 1 \in T
    <2>1. /\ n \in Nat /\ n + 1 \in DOMAIN wal /\ n + 1 \in 1..N /\ (n + 1) - 1 = n /\ n + 1 \in 0..N
      BY <1>1
    <2>2. Replayed(u[n], n)
      BY <1>4
    <2> HIDE DEF T
    <2>3. Replayed(Replay(u[n], wal[n + 1]), n + 1)
      BY <2>1, <2>2, ReplayStep
    <2>4. u[n + 1] = Replay(u[n], wal[n + 1])
      BY <1>2, <2>1, SMTT(30) DEF Stages
    <2> QED BY <2>1, <2>3, <2>4 DEF T
  <1>5. T \in SUBSET Nat
    OBVIOUS
  <1>6. N \in T
    <2> HIDE DEF T
    <2> QED BY <1>3, <1>4, <1>5, Climb
  <1> QED BY <1>1, <1>2, <1>6

\* What the file that lags behind has is at the same place.
LEMMA BehindItems ==
  ASSUME NEW g, NEW f, NEW n, Whole(f, n), Behind(g, f, n), NEW p \in DOMAIN g.pg, g.pg[p].kind = "chat"
  PROVE  /\ p \in DOMAIN f.pg /\ f.pg[p].kind = "chat"
         /\ \A i \in DOMAIN g.pg[p].items : i \in DOMAIN f.pg[p].items /\ g.pg[p].items[i] = f.pg[p].items[i]
  <1>1. /\ p \in DOMAIN f.pg /\ f.pg[p].kind = "chat" /\ Prefix(g.pg[p].items, f.pg[p].items) /\ Whole(g, n)
    BY DEF Behind
  <1>2. PICK a, b : a = g.pg[p].items /\ b = f.pg[p].items
    OBVIOUS
  <1>3. Len(a) \in Nat /\ DOMAIN a = 1..Len(a) /\ Len(b) \in Nat /\ DOMAIN b = 1..Len(b)
    BY <1>1, <1>2, WholeFacts
  <1>4. \A i \in DOMAIN a : i \in DOMAIN b /\ a[i] = b[i]
    BY <1>1, <1>2, <1>3 DEF Prefix
  <1> QED BY <1>1, <1>2, <1>4

\* The messages are all there again.
LEMMA RecoveredFiled ==
  ASSUME CrashInv, Recoverable
  PROVE  Filed(Warmed(Recovered), posted)
  <1>1. PICK s : s = Recovered
    BY SMTT(30)
  <1>2. PICK n \in Nat : n = Len(posted)
    BY FiledFacts
  <1>3. Replayed(s, Len(wal))
    BY <1>1, ReplayedAll, SMTT(30)
  <1>4. /\ IsMemory(s) /\ Behind(s.f, mem, n) /\ Whole(s.f, n) /\ TailsOwn(s.f, s.tips) /\ HotAtHot(s.f, s.hotAt)
        /\ Whole(mem, n) /\ InOrder(mem)
    BY <1>2, <1>3, FiledFacts DEF Replayed, Behind
  <1>5. \A p \in DOMAIN s.f.pg : s.f.pg[p].kind = "chat" =>
           /\ p \in DOMAIN mem.pg /\ mem.pg[p].kind = "chat"
           /\ \A i \in DOMAIN s.f.pg[p].items : i \in DOMAIN mem.pg[p].items /\ s.f.pg[p].items[i] = mem.pg[p].items[i]
    BY <1>4, BehindItems, SMTT(30)
  <1>6. InOrder(s.f)
    <2> SUFFICES ASSUME NEW p \in DOMAIN s.f.pg, NEW q \in DOMAIN s.f.pg, s.f.pg[p].kind = "chat", s.f.pg[q].kind = "chat",
                        NEW i \in DOMAIN s.f.pg[p].items, NEW j \in DOMAIN s.f.pg[q].items
                 PROVE  /\ s.f.pg[p].items[i][2] = s.f.pg[q].items[j][2] => p = q /\ i = j
                        /\ p = q /\ i < j => s.f.pg[p].items[i][2] < s.f.pg[q].items[j][2]
      BY DEF InOrder
    <2>1. /\ p \in DOMAIN mem.pg /\ mem.pg[p].kind = "chat" /\ q \in DOMAIN mem.pg /\ mem.pg[q].kind = "chat"
          /\ i \in DOMAIN mem.pg[p].items /\ s.f.pg[p].items[i] = mem.pg[p].items[i]
          /\ j \in DOMAIN mem.pg[q].items /\ s.f.pg[q].items[j] = mem.pg[q].items[j]
      BY <1>5, SMTT(30)
    <2>2. /\ mem.pg[p].items[i][2] = mem.pg[q].items[j][2] => p = q /\ i = j
          /\ p = q /\ i < j => mem.pg[p].items[i][2] < mem.pg[q].items[j][2]
      BY <1>4, <2>1, SMTT(30) DEF InOrder
    <2> QED BY <2>1, <2>2, SMTT(30)
  <1>7. Found(s.f, s.index, posted)
    <2> SUFFICES ASSUME NEW m \in DOMAIN posted
                 PROVE  \E p, i : Spot(s.f, <<posted[m], m>>, p, i) /\ <<m, p, i>> \in s.index[posted[m]]
      BY DEF Found
    <2>1. ~ToRedo(wal, meta.cp, m, Len(wal))
      <3>1. \A j \in DOMAIN wal : ~(j > Len(wal))
        BY DEF Recoverable, WalTrue
      <3> QED BY <3>1 DEF ToRedo
    <2>2. PICK p, i : /\ Spot(mem, <<posted[m], m>>, p, i) /\ i \in DOMAIN s.f.pg[p].items
                      /\ <<m, p, i>> \in s.index[posted[m]]
      BY <1>3, <2>1 DEF Replayed
    <2>3. p \in DOMAIN s.f.pg /\ s.f.pg[p].kind = "chat"
      BY <1>4, <2>2 DEF Behind, Spot
    <2>4. s.f.pg[p].items[i] = mem.pg[p].items[i]
      BY <1>5, <2>2, <2>3
    <2> QED BY <2>2, <2>3, <2>4 DEF Spot
  <1>8. PICK rg : rg = [c \in Chats |-> Newest(Messages(s.f, s.tips[c].head))]
    OBVIOUS
  <1>9. PICK r : r = [s EXCEPT !.ring = rg]
    OBVIOUS
  <1>10. Warmed(s) = r
    BY <1>8, <1>9 DEF Warmed
  <1>11. r.f = s.f /\ r.tips = s.tips /\ r.index = s.index /\ r.hotAt = s.hotAt /\ r.ring = rg /\ IsMemory(r)
    BY <1>4, <1>8, <1>9 DEF IsMemory
  <1>12. Filed(r, posted)
    BY <1>2, <1>4, <1>6, <1>7, <1>11 DEF Filed
  <1> QED BY <1>1, <1>10, <1>12

\* The process dies, the only time, and the store is opened again.
LEMMA RestartCrash ==
  ASSUME MaxLives = 1, CrashInv, Restart
  PROVE  CrashInv'
  <1>1. /\ lives < 1 /\ Becomes(Warmed(Recovered)) /\ lsn' = meta.lsn /\ op' = Idle /\ lives' = lives + 1
        /\ UNCHANGED <<meta, posted>>
    BY DEF Restart
  <1>2. lives = 0 /\ Recoverable
    BY <1>1 DEF CrashInv
  <1>3. PICK s : s = Warmed(Recovered)
    OBVIOUS
  <1>4. Filed(s, posted)
    BY <1>2, <1>3, RecoveredFiled
  <1>5. Filed(Loaded, posted)'
    BY <1>1, <1>3, <1>4, FiledNext DEF Becomes
  <1>6. OpHolds'
    BY <1>1, IdleHolds
  <1>7. lives' = 1 /\ lsn' \in Nat /\ meta'.lsn \in Nat /\ posted' \in Seq(Chats)
    BY <1>1, <1>2 DEF CrashInv
  <1> QED BY <1>5, <1>6, <1>7 DEF CrashInv

-----------------------------------------------------------------------------
(* The theorem *)

\* The store starts with nothing.
LEMMA CrashStarts ==
  ASSUME Init
  PROVE  CrashInv
  <1>1. /\ mem = NewFile /\ disk = NewFile /\ tips = [c \in Chats |-> NoTip] /\ wal = <<>> /\ lsn = 1
        /\ meta = [lsn |-> 1, cp |-> 0] /\ snap = [cp |-> 0, index |-> [c \in Chats |-> {}]]
        /\ op = Idle /\ posted = <<>> /\ lives = 0
    BY DEF Init
  <1>2. StoreInv
    BY StoreStarts
  <1>3. HotAtHot(mem, hotAt) /\ Typed /\ op \in Ops
    BY <1>2 DEF StoreInv, Counted
  <1>4. Len(posted) = 0 /\ DOMAIN posted = {} /\ posted \in Seq(Chats)
    BY <1>1
  <1>5. mem.free = 0 /\ DOMAIN mem.pg = {1} /\ mem.pg[1].kind = "hot"
    <2>0. Blank("hot").kind = "hot"
      BY DEF Blank
    <2>1. PICK b : b = Blank("hot") /\ b.kind = "hot"
      BY <2>0
    <2>2. mem = [pg |-> <<b>>, free |-> 0]
      BY <1>1, <2>1 DEF NewFile
    <2> QED BY <2>1, <2>2
  <1>6. Whole(mem, 0)
    <2>1. PICK fr, ch : Stored(mem, fr, ch, Len(posted), tips, index, Pending)
      BY <1>2 DEF StoreInv, Chained
    <2>2. Shape(mem, fr, ch, 0)
      BY <1>4, <2>1 DEF Stored
    <2>3. mem \in File /\ HotTrue(mem) /\ \A p \in DOMAIN mem.pg : OwnPage(mem.pg[p], 0)
      BY <2>2 DEF Shape
    <2> QED BY <1>5, <2>3, WholeIs
  <1>7. \A p \in DOMAIN mem.pg : mem.pg[p].kind # "chat"
    BY <1>5
  <1>8. Filed(Loaded, posted)
    <2>1. /\ Loaded.f = mem /\ Loaded.tips = tips /\ Loaded.index = index /\ Loaded.hotAt = hotAt
          /\ IsMemory(Loaded)
      BY <1>3 DEF Loaded, IsMemory, Typed
    <2>2. TailsOwn(mem, tips)
      <3>1. \A c \in Chats : tips[c] = NoTip
        BY <1>1
      <3> QED BY <3>1 DEF TailsOwn, NoTip
    <2>3. InOrder(mem)
      BY <1>7 DEF InOrder
    <2>4. Found(mem, index, posted)
      BY <1>4 DEF Found
    <2> QED BY <1>3, <1>4, <1>6, <2>1, <2>2, <2>3, <2>4, SMTT(30) DEF Filed
  <1>9. OpHolds
    BY <1>1, <1>3 DEF OpHolds, Idle
  <1>10. Recoverable
    <2>1. WalTrue(wal, lsn, mem, posted)
      BY <1>1 DEF WalTrue
    <2>2. Behind(disk, mem, 0)
      BY <1>1, <1>6, <1>7 DEF Behind
    <2>3. Written(disk, wal, meta.cp, mem, posted)
      BY <1>1, <1>4, <2>2 DEF Written
    <2>4. Snapped(snap, wal, meta.cp, mem, posted)
      BY <1>1 DEF Snapped
    <2>5. Checking
      BY <1>1 DEF Checking, Idle
    <2> QED BY <2>1, <2>3, <2>4, <2>5 DEF Recoverable
  <1> QED BY <1>1, <1>4, <1>8, <1>9, <1>10 DEF CrashInv

\* The invariant is inductive.
LEMMA CrashStep ==
  ASSUME Keeps = {}, MaxLives = 1, CrashInv, [Next]_vars
  PROVE  CrashInv'
  <1>1. CASE \E c \in Chats : NewPage(c) \/ AppendMessage(c)
    BY <1>1, NewPageCrash, AppendCrash
  <1>2. CASE LinkIt
    BY <1>2, LinkCrash
  <1>3. CASE \E c \in Chats, keep \in Keeps : ChatTrimKeepLast(c, keep)
    BY <1>3
  <1>4. CASE \E c \in Chats, more \in BOOLEAN : ChatRecent(c, more)
    BY <1>4, RecentCrash
  <1>5. CASE \/ \E k \in Keys, v \in Vals : HotSet(k, v)
             \/ \E k \in Deletable : HotDel(k)
    BY <1>5, HotCrash
  <1>6. CASE Evict
    BY <1>6, EvictCrash
  <1>7. CASE Flush \/ SaveMsgIndex \/ PersistMeta \/ Rotate
    BY <1>7, FlushCrash
  <1>8. CASE Restart
    BY <1>8, RestartCrash, SMTT(30)
  <1>9. CASE UNCHANGED vars
    BY <1>9, SMTT(30) DEF vars, CrashInv, Filed, Loaded, OpHolds, Recoverable, Checking
  <1> QED BY <1>1, <1>2, <1>3, <1>4, <1>5, <1>6, <1>7, <1>8, <1>9, SMTT(30) DEF Next

\* What is filed is not lost, and is in one place.
LEMMA CrashSays ==
  ASSUME CrashInv
  PROVE  NothingLost
  <1> SUFFICES ASSUME NEW m \in DOMAIN posted
               PROVE  \E e \in index[posted[m]] :
                         /\ e[1] = m
                         /\ mem.pg[e[2]].chat = posted[m] /\ mem.pg[e[2]].kind = "chat"
                         /\ e[3] \in DOMAIN mem.pg[e[2]].items /\ mem.pg[e[2]].items[e[3]] = <<posted[m], m>>
                         /\ \A p \in DOMAIN mem.pg : p # e[2] => <<posted[m], m>> \notin ToSet(mem.pg[p].items)
    BY DEF NothingLost
  <1>1. PICK c \in Chats : c = posted[m]
    BY FiledFacts
  <1>2. PICK p, i : Spot(mem, <<c, m>>, p, i) /\ <<m, p, i>> \in index[c]
    BY <1>1, FiledFacts DEF Found
  <1>3. /\ OfChat(mem, p, c) /\ i \in DOMAIN mem.pg[p].items /\ mem.pg[p].items[i] = <<c, m>>
        /\ mem.pg[p].items[i][2] = m
    <2>1. PICK n : Whole(mem, n)
      BY FiledFacts
    <2> QED BY <1>2, <2>1, SpotFacts, SMTT(30)
  <1>4. ASSUME NEW q \in DOMAIN mem.pg, q # p, <<c, m>> \in ToSet(mem.pg[q].items)
        PROVE  FALSE
    <2>1. PICK j \in DOMAIN mem.pg[q].items : mem.pg[q].items[j] = <<c, m>>
      BY <1>4 DEF ToSet
    <2>2. PICK n : Whole(mem, n)
      BY FiledFacts
    <2>3. mem.pg[q].kind \in {"chat", "hot"} /\ OwnPage(mem.pg[q], n)
      BY <2>2, WholeFacts, SMTT(30)
    <2>4. CASE mem.pg[q].kind = "chat"
      <3>1. mem.pg[q].items[j][2] = m
        BY <2>1
      <3> QED BY <1>3, <1>4, <2>1, <2>4, <3>1, FiledFacts DEF InOrder, OfChat
    <2>5. CASE mem.pg[q].kind = "hot"
      <3>1. <<c, m>> \in Keys \X Vals
        BY <2>1, <2>3, <2>5 DEF OwnPage, Setting
      <3>2. c \in Keys
        BY <3>1
      <3> QED BY <3>2, StoreAssumption
    <2> QED BY <2>3, <2>4, <2>5
  <1>5. PICK e : e = <<m, p, i>> /\ e[1] = m /\ e[2] = p /\ e[3] = i
    <2>1. <<m, p, i>>[1] = m /\ <<m, p, i>>[2] = p /\ <<m, p, i>>[3] = i
      OBVIOUS
    <2> QED BY <2>1, Zenon
  <1>6. mem.pg[p].chat = c /\ mem.pg[p].kind = "chat"
    BY <1>3 DEF OfChat
  <1> QED BY <1>1, <1>2, <1>3, <1>4, <1>5, <1>6, SMTT(30)

\* A message whose append was logged is on one page, of its chat, and chatGet
\* finds it there, whichever pages were written before the process died, whatever
\* it was doing, and with whichever records in the WAL (replayWal and applyWal,
\* engine.ts:279-318; rebuildFromHeap, engine.ts:191-217).  One death: after it the
\* LSNs of the first life are given again.  A store whose chats are not trimmed.
THEOREM KillLosesNothing ==
  ASSUME Keeps = {}, MaxLives = 1
  PROVE  Spec => []NothingLost
  <1>1. Init => CrashInv
    BY CrashStarts
  <1>2. CrashInv /\ [Next]_vars => CrashInv'
    BY CrashStep
  <1>3. CrashInv => NothingLost
    BY CrashSays
  <1> QED BY <1>1, <1>2, <1>3, PTL DEF Spec
=============================================================================
