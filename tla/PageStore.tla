----------------------------- MODULE PageStore -----------------------------
(***************************************************************************)
(* NyatDB, the embedded store of the chat context, TypeScript engine       *)
(* (packages/nyatdb/src/engine.ts, storage/, index/msg-index.ts): the      *)
(* ChatLog and the hot chain over a page file, the buffer pool, the redo   *)
(* WAL, the checkpoint and the recovery on open.                           *)
(*                                                                         *)
(* The engine is synchronous and single-threaded, so its operations do not *)
(* interleave; but the pool may write any dirty page to the file whenever  *)
(* another page is fetched, and the process may be killed at any point.    *)
(* What was written to a file survives that (no power loss).               *)
(*                                                                         *)
(* mem is the file as the pool shows it (a frame where there is one, else  *)
(* the file), disk the file itself.  Appended pages are written to the     *)
(* file at once, so the two have the same length.                          *)
(***************************************************************************)
EXTENDS Pages, FiniteSets

CONSTANTS Chats, Keys, Vals,
          Keeps,          \* arguments of chatTrimKeepLast
          Deletable,      \* keys that hotDel is called for
          RingMax,        \* chatRingMax
          Evicts,         \* does the pool run out of frames?
          Kills,          \* may the process die between any two steps?
          MaxPosted, MaxPages, MaxLives, MaxLsn   \* bounds

ASSUME StoreAssumption ==
    /\ NoChat \notin Chats /\ Chats \cap Keys = {}
    /\ Keeps \subseteq Nat
    /\ RingMax \in Nat \ {0}
    /\ Deletable \subseteq Keys
    /\ 0 \notin Vals
    /\ Evicts \in BOOLEAN /\ Kills \in BOOLEAN
    /\ MaxPages \in Nat \ {0} /\ {MaxPosted, MaxLives, MaxLsn} \subseteq Nat

VARIABLES mem, disk,
          tips,      \* chatTips; a head of 0: no entry
          index,     \* msgIndex of each chat: <<message, page, slot>>
          hotAt,     \* hotIndex, 0: no entry
          ring,      \* chatRecentRing of each chat
          wal, lsn,  \* the WAL file and its next LSN
          meta,      \* ENGINE.json
          snap,      \* snap/msg.idx
          op,        \* the operation under way
          posted,    \* ghost: the chats of the messages appended so far
          hot,       \* ghost: what the hot keys were last set to
          lives      \* restarts

vars == <<mem, disk, tips, index, hotAt, ring, wal, lsn, meta, snap, op, posted, hot, lives>>

NoTip == [head |-> 0, tail |-> 0, count |-> 0]
Idle == [at |-> "idle"]

\* One record of the WAL; replaying it again is up to the reader.
Logs(rec) ==
    /\ lsn < MaxLsn
    /\ wal' = Append(wal, [rec EXCEPT !.lsn = lsn])
    /\ lsn' = lsn + 1

-----------------------------------------------------------------------------
(* What the operations and the replay share: changes to the part of the    *)
(* state that lives in memory, s = [f, tips, index, hotAt, ring], and cp,   *)
(* the checkpoint that the replay has come to.                             *)

Loaded ==
    [f |-> mem, tips |-> tips, index |-> index, hotAt |-> hotAt, ring |-> ring, cp |-> meta.cp]

Newest(log) == SubSeq(log, (IF Len(log) > RingMax THEN Len(log) - RingMax ELSE 0) + 1, Len(log))

Messages(f, head) ==
    LET all == Contents(f, head) IN [i \in DOMAIN all |-> all[i][2]]

\* appendPage writes a fresh page of the kind to the file.
Grown(pg, longer) ==
    pg \o [i \in 1..(Len(longer) - Len(pg)) |-> Blank(longer[Len(pg) + i].kind)]

Becomes(s) ==
    /\ mem' = s.f
    /\ disk' = [disk EXCEPT !.pg = Grown(@, s.f.pg)]
    /\ tips' = s.tips
    /\ index' = s.index
    /\ hotAt' = s.hotAt
    /\ ring' = s.ring

\* LinkPage: the page is the chat's last, and linked from the one before.
NewTail(s, c, p) ==
    [s EXCEPT !.f.pg[p].kind = "chat", !.f.pg[p].chat = c,
              !.tips[c].head = IF @ = 0 THEN p ELSE @, !.tips[c].tail = p]

LinkPage(s, c, p, prev) ==
    LET t == NewTail(s, c, p)
    IN  IF prev = 0 THEN t ELSE [t EXCEPT !.f.pg[prev].next = p]

\* Mutant: counted from 0, while an entry is read from 1.
NextSlotFromZero(page) == Len(page.items)

NextSlot(page) == Len(page.items) + 1

\* The slot of a message on a page, 0 if it is not there.
SlotOf(page, m) == SelectInSeq(page.items, LAMBDA t : t[2] = m)

\* The record of an append: put in the page unless it is there already.
RedoInsert(s, c, p, m) ==
    LET page == s.f.pg[p]
        owned == IF page.kind = "free" \/ page.items = <<>>
                 THEN [s EXCEPT !.f.pg[p].kind = "chat", !.f.pg[p].chat = c] ELSE s
        slot == SlotOf(page, m)
    IN  IF slot > 0 THEN [owned EXCEPT !.index[c] = {e \in @ : e[1] # m} \cup {<<m, p, slot>>}]
        ELSE IF ~Room(page) THEN owned
        ELSE [owned EXCEPT !.f = Put(owned.f, p, <<c, m>>),
                           !.index[c] = {e \in @ : e[1] # m} \cup {<<m, p, NextSlot(page)>>}]

\* What the index has of a page: <<message, page, slot>>.
Entries(f, p) == {<<f.pg[p].items[i][2], p, i>> : i \in DOMAIN f.pg[p].items}

\* Mutant: off by one.
KeepOneLess(all, keep) ==
    SubSeq(all, (IF Len(all) > keep THEN Len(all) - keep + 1 ELSE 0) + 1, Len(all))

KeepLast(all, keep) ==
    SubSeq(all, (IF Len(all) > keep THEN Len(all) - keep ELSE 0) + 1, Len(all))

\* A page for the chat.
AllocFor(f, c) == [Alloc(f, "chat") EXCEPT !.pg[Allocated(f)].chat = c]

\* A tuple of the chat goes to the page w.cur or, when that is full, to a new one.
Rewrite(w, c, t) ==
    LET new == Allocated(w.f)
        full == ~Room(w.f.pg[w.cur])
        cur == IF full THEN new ELSE w.cur
        g == IF full THEN [AllocFor(w.f, c) EXCEPT !.pg[w.cur].next = new] ELSE w.f
    IN  [f |-> Put(g, cur, t), cur |-> cur,
         index |-> w.index \cup {<<t[2], cur, NextSlot(g.pg[cur])>>}]

Rewritten(f, c, kept) ==
    LET upTo[n \in 0..Len(kept)] ==
            IF n = 0 THEN [f |-> AllocFor(f, c), cur |-> Allocated(f), index |-> {}]
            ELSE Rewrite(upTo[n - 1], c, kept[n])
    IN  upTo[Len(kept)]

\* trimChatLocal: the chat's pages are freed and what is kept is written again.
TrimChat(s, c, keep) ==
    LET kept == KeepLast(Contents(s.f, s.tips[c].head), keep)
        freed == FreeAll(s.f, Chain(s.f, s.tips[c].head))
        first == Allocated(freed)
        done == Rewritten(freed, c, kept)
    IN  IF s.tips[c].count <= keep THEN s
        ELSE IF kept = <<>>
        THEN [s EXCEPT !.f = freed, !.tips[c] = NoTip, !.index[c] = {}, !.ring[c] = <<>>]
        ELSE [s EXCEPT !.f = done.f, !.index[c] = done.index,
                       !.ring[c] = Newest(Messages(done.f, first)),
                       !.tips[c] = [head |-> first, tail |-> done.cur, count |-> Len(kept)]]

SetHot(s, k, v) == [s EXCEPT !.f = WriteHot(s.f, k, v), !.hotAt[k] = HotRoot]

HotStart(s, k) == IF s.hotAt[k] > 0 THEN s.hotAt[k] ELSE HotRoot

DelHot(s, k) == [s EXCEPT !.f = DeleteHot(s.f, k, HotStart(s, k)), !.hotAt[k] = 0]

\* applyWal
Apply(s, rec) ==
    CASE rec.type = "insert" -> RedoInsert(s, rec.c, rec.page, rec.m)
      [] rec.type = "link"   -> LinkPage(s, rec.c, rec.page, rec.prev)
      [] rec.type = "trim"   -> TrimChat(s, rec.c, rec.keep)
      [] rec.type = "set"    -> SetHot(s, rec.k, rec.v)
      [] rec.type = "del"    -> DelHot(s, rec.k)
      [] OTHER               -> [s EXCEPT !.cp = rec.lsn + 1]

InsertRec(c, p, m) == [type |-> "insert", lsn |-> 0, c |-> c, page |-> p, m |-> m]
LinkRec(c, p, prev) == [type |-> "link", lsn |-> 0, c |-> c, page |-> p, prev |-> prev]
TrimRec(c, keep) == [type |-> "trim", lsn |-> 0, c |-> c, keep |-> keep]
SetRec(k, v) == [type |-> "set", lsn |-> 0, k |-> k, v |-> v]
DelRec(k) == [type |-> "del", lsn |-> 0, k |-> k]

-----------------------------------------------------------------------------
(* chatAppend: when the chat has no page, or the last is full, a page is    *)
(* allocated and only then logged and linked; the message follows.          *)

NeedsPage(c) == ~\E p \in DOMAIN mem.pg : p = tips[c].tail /\ Room(mem.pg[p])

\* A page appended to the file is there at once, without its chat.
NewPage(c) ==
    /\ op = Idle /\ Len(posted) < MaxPosted
    /\ NeedsPage(c)
    /\ Allocated(mem) <= MaxPages
    /\ LET p == Allocated(mem)
       IN  /\ mem' = AllocFor(mem, c)
           /\ disk' = IF p > Len(disk.pg)
                      THEN [disk EXCEPT !.pg = Append(@, Blank("chat"))] ELSE disk
           /\ op' = [at |-> "link", c |-> c, page |-> p]
    /\ UNCHANGED <<tips, index, hotAt, ring, wal, lsn, meta, snap, posted, hot, lives>>

LinkIt ==
    /\ op.at = "link"
    /\ LET rec == LinkRec(op.c, op.page, tips[op.c].tail)
       IN  Logs(rec) /\ Becomes(Apply(Loaded, rec))
    /\ op' = [at |-> "insert", c |-> op.c]
    /\ UNCHANGED <<meta, snap, posted, hot, lives>>

\* Mutant: the count is left to the next open.
InsertUncounted(c) ==
    LET p == tips[c].tail
        m == Len(posted) + 1
        s == RedoInsert(Loaded, c, p, m)
    IN  /\ Logs(InsertRec(c, p, m))
        /\ Becomes([s EXCEPT !.ring[c] = Newest(Append(@, m))])
        /\ posted' = Append(posted, c)

\* The tail has room, so the insert succeeds: the program cuts a message down to
\* what an empty page holds before it appends it (chat-log.ts:241-256), and the
\* throw for a larger one (engine.ts:545) is not modelled.
Insert(c) ==
    LET p == tips[c].tail
        m == Len(posted) + 1
        s == RedoInsert(Loaded, c, p, m)
    IN  /\ Logs(InsertRec(c, p, m))
        /\ Becomes([s EXCEPT !.tips[c].count = @ + 1, !.ring[c] = Newest(Append(@, m))])
        /\ posted' = Append(posted, c)

AppendMessage(c) ==
    /\ IF op = Idle THEN Len(posted) < MaxPosted /\ ~NeedsPage(c) ELSE op = [at |-> "insert", c |-> c]
    /\ Insert(c)
    /\ op' = Idle
    /\ UNCHANGED <<meta, snap, hot, lives>>

\* The host trims a chat right after an append to it (context/manager.ts:87-92).
ChatTrimKeepLast(c, keep) ==
    /\ op = Idle
    /\ wal # <<>> /\ Last(wal).type = "insert" /\ Last(wal).c = c
    /\ Logs(TrimRec(c, keep))
    /\ Becomes(TrimChat(Loaded, c, keep))
    /\ UNCHANGED <<meta, snap, op, posted, hot, lives>>

HotSet(k, v) ==
    /\ op = Idle
    /\ LET s == SetHot(Loaded, k, v)
       IN  Len(s.f.pg) <= MaxPages /\ Becomes(s)
    /\ Logs(SetRec(k, v))
    /\ hot' = [hot EXCEPT ![k] = v]
    /\ UNCHANGED <<meta, snap, op, posted, lives>>

HotDel(k) ==
    /\ op = Idle
    /\ Logs(DelRec(k))
    /\ Becomes(DelHot(Loaded, k))
    /\ hot' = [hot EXCEPT ![k] = 0]
    /\ UNCHANGED <<meta, snap, op, posted, lives>>

\* The messages by age.
ByAge(all) ==
    LET D == DOMAIN all
        place == CHOOSE p \in [D -> D] :
                    IsInjective(p) /\ \A i, j \in D : i < j => all[p[i]] <= all[p[j]]
    IN  [i \in D |-> all[place[i]]]

\* Mutant: the ring takes all that was read.
ChatRecentUncut(c, more) ==
    /\ op = Idle
    /\ more => tips[c].head # 0
    /\ LET all == IF more THEN Messages(mem, tips[c].head) ELSE ring[c]
       IN  ring' = [ring EXCEPT ![c] = ByAge(all)]
    /\ UNCHANGED <<mem, disk, tips, index, hotAt, wal, lsn, meta, snap, op, posted, hot, lives>>

\* chatRecent, of as many messages as the ring has or of more: what it read, by
\* age, is the new ring.
ChatRecent(c, more) ==
    /\ op = Idle
    /\ more => tips[c].head # 0
    /\ LET all == IF more THEN Messages(mem, tips[c].head) ELSE ring[c]
       IN  ring' = [ring EXCEPT ![c] = Newest(ByAge(all))]
    /\ UNCHANGED <<mem, disk, tips, index, hotAt, wal, lsn, meta, snap, op, posted, hot, lives>>

\* The pool writes a dirty page, or page 0, to the file.
Evict ==
    /\ Evicts
    /\ \/ \E p \in DOMAIN mem.pg :
            /\ disk.pg[p] # mem.pg[p]
            /\ disk' = [disk EXCEPT !.pg[p] = mem.pg[p]]
       \/ /\ disk.free # mem.free
          /\ disk' = [disk EXCEPT !.free = mem.free]
    /\ UNCHANGED <<mem, tips, index, hotAt, ring, wal, lsn, meta, snap, op, posted, hot, lives>>

-----------------------------------------------------------------------------
(* checkpoint: flush, log, then three files one after the other *)

Flush ==
    /\ op = Idle
    /\ wal # <<>> \/ disk # mem
    /\ disk' = mem
    /\ Logs([type |-> "checkpoint", lsn |-> 0])
    /\ op' = [at |-> "index"]
    /\ UNCHANGED <<mem, tips, index, hotAt, ring, meta, snap, posted, hot, lives>>

SaveMsgIndex ==
    /\ op.at = "index"
    /\ snap' = [cp |-> lsn, index |-> index]
    /\ op' = [at |-> "meta"]
    /\ UNCHANGED <<mem, disk, tips, index, hotAt, ring, wal, lsn, meta, posted, hot, lives>>

PersistMeta ==
    /\ op.at = "meta"
    /\ meta' = [lsn |-> lsn, cp |-> lsn]
    /\ op' = [at |-> "rotate"]
    /\ UNCHANGED <<mem, disk, tips, index, hotAt, ring, wal, lsn, snap, posted, hot, lives>>

Rotate ==
    /\ op.at = "rotate"
    /\ wal' = <<>>
    /\ op' = Idle
    /\ UNCHANGED <<mem, disk, tips, index, hotAt, ring, lsn, meta, snap, posted, hot, lives>>

-----------------------------------------------------------------------------
(* open *)

\* The chat pages of a chat (of no chat: id 0, like any).
PagesOf(c) == {p \in DOMAIN disk.pg : disk.pg[p].kind = "chat" /\ disk.pg[p].chat = c}

\* The next one, by page number.
Follower(p) ==
    LET later == {q \in PagesOf(disk.pg[p].chat) : q > p}
    IN  IF later = {} THEN 0 ELSE Min(later)

Relink(f, p) ==
    IF f.pg[p].kind # "chat" THEN f ELSE [f EXCEPT !.pg[p].next = Follower(p)]

\* rebuildFromHeap links the pages of every chat anew in that order.
Relinked ==
    LET upTo[n \in 0..Len(disk.pg)] == IF n = 0 THEN disk ELSE Relink(upTo[n - 1], n)
    IN  upTo[Len(disk.pg)]

TipFromHeap(c) ==
    LET ids == PagesOf(c)
    IN  IF ids = {} THEN NoTip
        ELSE [head |-> Min(ids), tail |-> Max(ids), count |-> Len(Contents(Relinked, Min(ids)))]

IndexFromHeap(c) == UNION {Entries(disk, p) : p \in PagesOf(c)}

HotFromHeap(k) ==
    LET on == {p \in DOMAIN disk.pg : disk.pg[p].kind = "hot" /\
                                      \E t \in ToSet(disk.pg[p].items) : t[1] = k}
    IN  IF on = {} THEN 0 ELSE Max(on)

\* The index of the snapshot serves if it is of the last checkpoint and not empty.
FromHeap ==
    [f |-> Relinked,
     tips |-> [c \in Chats |-> TipFromHeap(c)],
     index |-> IF snap.cp = meta.cp /\ \E c \in Chats : snap.index[c] # {}
               THEN snap.index ELSE [c \in Chats |-> IndexFromHeap(c)],
     hotAt |-> [k \in Keys |-> HotFromHeap(k)],
     ring |-> [c \in Chats |-> <<>>],
     cp |-> meta.cp]

\* Mutants: nothing is replayed; the first record after the checkpoint is not.
CoveredAlways(rec, cp) == TRUE
CoveredAndOne(rec, cp) == rec.lsn <= cp

Covered(rec, cp) == rec.lsn < cp

\* replayWal: a checkpoint among the records covers what follows it, too.
Recovered ==
    LET Redo(s, rec) == IF Covered(rec, s.cp) THEN s ELSE Apply(s, rec)
        upTo[n \in 0..Len(wal)] == IF n = 0 THEN FromHeap ELSE Redo(upTo[n - 1], wal[n])
    IN  upTo[Len(wal)]

\* warmChatRings
Warmed(s) == [s EXCEPT !.ring = [c \in Chats |-> Newest(Messages(s.f, s.tips[c].head))]]

\* The process is gone, with all that is in memory, and the store opened again:
\* the next LSN is the one of the last checkpoint.  Where Kills is FALSE only a
\* clean close, which ends in a checkpoint.
Restart ==
    /\ lives < MaxLives
    /\ Kills \/ (op = Idle /\ wal = <<>> /\ disk = mem)
    /\ Becomes(Warmed(Recovered))
    /\ lsn' = meta.lsn
    /\ op' = Idle
    /\ lives' = lives + 1
    /\ UNCHANGED <<wal, meta, snap, posted, hot>>

-----------------------------------------------------------------------------
Init ==
    /\ mem = NewFile /\ disk = NewFile
    /\ tips = [c \in Chats |-> NoTip]
    /\ index = [c \in Chats |-> {}]
    /\ hotAt = [k \in Keys |-> 0]
    /\ ring = [c \in Chats |-> <<>>]
    /\ wal = <<>> /\ lsn = 1
    /\ meta = [lsn |-> 1, cp |-> 0]
    /\ snap = [cp |-> 0, index |-> [c \in Chats |-> {}]]
    /\ op = Idle
    /\ posted = <<>>
    /\ hot = [k \in Keys |-> 0]
    /\ lives = 0

Next ==
    \/ \E c \in Chats : NewPage(c) \/ AppendMessage(c)
    \/ LinkIt
    \/ \E c \in Chats, keep \in Keeps : ChatTrimKeepLast(c, keep)
    \/ \E c \in Chats, more \in BOOLEAN : ChatRecent(c, more)
    \/ \E k \in Keys, v \in Vals : HotSet(k, v)
    \/ \E k \in Deletable : HotDel(k)
    \/ Evict
    \/ Flush \/ SaveMsgIndex \/ PersistMeta \/ Rotate
    \/ Restart

Spec == Init /\ [][Next]_vars
=============================================================================
