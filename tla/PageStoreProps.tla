--------------------------- MODULE PageStoreProps ---------------------------
(***************************************************************************)
(* What PageStore is checked for, and the ChatLog it implements.           *)
(***************************************************************************)
EXTENDS PageStore

CONSTANT Shuffles    \* of ChatLog

ChatOf(c) == Messages(mem, tips[c].head)

\* hotGet
HotGet(k) ==
    LET p == HotPage(mem, k, HotStart(Loaded, k))
    IN  IF p = 0 THEN 0
        ELSE (CHOOSE t \in ToSet(mem.pg[p].items) : t[1] = k)[2]

-----------------------------------------------------------------------------
\* The variables hold what the code can put there.
TypeOK ==
    /\ \A f \in {mem, disk} :
          /\ f.free \in 0..Len(f.pg)
          /\ \A p \in DOMAIN f.pg :
                /\ f.pg[p].kind \in {"free", "chat", "hot"}
                /\ f.pg[p].chat \in Chats \cup {NoChat}
                /\ f.pg[p].next \in 0..Len(f.pg)
                /\ Len(f.pg[p].items) <= IF f.pg[p].kind = "hot" THEN HotCap ELSE Cap
    /\ Len(mem.pg) = Len(disk.pg) /\ Len(mem.pg) <= MaxPages
    /\ \A c \in Chats : tips[c].head \in 0..Len(mem.pg) /\ tips[c].tail \in 0..Len(mem.pg)
    /\ Len(posted) <= MaxPosted /\ lives <= MaxLives

\* A chat never shows the messages of another, though trims, hot keys and the
\* appends of all chats take their pages from one free list (engine.ts:242-278).
ChatsApart ==
    \A c \in Chats :
        /\ \A t \in ToSet(Contents(mem, tips[c].head)) : t[1] = c
        /\ \A p \in ToSet(Chain(mem, tips[c].head)) : mem.pg[p].kind = "chat"

\* The free list holds the free pages, all of them and no other: none is lost to
\* it, and none is handed out while in use.
FreeListTrue ==
    ToSet(Chain(mem, mem.free)) = {p \in DOMAIN mem.pg : mem.pg[p].kind = "free"}

\* chatGet finds exactly the messages that reading the chat finds, however its
\* pages were rewritten, reused and replayed (engine.ts:635-653, 681-756).
IndexFinds ==
    \A c \in Chats :
        index[c] = UNION {Entries(mem, p) : p \in ToSet(Chain(mem, tips[c].head))}

\* A message whose append was logged is on one page, of its chat, and chatGet
\* finds it there, whichever pages were written before the process died.
NothingLost ==
    \A m \in DOMAIN posted :
        \E e \in index[posted[m]] :
            /\ e[1] = m
            /\ mem.pg[e[2]].chat = posted[m] /\ mem.pg[e[2]].kind = "chat"
            /\ e[3] \in DOMAIN mem.pg[e[2]].items /\ mem.pg[e[2]].items[e[3]] = <<posted[m], m>>
            /\ \A p \in DOMAIN mem.pg : p # e[2] => <<posted[m], m>> \notin ToSet(mem.pg[p].items)

\* The next message goes to the end of the chain, and a trim sees how many
\* there are.
TipsTrue ==
    \A c \in Chats : op = Idle /\ tips[c].head # 0 =>
        /\ tips[c].tail = Last(Chain(mem, tips[c].head))
        /\ tips[c].count = Len(ChatOf(c))

\* chatRecent never shows a message that a trim has dropped, and is answered by the
\* ring only when the ring has that many (engine.ts:601-616, 751-755).
RecentIsKept ==
    \A c \in Chats :
        /\ ToSet(ring[c]) \subseteq ToSet(ChatOf(c))
        /\ Len(ring[c]) = Cardinality(ToSet(ring[c]))
        /\ Len(ring[c]) = IF Len(ChatOf(c)) < RingMax THEN Len(ChatOf(c)) ELSE RingMax

\* hotGet returns what was last set, across checkpoints, evictions and restarts.
HotReads == \A k \in Keys : HotGet(k) = hot[k]

\* Setting a key loses no other, however many pages the hot keys take
\* (engine.ts:387-455).
HotKept ==
    \A k \in Keys : hot[k] # 0 => <<k, hot[k]>> \in ToSet(Contents(mem, HotRoot))

\* The store implements the log it promises.
Log == INSTANCE ChatLog WITH logs <- [c \in Chats |-> ChatOf(c)], posted <- Len(posted)
ImplementsChatLog == Log!Spec
=============================================================================
