------------------------------- MODULE Pages -------------------------------
(***************************************************************************)
(* The page file of NyatDB (format/page.ts, storage/heap.ts, and the       *)
(* allocator and the chains of engine.ts): operators on a file, a record   *)
(* of a sequence of pages and the head of the free list.                   *)
(*                                                                         *)
(* A page has a kind, the chat it belongs to, the next page of its chain   *)
(* and its tuples: <<chat, message>> or <<key, value>>.  Page 1 is the     *)
(* root of the hot chain; page 0 (the super page) is the field free; the   *)
(* other three roots are left out.                                         *)
(***************************************************************************)
EXTENDS Naturals, Sequences, SequencesExt

CONSTANTS Cap,      \* messages in a chat page
          HotCap,   \* tuples in a hot page
          NoChat    \* a page whose chat was never written: chat id 0

ASSUME PagesAssumption == Cap \in Nat \ {0} /\ HotCap \in Nat \ {0}

HotRoot == 1

Blank(kind) == [kind |-> kind, chat |-> NoChat, next |-> 0, items |-> <<>>]

NewFile == [pg |-> <<Blank("hot")>>, free |-> 0]

\* Mutant: one tuple too many fits.
RoomForOneMore(page) == Len(page.items) <= IF page.kind = "hot" THEN HotCap ELSE Cap

Room(page) == Len(page.items) < IF page.kind = "hot" THEN HotCap ELSE Cap

Put(f, p, x) == [f EXCEPT !.pg[p].items = Append(@, x)]

\* allocPage: the head of the free list, or a page appended to the file.
Allocated(f) == IF f.free > 0 THEN f.free ELSE Len(f.pg) + 1

\* Mutant: the page stays on the free list.
AllocUnpopped(f, kind) ==
    IF f.free > 0 THEN [f EXCEPT !.pg[f.free] = [Blank(kind) EXCEPT !.next = f.pg[f.free].next]]
    ELSE [f EXCEPT !.pg = Append(@, Blank(kind))]

Alloc(f, kind) ==
    IF f.free > 0
    THEN [pg |-> [f.pg EXCEPT ![f.free] = Blank(kind)], free |-> f.pg[f.free].next]
    ELSE [f EXCEPT !.pg = Append(@, Blank(kind))]

\* Mutant: the freed page is not linked to the rest of the free list.
FreePageAlone(f, p) == [pg |-> [f.pg EXCEPT ![p] = Blank("free")], free |-> p]

FreePage(f, p) ==
    [pg |-> [f.pg EXCEPT ![p] = [Blank("free") EXCEPT !.next = f.free]], free |-> p]

-----------------------------------------------------------------------------
(* Chains *)

\* The pages from head on; a page met twice ends the walk.
Chain(f, head) ==
    LET onward == [seen \in Seq(Nat) |->
                      LET next == f.pg[Last(seen)].next
                      IN  IF next \in {0} \cup ToSet(seen) THEN seen ELSE Append(seen, next)]
        walk[n \in 0..Len(f.pg)] == IF n = 0 THEN <<head>> ELSE onward[walk[n - 1]]
    IN  IF head = 0 THEN <<>> ELSE walk[Len(f.pg)]

\* The tuples of the pages, one page after the other.
Tuples(f, chain) ==
    LET upTo[n \in 0..Len(chain)] ==
            IF n = 0 THEN <<>> ELSE upTo[n - 1] \o f.pg[chain[n]].items
    IN  upTo[Len(chain)]

Contents(f, head) == Tuples(f, Chain(f, head))

\* The pages are freed one after the other.
FreeAll(f, chain) ==
    LET upTo[n \in 0..Len(chain)] ==
            IF n = 0 THEN f ELSE FreePage(upTo[n - 1], chain[n])
    IN  upTo[Len(chain)]

\* The place of the first page with room, 0 if none has any.
RoomAt(f, chain) == SelectInSeq(chain, LAMBDA p : Room(f.pg[p]))

\* Mutant: the new page is not linked to the chain.
InsertUnlinked(f, root, kind, x) ==
    LET at == RoomAt(f, Chain(f, root))
    IN  IF at > 0 THEN Put(f, Chain(f, root)[at], x)
        ELSE Put(Alloc(f, kind), Allocated(f), x)

\* insertIntoChain: the first page with room, else a new page at the end.  An
\* entry fits an empty page; the code does not look whether it does
\* (engine.ts:450) and would drop a larger one.
InsertIntoChain(f, root, kind, x) ==
    LET chain == Chain(f, root)
        at == RoomAt(f, chain)
        new == Allocated(f)
        longer == [Alloc(f, kind) EXCEPT !.pg[Last(chain)].next = new]
    IN  IF at > 0 THEN Put(f, chain[at], x) ELSE Put(longer, new, x)

-----------------------------------------------------------------------------
(* The hot chain *)

\* The tuples of the other keys.
TuplesBut(tuples, k) ==
    LET upTo[n \in 0..Len(tuples)] ==
            IF n = 0 THEN <<>>
            ELSE IF tuples[n][1] = k THEN upTo[n - 1] ELSE Append(upTo[n - 1], tuples[n])
    IN  upTo[Len(tuples)]

ClearPage(f, p) == [f EXCEPT !.pg[p] = Blank("hot")]

ClearAll(f, chain) ==
    LET upTo[n \in 0..Len(chain)] ==
            IF n = 0 THEN f ELSE ClearPage(upTo[n - 1], chain[n])
    IN  upTo[Len(chain)]

InsertAll(f, tuples) ==
    LET upTo[n \in 0..Len(tuples)] ==
            IF n = 0 THEN f ELSE InsertIntoChain(upTo[n - 1], HotRoot, "hot", tuples[n])
    IN  upTo[Len(tuples)]

\* writeHotLocal: every page of the chain is cleared and unlinked, then all is
\* inserted again from the root.
WriteHot(f, k, v) ==
    InsertAll(ClearAll(f, Chain(f, HotRoot)),
              Append(TuplesBut(Contents(f, HotRoot), k), <<k, v>>))

KeyAt(f, chain, k) == SelectInSeq(chain, LAMBDA p : \E t \in ToSet(f.pg[p].items) : t[1] = k)

\* The page on which the walk from start meets the key, 0 if on none.
HotPage(f, k, start) ==
    LET chain == Chain(f, start)
        at == KeyAt(f, chain, k)
    IN  IF at > 0 THEN chain[at] ELSE 0

\* deleteHotLocal: the page with the key is replaced by a fresh one, and the
\* walk goes on from the fresh one's next page.
DeleteHot(f, k, start) ==
    LET p == HotPage(f, k, start)
    IN  IF p = 0 THEN f
        ELSE [f EXCEPT !.pg[p] =
                 [Blank("hot") EXCEPT !.items = TuplesBut(f.pg[p].items, k)]]
=============================================================================
