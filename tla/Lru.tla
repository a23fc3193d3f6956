-------------------------------- MODULE Lru --------------------------------
(***************************************************************************)
(* The segmented LRU of one slab class and the threads that work on it:    *)
(* workers that store, read and delete items and pull the tail when memory *)
(* runs out; the maintainer that moves items between HOT, WARM and COLD    *)
(* and drains the buffers of the hits on COLD items; and the crawler,      *)
(* whose own marker node walks through the lists.  The lists are the       *)
(* pointers of the code.  Age and size limits are any answer; a key is its *)
(* own hash value and so has its own item lock.                            *)
(***************************************************************************)
EXTENDS Integers, FiniteSets, FiniteSetsExt

CONSTANTS Keys, Items, Workers,
          NewLrus,        \* the sub-LRUs an item may start in
          Crawls,         \* the sets of sub-LRUs a crawl may be asked for
          CrawlTypes,     \* ... and the types of those clients ask for
          Tocrawl,        \* settings.lru_crawler_tocrawl
          BumpSize,       \* LRU_BUMP_BUF_SIZE
          Tries,          \* tries of lru_pull_tail (5)
          MaxRefs,        \* bound: references connections hold on one item
          MaxEvents,      \* bound: operations, crawls and expirations begun
          None

HOT == "hot"
WARM == "warm"
COLD == "cold"
TEMP == "temp"
Lrus == {HOT, WARM, COLD, TEMP}
Maintainer == "maintainer"
Crawler == "crawler"
EXPIRED == "expired"
AUTOEXPIRE == "autoexpire"
METADUMP == "metadump"
CAP == -1                \* LRU_CRAWLER_CAP_REMAINING

\* The marker that the crawler moves through sub-LRU l is the node l itself.
Nodes == Items \cup Lrus
Pullers == Workers \cup {Maintainer}

ASSUME LruAssumption == /\ NewLrus \subseteq {HOT, COLD, TEMP} /\ NewLrus # {}
                        /\ Crawls \subseteq (SUBSET Lrus) \ {{}}
                        /\ CrawlTypes \subseteq {EXPIRED, METADUMP}
                        /\ Tocrawl \in Nat
                        /\ {BumpSize, Tries} \subseteq Nat \ {0} /\ {MaxRefs, MaxEvents} \subseteq Nat
                        /\ None \notin Nodes \cup Keys \cup Workers

\* Items, markers and threads are told apart.
ASSUME NodeAssumption == /\ IsFiniteSet(Items) /\ IsFiniteSet(Workers)
                         /\ Items \cap Lrus = {} /\ {Maintainer, Crawler} \cap Workers = {}
                         /\ None \notin {Maintainer, Crawler}

VARIABLES
    q,          \* the lists: heads, tails, next, prev, sizes; and due, a
                \* history of the items that the crawl of a list has yet to meet
    item,       \* the items
    table,      \* key -> its item in the hash table, or None
    held,       \* references held by connections
    lock,       \* item locks, by key
    lru_lock,   \* lru_locks
    th,         \* where the workers and the maintainer are
    buf,        \* the workers' bump buffers
    enabled,    \* the crawlers with it_flags 1
    remaining, crawler_count,
    c,          \* the crawler thread
    starting,   \* the lists that lru_crawler_start has yet to kick off
    events      \* the operations, crawls and expirations so far

memoryVars == <<item, table, held>>
crawlVars == <<enabled, remaining, crawler_count, c, starting>>
vars == <<q, memoryVars, lock, lru_lock, th, buf, crawlVars, events>>

Free == [key |-> None, lru |-> HOT, flags |-> {}, ref |-> 0, expired |-> FALSE]
Idle == [pc |-> "idle", key |-> None, it |-> None, own |-> 0, removed |-> 0, lru |-> HOT,
         flags |-> {}, search |-> None, tries |-> 0, move |-> None, buf |-> None, at |-> 0,
         size |-> 0, ids |-> {}]
NoCrawl == [pc |-> "wait", type |-> None, it |-> None]
NotStarting == [ids |-> {}, remaining |-> 0, by |-> None]
bipbuf_init == [a_start |-> 0, a_end |-> 0, b_end |-> 0, b_inuse |-> FALSE,
                data |-> [i \in 0 .. BumpSize - 1 |-> None]]

InitThreads ==
    /\ lock = [k \in Keys |-> None] /\ lru_lock = [l \in Lrus |-> None]
    /\ th = [t \in Pullers |-> Idle] /\ buf = [w \in Workers |-> bipbuf_init]
    /\ enabled = {} /\ remaining = [l \in Lrus |-> 0] /\ crawler_count = 0
    /\ c = NoCrawl /\ starting = NotStarting
    /\ events = 0

Init == /\ q = [heads |-> [l \in Lrus |-> None], tails |-> [l \in Lrus |-> None],
                next |-> [x \in Nodes |-> None], prev |-> [x \in Nodes |-> None],
                sizes |-> [l \in Lrus |-> 0], due |-> [l \in Lrus |-> {}]]
        /\ item = [x \in Items |-> Free] /\ table = [k \in Keys |-> None]
        /\ held = [x \in Items |-> 0]
        /\ InitThreads

----------------------------------------------------------------------------
(* The lists.  A node outside the lists has pointers nobody reads: None.   *)

\* f with f[x] = v, where x may be the null pointer.
At(f, x, v) == IF x = None THEN f ELSE [f EXCEPT ![x] = v]

do_item_link_q(x, l) ==
    LET h == q.heads[l]
    IN  [q EXCEPT !.prev = At([@ EXCEPT ![x] = None], h, x), !.next[x] = h,
                  !.heads[l] = x, !.tails[l] = IF @ = None THEN x ELSE @,
                  !.sizes[l] = @ + 1]

\* Take a node out of list l of lists s.
Detach(s, x, l) ==
    LET n == s.next[x]
        p == s.prev[x]
    IN  [s EXCEPT !.heads[l] = IF @ = x THEN n ELSE @,
                  !.tails[l] = IF @ = x THEN p ELSE @,
                  !.prev = [At(@, n, p) EXCEPT ![x] = None],
                  !.next = [At(@, p, n) EXCEPT ![x] = None],
                  !.due[l] = @ \ {x}]

do_item_unlink_q(x, l) == [Detach(q, x, l) EXCEPT !.sizes[l] = @ - 1]

\* Out of its place and in at the head.
do_item_update_nolock(x, l) ==
    LET s == do_item_unlink_q(x, l)
        h == s.heads[l]
    IN  [s EXCEPT !.prev = At(@, h, x), !.next[x] = h, !.heads[l] = x,
                  !.tails[l] = IF @ = None THEN x ELSE @, !.sizes[l] = @ + 1]

do_item_linktail_q(l) ==
    LET t == q.tails[l]
    IN  [q EXCEPT !.next = At([@ EXCEPT ![l] = None], t, l), !.prev[l] = t,
                  !.tails[l] = l, !.heads[l] = IF @ = None THEN l ELSE @]

do_item_unlinktail_q(s, l) == Detach(s, l, l)

\* Mutant: the marker that was the tail stays the tail when it swings ahead.
do_item_crawl_q_KeepsTail(l) ==
    LET n == q.next[l]
        p == q.prev[l]
        pp == q.prev[p]
    IN  IF p = None
        THEN [found |-> None, q |-> q]
        ELSE [found |-> p,
              q |-> [q EXCEPT !.heads[l] = IF @ = p THEN l ELSE @,
                              !.next = At([@ EXCEPT ![p] = n, ![l] = p], pp, l),
                              !.prev = [At(@, n, p) EXCEPT ![l] = pp, ![p] = l]]]

\* The marker swings in front of the node before it, which is the one found.
do_item_crawl_q(l) ==
    LET n == q.next[l]
        p == q.prev[l]
        pp == q.prev[p]
    IN  IF p = None
        THEN [found |-> None,
              q |-> IF n = None THEN q
                    ELSE [q EXCEPT !.heads[l] = n, !.prev[n] = None]]
        ELSE [found |-> p,
              q |-> [q EXCEPT !.heads[l] = IF @ = p THEN l ELSE @,
                              !.tails[l] = IF @ = l THEN p ELSE @,
                              !.next = At([@ EXCEPT ![p] = n, ![l] = p], pp, l),
                              !.prev = [At(@, n, p) EXCEPT ![l] = pp, ![p] = l]]]

----------------------------------------------------------------------------
(* The bump buffer, in entries: a bip buffer of regions A and B.           *)

bipbuf_unused(b) == IF b.b_inuse THEN b.a_start - b.b_end ELSE BumpSize - b.a_end
__check_for_switch_to_b(b) ==
    IF BumpSize - b.a_end < b.a_start - b.b_end THEN [b EXCEPT !.b_inuse = TRUE] ELSE b
bipbuf_push(b, x) ==
    __check_for_switch_to_b(
        IF b.b_inuse THEN [b EXCEPT !.data[b.b_end] = x, !.b_end = @ + 1]
                     ELSE [b EXCEPT !.data[b.a_end] = x, !.a_end = @ + 1])
bipbuf_is_empty(b) == b.a_start = b.a_end
\* Slots that were read are None; the code leaves their bytes.
bipbuf_poll(b, size) ==
    LET r == [b EXCEPT !.a_start = @ + size,
                       !.data = [i \in DOMAIN @ |->
                                   IF i \in b.a_start .. b.a_start + size - 1
                                   THEN None ELSE @[i]]]
    IN  __check_for_switch_to_b(
            IF r.a_start # r.a_end THEN r
            ELSE IF r.b_inuse THEN [r EXCEPT !.a_start = 0, !.a_end = r.b_end,
                                             !.b_end = 0, !.b_inuse = FALSE]
            ELSE [r EXCEPT !.a_start = 0, !.a_end = 0])

----------------------------------------------------------------------------
(* Items and references.                                                   *)

Event == events < MaxEvents /\ events' = events + 1
Begins(w) == th[w].pc = "idle" /\ Event

ItemLocked(x) == lock[item[x].key] # None

refcount_incr(r) == [r EXCEPT !.ref = @ + 1]
do_item_remove(r) == IF r.ref = 1 THEN Free ELSE [r EXCEPT !.ref = @ - 1]

\* What do_item_unlink does before it takes the LRU lock.
MarkUnlinked(r) == [r EXCEPT !.flags = @ \ {"LINKED"}]

MarkActive(r) == [r EXCEPT !.flags = @ \cup {"ACTIVE"}]

\* Mutant: the buffer gets the item without a reference of its own.
lru_bump_async_NoRef(w, x) ==
    /\ buf' = [buf EXCEPT ![w] = IF bipbuf_unused(@) < 1 THEN @ ELSE bipbuf_push(@, x)]
    /\ item' = [item EXCEPT ![x] =
                  IF bipbuf_unused(buf[w]) < 1 THEN refcount_incr(@)
                  ELSE refcount_incr(MarkActive(@))]

\* A hit on a COLD item: ACTIVE stays set, and the buffer has a reference,
\* only if the buffer had room.  One reference is the caller's.
lru_bump_async(w, x) ==
    /\ buf' = [buf EXCEPT ![w] = IF bipbuf_unused(@) < 1 THEN @ ELSE bipbuf_push(@, x)]
    /\ item' = [item EXCEPT ![x] =
                  IF bipbuf_unused(buf[w]) < 1 THEN refcount_incr(@)
                  ELSE refcount_incr(refcount_incr(MarkActive(@)))]

\* do_item_get of an item that is there and not expired.
do_item_get(w, k) ==
    LET x == table[k]
        f == item[x].flags
    IN  /\ Begins(w) /\ lock[k] = None
        /\ x # None /\ held[x] < MaxRefs /\ ~item[x].expired
        /\ IF "FETCHED" \in f /\ "ACTIVE" \notin f /\ item[x].lru = COLD
           THEN lru_bump_async(w, x)
           ELSE /\ item' = [item EXCEPT
                              ![x].flags = @ \cup (IF "FETCHED" \in f THEN {"ACTIVE"}
                                                                      ELSE {"FETCHED"}),
                              ![x].ref = @ + 1]
                /\ UNCHANGED buf
        /\ held' = [held EXCEPT ![x] = @ + 1]
        /\ UNCHANGED <<q, table, lock, lru_lock, th, crawlVars>>

\* ... and of one that is expired or flushed: it is unlinked.
GetExpired(w, k) ==
    LET x == table[k]
    IN  /\ Begins(w) /\ lock[k] = None
        /\ x # None /\ item[x].expired
        /\ item' = [item EXCEPT ![x] = MarkUnlinked(refcount_incr(@))]
        /\ table' = [table EXCEPT ![k] = None]
        /\ lock' = [lock EXCEPT ![k] = w]
        /\ th' = [th EXCEPT ![w] = [Idle EXCEPT !.pc = "unlink", !.key = k, !.it = x,
                                                !.own = 1]]
        /\ UNCHANGED <<q, held, lru_lock, buf, crawlVars>>

\* item_unlink of an item the connection has a reference to (delete).
item_unlink(w, x) ==
    LET k == item[x].key
    IN  /\ Begins(w) /\ held[x] > 0 /\ lock[k] = None
        /\ "LINKED" \in item[x].flags
        /\ item' = [item EXCEPT ![x] = MarkUnlinked(@)]
        /\ table' = [table EXCEPT ![k] = None]
        /\ lock' = [lock EXCEPT ![k] = w]
        /\ th' = [th EXCEPT ![w] = [Idle EXCEPT !.pc = "unlink", !.key = k, !.it = x]]
        /\ UNCHANGED <<q, held, lru_lock, buf, crawlVars>>

\* The rest of do_item_unlink: item_unlink_q, the reference of the link, and
\* the reference do_item_get took where there is one.
item_unlink_q(w) ==
    LET x == th[w].it
        l == item[x].lru
        r == do_item_remove(item[x])
    IN  /\ th[w].pc \in {"unlink", "replace"} /\ lru_lock[l] = None
        /\ q' = do_item_unlink_q(x, l)
        /\ item' = [item EXCEPT ![x] = IF th[w].own = 1 THEN do_item_remove(r) ELSE r]
        /\ IF th[w].pc = "unlink"
           THEN /\ lock' = [lock EXCEPT ![th[w].key] = None]
                /\ th' = [th EXCEPT ![w] = Idle]
           ELSE /\ th' = [th EXCEPT ![w] = [Idle EXCEPT !.pc = "link", !.key = th[w].key,
                                                        !.it = th[w].search]]
                /\ UNCHANGED lock
        /\ UNCHANGED <<table, held, lru_lock, buf, crawlVars, events>>

\* item_remove of a connection's reference.
item_remove(w, x) ==
    /\ th[w].pc = "idle" /\ held[x] > 0 /\ ~ItemLocked(x)
    /\ item' = [item EXCEPT ![x] = do_item_remove(@)]
    /\ held' = [held EXCEPT ![x] = @ - 1]
    /\ UNCHANGED <<q, table, lock, lru_lock, th, buf, crawlVars, events>>

\* The clock, or flush_all, makes an item a dead one.
Expire(x) ==
    /\ "LINKED" \in item[x].flags /\ ~item[x].expired /\ Event
    /\ item' = [item EXCEPT ![x].expired = TRUE]
    /\ UNCHANGED <<q, table, held, lock, lru_lock, th, buf, crawlVars>>

----------------------------------------------------------------------------
(* Storing an item: memory first, then the link under the item lock.       *)

\* A worker that stores key k, or one that waits for memory for it.
Allocates(w, k) == \/ Begins(w)
                   \/ th[w].pc = "alloc" /\ th[w].key = k /\ UNCHANGED events

\* slabs_alloc has a chunk, with reference 1; do_item_alloc fills it in.
do_item_alloc(w, k) ==
    /\ Allocates(w, k)
    /\ \E x \in Items, l \in NewLrus :
        /\ item[x] = Free
        /\ item' = [item EXCEPT ![x] = [Free EXCEPT !.key = k, !.lru = l, !.ref = 1]]
        /\ th' = [th EXCEPT ![w] = [Idle EXCEPT !.pc = "store", !.key = k, !.it = x]]
    /\ UNCHANGED <<q, table, held, lock, lru_lock, buf, crawlVars>>

\* do_store_item under the item lock: an item that is there is replaced.
do_store_item(w) ==
    LET k == th[w].key
        old == table[k]
    IN  /\ th[w].pc = "store" /\ lock[k] = None
        /\ lock' = [lock EXCEPT ![k] = w]
        /\ IF old = None
           THEN /\ th' = [th EXCEPT ![w].pc = "link"]
                /\ UNCHANGED <<item, table>>
           ELSE /\ item' = [item EXCEPT ![old] = MarkUnlinked(refcount_incr(@))]
                /\ table' = [table EXCEPT ![k] = None]
                /\ th' = [th EXCEPT ![w] = [Idle EXCEPT !.pc = "replace", !.key = k, !.it = old,
                                                        !.own = 1, !.search = th[w].it]]
        /\ UNCHANGED <<q, held, lru_lock, buf, crawlVars, events>>

\* do_item_link: the flag and the hash table, then the list, then the
\* reference.  c->item keeps the allocation's reference until item_remove.
do_item_link(w) ==
    LET x == th[w].it
        l == item[x].lru
    IN  /\ th[w].pc = "link" /\ lru_lock[l] = None
        /\ item' = [item EXCEPT ![x].flags = @ \cup {"LINKED"}]
        /\ table' = [table EXCEPT ![th[w].key] = x]
        /\ q' = do_item_link_q(x, l)
        /\ th' = [th EXCEPT ![w].pc = "linked"]
        /\ UNCHANGED <<held, lock, lru_lock, buf, crawlVars, events>>

Linked(w) ==
    LET x == th[w].it
    IN  /\ th[w].pc = "linked"
        /\ item' = [item EXCEPT ![x].ref = @ + 1]
        /\ held' = [held EXCEPT ![x] = @ + 1]
        /\ lock' = [lock EXCEPT ![th[w].key] = None]
        /\ th' = [th EXCEPT ![w] = Idle]
        /\ UNCHANGED <<q, table, lru_lock, buf, crawlVars, events>>

----------------------------------------------------------------------------
(* lru_pull_tail by a worker or the maintainer t.                          *)

PullFrom(t, k, l, flags) ==
    /\ lru_lock[l] = None
    /\ lru_lock' = [lru_lock EXCEPT ![l] = t]
    /\ th' = [th EXCEPT ![t] = [Idle EXCEPT !.pc = "walk", !.key = k, !.lru = l,
                                            !.flags = flags, !.search = q.tails[l],
                                            !.tries = Tries]]
    /\ UNCHANGED <<q, memoryVars, lock, buf, crawlVars>>

NoMemory == \A x \in Items : item[x] # Free

\* do_item_alloc_pull without memory: evict from COLD; if nothing came of it,
\* pull HOT; then try again.
do_item_alloc_pull(w, k) ==
    \/ NoMemory /\ Allocates(w, k) /\ PullFrom(w, k, COLD, {"EVICT"})
    \/ /\ th[w].pc = "evicted0" /\ th[w].key = k
       /\ PullFrom(w, k, HOT, {}) /\ UNCHANGED events

\* ... which it does ten times.
AllocFails(w) ==
    /\ NoMemory /\ th[w].pc = "alloc"
    /\ th' = [th EXCEPT ![w] = Idle]
    /\ UNCHANGED <<q, memoryVars, lock, lru_lock, buf, crawlVars, events>>

\* The pull of an empty list, which does nothing, is left out.
lru_maintainer_juggle(l) ==
    /\ th[Maintainer].pc = "idle" /\ q.tails[l] # None
    /\ PullFrom(Maintainer, None, l, IF l = TEMP THEN {} ELSE {"CRAWL_BLOCKS"})
    /\ UNCHANGED events

\* Where t goes on when the pull has removed something, or nothing.
Returned(t) ==
    IF t = Maintainer THEN Idle
    ELSE [Idle EXCEPT !.key = th[t].key,
                      !.pc = IF "EVICT" \in th[t].flags /\ th[t].removed = 0
                             THEN "evicted0" ELSE "alloc"]

Walking(t) == th[t].pc = "walk"
IsCrawler(x) == x \in Lrus

\* The end of the list, the tries used up, or a crawler that blocks.
WalkEnds(t) ==
    /\ Walking(t)
    /\ \/ th[t].search = None
       \/ th[t].tries = 0
       \/ IsCrawler(th[t].search) /\ "CRAWL_BLOCKS" \in th[t].flags
    /\ lru_lock' = [lru_lock EXCEPT ![th[t].lru] = None]
    /\ th' = [th EXCEPT ![t] = Returned(t)]
    /\ UNCHANGED <<q, memoryVars, lock, buf, crawlVars, events>>

Looks(t) == Walking(t) /\ th[t].search # None /\ th[t].tries > 0

\* A crawler costs no try; an item whose lock is taken does.
WalkSkips(t) ==
    LET x == th[t].search
    IN  /\ Looks(t)
        /\ \/ /\ IsCrawler(x) /\ "CRAWL_BLOCKS" \notin th[t].flags
              /\ th' = [th EXCEPT ![t].search = q.prev[x]]
           \/ /\ ~IsCrawler(x) /\ ItemLocked(x)
              /\ th' = [th EXCEPT ![t].search = q.prev[x], ![t].tries = @ - 1]
        /\ UNCHANGED <<q, memoryVars, lock, lru_lock, buf, crawlVars, events>>

AtItem(t) == Looks(t) /\ ~IsCrawler(th[t].search) /\ ~ItemLocked(th[t].search)

\* do_item_unlink_nolock of an item that the caller has a reference to.
do_item_unlink_nolock(x) ==
    /\ q' = do_item_unlink_q(x, item[x].lru)
    /\ table' = [table EXCEPT ![item[x].key] = None]

\* An expired item is unlinked and the walk goes on.
WalkReclaims(t) ==
    LET x == th[t].search
    IN  /\ AtItem(t) /\ item[x].expired
        /\ do_item_unlink_nolock(x)
        /\ item' = [item EXCEPT ![x] = do_item_remove(MarkUnlinked(@))]
        /\ th' = [th EXCEPT ![t].search = q.prev[x], ![t].tries = @ - 1, ![t].removed = 1]
        /\ UNCHANGED <<held, lock, lru_lock, buf, crawlVars, events>>

\* An active WARM item goes to the head, if it was not there this minute,
\* and the walk goes on.
WalkRescues(t) ==
    LET x == th[t].search
    IN  /\ AtItem(t) /\ ~item[x].expired /\ th[t].lru = WARM /\ "ACTIVE" \in item[x].flags
        /\ q' \in {q, do_item_update_nolock(x, WARM)}
        /\ item' = [item EXCEPT ![x].flags = @ \ {"ACTIVE"}]
        /\ th' = [th EXCEPT ![t].search = q.prev[x], ![t].tries = @ - 1, ![t].removed = 1]
        /\ UNCHANGED <<table, held, lock, lru_lock, buf, crawlVars, events>>

MarkInactive(r) == [r EXCEPT !.flags = @ \ {"ACTIVE"}]

\* The list that an item goes to; None: it stays.  Whether a HOT or WARM list
\* is too large or the item too old is any answer.
MovesTo(l, flags, active) ==
    CASE l = HOT -> IF active THEN {WARM} ELSE {COLD, None}
      [] l = WARM -> {COLD, None}
      [] l = COLD -> IF active /\ "EVICT" \notin flags THEN {WARM} ELSE {None}
      [] l = TEMP -> {None}

\* The item the walk stops at: evicted, taken out to be moved, or left.  The
\* item lock and a reference are kept when the LRU lock is released.
WalkStops(t) ==
    LET x == th[t].search
        l == th[t].lru
        active == "ACTIVE" \in item[x].flags
        evict == l = COLD /\ "EVICT" \in th[t].flags
        r == refcount_incr(item[x])
    IN  /\ AtItem(t) /\ ~item[x].expired /\ ~(l = WARM /\ active)
        /\ lock' = [lock EXCEPT ![item[x].key] = t]
        /\ lru_lock' = [lru_lock EXCEPT ![l] = None]
        /\ \E to \in MovesTo(l, th[t].flags, active) :
            /\ th' = [th EXCEPT ![t].pc = "pulled", ![t].it = x, ![t].move = to,
                                ![t].search = None, ![t].tries = 0,
                                ![t].removed = IF evict \/ to # None THEN 1 ELSE @]
            /\ IF evict
               THEN /\ do_item_unlink_nolock(x)
                    /\ item' = [item EXCEPT ![x] = do_item_remove(MarkUnlinked(r))]
               ELSE /\ q' = IF to = None THEN q ELSE do_item_unlink_q(x, l)
                    /\ item' = [item EXCEPT ![x] = IF to = None THEN r ELSE MarkInactive(r)]
                    /\ UNCHANGED table
        /\ UNCHANGED <<held, buf, crawlVars, events>>

\* After the walk, without the LRU lock: the link into the new list, the
\* reference and the item lock.
Pulled(t) ==
    LET x == th[t].it
        to == th[t].move
    IN  /\ th[t].pc = "pulled"
        /\ \/ /\ to # None /\ lru_lock[to] = None
              /\ q' = do_item_link_q(x, to)
              /\ item' = [item EXCEPT ![x] = do_item_remove([@ EXCEPT !.lru = to])]
           \/ /\ to = None
              /\ item' = [item EXCEPT ![x] = do_item_remove(@)]
              /\ UNCHANGED q
        /\ lock' = [lock EXCEPT ![item[x].key] = None]
        /\ th' = [th EXCEPT ![t] = Returned(t)]
        /\ UNCHANGED <<table, held, lru_lock, buf, crawlVars, events>>

----------------------------------------------------------------------------
(* lru_maintainer_bumps: the hits on COLD items.                           *)

BumpPeek(w) ==
    /\ th[Maintainer].pc = "idle" /\ ~bipbuf_is_empty(buf[w])
    /\ th' = [th EXCEPT ![Maintainer] =
                 [Idle EXCEPT !.pc = "bump", !.buf = w, !.at = buf[w].a_start,
                              !.size = buf[w].a_end - buf[w].a_start]]
    /\ UNCHANGED <<q, memoryVars, lock, lru_lock, buf, crawlVars, events>>

\* The entry that be points to.  The slots from a_start on do not move until
\* bipbuf_poll, whatever is pushed meanwhile.
Entry == LET m == th[Maintainer] IN buf[m.buf].data[m.at]
MoreEntries == LET m == th[Maintainer] IN m.at < buf[m.buf].a_start + m.size

\* do_item_update has nothing to move, and do_item_remove follows.
BumpStays ==
    LET x == Entry
    IN  /\ th[Maintainer].pc = "bump" /\ MoreEntries /\ ~ItemLocked(x)
        /\ ~({"LINKED", "ACTIVE"} \subseteq item[x].flags /\ item[x].lru = COLD)
        /\ item' = [item EXCEPT ![x] = do_item_remove(@)]
        /\ th' = [th EXCEPT ![Maintainer].at = @ + 1]
        /\ UNCHANGED <<q, table, held, lock, lru_lock, buf, crawlVars, events>>

\* A linked, active COLD item moves to WARM: out of one list under the item
\* lock ...
BumpUnlinks ==
    LET x == Entry
    IN  /\ th[Maintainer].pc = "bump" /\ MoreEntries /\ ~ItemLocked(x)
        /\ {"LINKED", "ACTIVE"} \subseteq item[x].flags /\ item[x].lru = COLD
        /\ lru_lock[COLD] = None
        /\ lock' = [lock EXCEPT ![item[x].key] = Maintainer]
        /\ q' = do_item_unlink_q(x, COLD)
        /\ item' = [item EXCEPT ![x].flags = @ \ {"ACTIVE"}, ![x].lru = WARM]
        /\ th' = [th EXCEPT ![Maintainer].pc = "bumped"]
        /\ UNCHANGED <<table, held, lru_lock, buf, crawlVars, events>>

\* ... and into the other.
item_link_q_warm ==
    LET x == Entry
    IN  /\ th[Maintainer].pc = "bumped" /\ lru_lock[WARM] = None
        /\ q' = do_item_link_q(x, WARM)
        /\ item' = [item EXCEPT ![x] = do_item_remove(@)]
        /\ lock' = [lock EXCEPT ![item[x].key] = None]
        /\ th' = [th EXCEPT ![Maintainer].pc = "bump", ![Maintainer].at = @ + 1]
        /\ UNCHANGED <<table, held, lru_lock, buf, crawlVars, events>>

BumpPoll ==
    /\ th[Maintainer].pc = "bump" /\ ~MoreEntries
    /\ buf' = [buf EXCEPT ![th[Maintainer].buf] = bipbuf_poll(@, th[Maintainer].size)]
    /\ th' = [th EXCEPT ![Maintainer] = Idle]
    /\ UNCHANGED <<q, memoryVars, lock, lru_lock, crawlVars, events>>

----------------------------------------------------------------------------
(* The crawler.  lru_crawler_lock is free while the thread waits or sleeps *)
(* and nobody is starting a crawl.                                         *)

lru_crawler_running == c.type # None
CrawlerLockFree == c.pc \in {"wait", "sleep"} /\ starting.ids = {}

\* lru_crawler_start by thread t, up to the loop over the lists; only automatic
\* crawls may join one that runs.
lru_crawler_start(t, type, ids, r) ==
    /\ CrawlerLockFree
    /\ ~lru_crawler_running \/ (type = AUTOEXPIRE /\ c.type = AUTOEXPIRE)
    /\ starting' = [ids |-> ids, remaining |-> r, by |-> t]
    /\ th' = [th EXCEPT ![t] = [Idle EXCEPT !.pc = "starting"]]
    /\ c' = IF lru_crawler_running THEN c ELSE [c EXCEPT !.type = type]
    /\ UNCHANGED <<q, memoryVars, lock, lru_lock, buf, enabled, remaining, crawler_count>>

\* A client asks for a crawl.  A refused call changes nothing here.
lru_crawler_crawl(w, type, ids) ==
    /\ Begins(w)
    /\ lru_crawler_start(w, type, ids, IF type = METADUMP THEN CAP ELSE Tocrawl)

\* The maintainer finds that the lists in ids are due (any may be) and takes
\* the size of the largest as the limit of the crawl it is going to start...
lru_maintainer_crawler_check(ids) ==
    LET longest == Max({q.sizes[l] : l \in ids})
    IN  /\ Begins(Maintainer) /\ \A l \in ids : lru_lock[l] = None
        /\ th' = [th EXCEPT ![Maintainer] =
                     [Idle EXCEPT !.pc = "crawl", !.ids = ids,
                                  !.size = IF Tocrawl # 0 THEN Min({Tocrawl, longest})
                                                          ELSE longest]]
        /\ UNCHANGED <<q, memoryVars, lock, lru_lock, buf, crawlVars>>

\* ... which may be refused: another runs, or one was refused this minute.
MaintainerCrawls ==
    LET m == th[Maintainer]
    IN  /\ m.pc = "crawl"
        /\ \/ lru_crawler_start(Maintainer, AUTOEXPIRE, m.ids, m.size)
           \/ /\ CrawlerLockFree
              /\ th' = [th EXCEPT ![Maintainer] = Idle]
              /\ UNCHANGED <<q, memoryVars, lock, lru_lock, buf, crawlVars>>
        /\ UNCHANGED events

\* Mutant: the limit is the number of nodes to look at.
CrawlLimit_Same(n) == n

\* crawlers[].remaining for n nodes: 0 is no limit, and the loop stops when
\* it gets to zero, before it looks.
CrawlLimit(n) == IF n = 0 THEN 0 ELSE n + 1

\* The items in list l.
Listed(l) == {x \in Items : q.prev[x] # None \/ q.next[x] # None \/ q.heads[l] = x}
                \cap {x \in Items : item[x].lru = l}

\* do_lru_crawler_start for one list, under its lock; the last one started
\* signals the thread.
do_lru_crawler_start(l) ==
    LET n == IF starting.remaining = CAP THEN q.sizes[l] ELSE starting.remaining
        started == l \notin enabled
    IN  /\ l \in starting.ids /\ lru_lock[l] = None
        /\ IF starting.ids = {l}
           THEN starting' = NotStarting /\ th' = [th EXCEPT ![starting.by] = Idle]
           ELSE starting' = [starting EXCEPT !.ids = @ \ {l}] /\ UNCHANGED th
        /\ IF started
           THEN /\ remaining' = [remaining EXCEPT ![l] = CrawlLimit(n)]
                /\ q' = [do_item_linktail_q(l) EXCEPT
                           !.due[l] = IF n = 0 \/ n >= q.sizes[l] THEN Listed(l) ELSE {}]
                /\ enabled' = enabled \cup {l} /\ crawler_count' = crawler_count + 1
           ELSE UNCHANGED <<q, remaining, enabled, crawler_count>>
        /\ c' = [c EXCEPT !.pc = IF starting.ids = {l} /\ @ = "wait" /\ enabled' # {}
                                 THEN "loop" ELSE @]
        /\ UNCHANGED <<memoryVars, lock, lru_lock, buf, events>>

\* lru_crawler_class_done, given the lists as do_item_crawl_q left them.
lru_crawler_class_done(l, s) ==
    /\ enabled' = enabled \ {l}
    /\ crawler_count' = crawler_count - 1
    /\ q' = do_item_unlinktail_q(s, l)

\* crawler_expired_eval, with the LRU lock, of item x that the marker met in
\* the lists s: an expired one is unlinked and freed.
crawler_expired_eval(x, l, s) ==
    /\ IF item[x].expired
       THEN /\ q' = [Detach(s, x, l) EXCEPT !.sizes[l] = @ - 1]
            /\ item' = [item EXCEPT ![x] = Free]
            /\ table' = [table EXCEPT ![item[x].key] = None]
       ELSE q' = s /\ UNCHANGED <<item, table>>
    /\ c' = [c EXCEPT !.pc = "sleep"]
    /\ UNCHANGED lock

\* The loop reaches an enabled list (in any order) and moves its marker.
\* The item it meets is evaluated only if its lock is free and nobody else
\* has a reference; the dump evaluates after releasing the LRU lock.  Then the
\* thread gives lru_crawler_lock a chance, or sleeps without it.
item_crawler_thread(l) ==
    LET r == do_item_crawl_q(l)
        x == r.found
        met == [r.q EXCEPT !.due[l] = @ \ {x}]
        skip == ItemLocked(x) \/ item[x].ref # 1
        left == remaining[l] - 1
    IN  /\ c.pc = "loop" /\ l \in enabled /\ lru_lock[l] = None
        /\ IF x = None \/ (remaining[l] # 0 /\ left < 1)
           THEN /\ lru_crawler_class_done(l, r.q)
                /\ remaining' = [remaining EXCEPT ![l] = 0]
                /\ UNCHANGED <<memoryVars, lock, c>>
           ELSE /\ remaining' = [remaining EXCEPT ![l] = IF @ = 0 THEN 0 ELSE left]
                /\ UNCHANGED <<enabled, crawler_count, held>>
                /\ \/ skip /\ q' = met /\ UNCHANGED <<item, table, lock, c>>
                   \/ /\ ~skip /\ c.type = METADUMP
                      /\ q' = met
                      /\ lock' = [lock EXCEPT ![item[x].key] = Crawler]
                      /\ item' = [item EXCEPT ![x].ref = @ + 1]
                      /\ c' = [c EXCEPT !.pc = "eval", !.it = x]
                      /\ UNCHANGED table
                   \/ ~skip /\ c.type # METADUMP /\ crawler_expired_eval(x, l, met)
        /\ UNCHANGED <<lru_lock, th, buf, starting, events>>

crawler_metadump_eval ==
    /\ c.pc = "eval"
    /\ item' = [item EXCEPT ![c.it].ref = @ - 1]
    /\ lock' = [lock EXCEPT ![item[c.it].key] = None]
    /\ c' = [c EXCEPT !.pc = "sleep", !.it = None]
    /\ UNCHANGED <<q, table, held, lru_lock, th, buf, enabled, remaining, crawler_count, starting, events>>

CrawlerWakes ==
    /\ c.pc = "sleep" /\ starting.ids = {}
    /\ c' = [c EXCEPT !.pc = "loop"]
    /\ UNCHANGED <<q, memoryVars, lock, lru_lock, th, buf, enabled, remaining, crawler_count, starting, events>>

\* No list left: finalize, hand the client back, and wait.
CrawlEnds ==
    /\ c.pc = "loop" /\ crawler_count = 0
    /\ c' = NoCrawl
    /\ UNCHANGED <<q, memoryVars, lock, lru_lock, th, buf, enabled, remaining, crawler_count, starting, events>>

----------------------------------------------------------------------------
WorkerStep(w) ==
    \/ \E k \in Keys : \/ do_item_get(w, k) \/ GetExpired(w, k)
                       \/ do_item_alloc(w, k) \/ do_item_alloc_pull(w, k)
    \/ \E x \in Items : item_unlink(w, x) \/ item_remove(w, x)
    \/ item_unlink_q(w) \/ AllocFails(w)
    \/ do_store_item(w) \/ do_item_link(w) \/ Linked(w)

lru_pull_tail(t) == \/ WalkEnds(t) \/ WalkSkips(t) \/ WalkReclaims(t) \/ WalkRescues(t)
                    \/ WalkStops(t) \/ Pulled(t)

MaintainerStep == \/ \E l \in Lrus : lru_maintainer_juggle(l)
                  \/ \E w \in Workers : BumpPeek(w)
                  \/ BumpStays \/ BumpUnlinks \/ item_link_q_warm \/ BumpPoll
                  \/ MaintainerCrawls

CrawlerStep == \/ \E l \in Lrus : do_lru_crawler_start(l) \/ item_crawler_thread(l)
               \/ crawler_metadump_eval \/ CrawlerWakes \/ CrawlEnds

StartCrawl == \E ids \in Crawls :
                 \/ lru_maintainer_crawler_check(ids)
                 \/ \E w \in Workers, type \in CrawlTypes : lru_crawler_crawl(w, type, ids)

\* A server with nothing to do stays as it is; any other stop is a deadlock.
Rest == /\ \A t \in Pullers : th[t].pc = "idle"
        /\ c.pc = "wait" /\ starting.ids = {}
        /\ UNCHANGED vars

Next == \/ \E w \in Workers : WorkerStep(w)
        \/ \E t \in Pullers : lru_pull_tail(t)
        \/ MaintainerStep \/ CrawlerStep \/ StartCrawl
        \/ (\E x \in Items : Expire(x)) \/ Rest

Spec == Init /\ [][Next]_vars

\* A dump whose client went away: the loop ends the crawl of every list
\* without the LRU lock, which lru_crawler_class_done then releases for
\* whoever has it.
ClientGone(l) ==
    /\ c.pc = "loop" /\ c.type = METADUMP /\ l \in enabled
    /\ lru_crawler_class_done(l, q)
    /\ lru_lock' = [lru_lock EXCEPT ![l] = None]
    /\ UNCHANGED <<memoryVars, lock, th, buf, remaining, c, starting, events>>

SpecClientGone == Init /\ [][Next \/ \E l \in Lrus : ClientGone(l)]_vars

----------------------------------------------------------------------------
\* The threads between the two halves of an operation on item x.
Unlinking(x) == \E w \in Workers : th[w].pc \in {"unlink", "replace"} /\ th[w].it = x
Linking(x) == \E w \in Workers : th[w].pc = "linked" /\ th[w].it = x
Moving(x) == \/ \E t \in Pullers : th[t].pc = "pulled" /\ th[t].it = x /\ th[t].move # None
             \/ th[Maintainer].pc = "bumped" /\ Entry = x

Members(l) == {x \in Items : /\ item[x].lru = l
                             /\ "LINKED" \in item[x].flags \/ Unlinking(x)
                             /\ ~Moving(x)} \cup (enabled \cap {l})

\* Each list, followed from its head, has every linked item of its sub-LRU
\* (of those that no thread is moving under the item lock) and the crawler's
\* marker while it crawls there, once, in both directions, and nothing else;
\* and sizes counts its items: link, unlink, the tail pulls, the bumps and
\* the marker's shuffle (items.c) never tear a list or lose an item.
ListsExact ==
    \A l \in Lrus :
        LET n == Cardinality(Members(l))
            path[i \in 1 .. n] == IF i = 1 THEN q.heads[l]
                                  ELSE IF path[i - 1] = None THEN None
                                  ELSE q.next[path[i - 1]]
        IN  /\ {path[i] : i \in 1 .. n} = Members(l)
            /\ n = 0 => q.heads[l] = None /\ q.tails[l] = None
            /\ n > 0 => q.tails[l] = path[n] /\ q.next[path[n]] = None
            /\ \A i \in 1 .. n : q.prev[path[i]] = IF i = 1 THEN None ELSE path[i - 1]
            /\ q.sizes[l] = Cardinality(Members(l) \ {l})

\* The bumps of x that the maintainer has yet to give back.
Bumps(x) ==
    {e \in Workers \X (0 .. BumpSize - 1) :
        /\ buf[e[1]].data[e[2]] = x
        /\ ~(/\ th[Maintainer].pc \in {"bump", "bumped"} /\ th[Maintainer].buf = e[1]
             /\ e[2] \in buf[e[1]].a_start .. th[Maintainer].at - 1)}

Holders(x) == {w \in Workers : \/ th[w].it = x /\ th[w].pc \in {"store", "link", "linked", "pulled"}
                               \/ th[w].it = x /\ th[w].own = 1
                               \/ th[w].search = x /\ th[w].pc = "replace"}
               \cup {t \in {Maintainer} : th[t].pc = "pulled" /\ th[t].it = x}
               \cup {t \in {Crawler} : c.pc = "eval" /\ c.it = x}

\* A refcount is one for the link, plus the connections, the threads at work
\* and the entries of the bump buffers that still have the item: an item in
\* a bump buffer is not freed before the maintainer has dealt with it, and
\* every entry is given back once, whatever was pushed, wrapped or dropped
\* meanwhile (lru_bump_async, lru_maintainer_bumps, bipbuffer.c).
RefcountExact ==
    \A x \in Items :
        item[x].ref = (IF ("LINKED" \in item[x].flags \/ Unlinking(x)) /\ ~Linking(x)
                       THEN 1 ELSE 0)
                      + held[x] + Cardinality(Holders(x)) + Cardinality(Bumps(x))

\* A crawl whose limit covers the whole list has met every item that was in
\* the list when it began and stayed there, although items are linked at the
\* head and unlinked around the marker all the time.  (crawler.c: a dump, or a
\* limit not below the size of the list; of a crawl with a lower limit, which
\* leaves the rest of the list alone, due is empty.)
CrawlMissesNothing ==
    [][\A l \in enabled : l \notin enabled' => q.due[l] = {}]_vars

\* The LRU lock is held by whoever walks the list (lru_pull_tail).
WalkKeepsLock == \A t \in Pullers : th[t].pc = "walk" => lru_lock[th[t].lru] = t
=============================================================================
