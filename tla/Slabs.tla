------------------------------- MODULE Slabs --------------------------------
(***************************************************************************)
(* The slab allocator and the slab mover of memory_lru/slabs.c, with the   *)
(* items that worker threads keep in its chunks (memory_lru/items.c).      *)
(*                                                                         *)
(* Every section of code under slabs_lock is one step.  A worker's section *)
(* under an item lock is the step that takes the lock, which others can    *)
(* see by their trylock, and the step that does the work and releases it,  *)
(* with the slabs_free in between, if there is one, a step of its own.     *)
(* The mover drops and retakes slabs_lock inside slab_rebalance_move;      *)
(* those places are steps too.  A freelist is a set: its order is never    *)
(* relied upon.                                                            *)
(* Sizes are counted in pages.                                             *)
(***************************************************************************)
EXTENDS Integers, Sequences, FiniteSets

CONSTANTS Pages,        \* the pages malloc can return
          Classes,      \* POWER_SMALLEST .. power_largest
          PerSlab,      \* slabclass[c].perslab
          Keys,
          Sizes,        \* Sizes[k]: the classes that items with key k need
          Workers,
          MaxLoops,     \* SLAB_MOVE_MAX_LOOPS
          InitLimit,    \* slabs_init's limit
          Limits,       \* what slabs_adjust_mem_limit may be called with
          Prefill,      \* was slabs_prefill_global called?
          Moves,        \* <<src, dst>> that slabs_reassign is called with
          MaxMalloced,  \* bound on mem_malloced
          TestsPool,    \* does do_slabs_newslab test the pool, or p->slabs again?
          None

POOL == 0               \* SLAB_GLOBAL_PAGE_POOL
Mover == "mover"
LINKED == "LINKED"
SLABBED == "SLABBED"
FETCHED == "FETCHED"
Chunks == {<<p, i>> : p \in Pages, i \in UNION {1 .. PerSlab[c] : c \in Classes}}
ChunksOf(p, c) == {<<p, i>> : i \in 1 .. PerSlab[c]}

ASSUME ClassAssumption == /\ Classes \subseteq Nat \ {POOL}
                          /\ PerSlab \in [Classes -> Nat \ {0}]
                          /\ Sizes \in [Keys -> SUBSET Classes]
ASSUME NameAssumption == /\ IsFiniteSet(Pages) /\ IsFiniteSet(Workers)
                         /\ Mover \notin Workers \cup {None}
                         /\ None \notin Workers \cup Pages \cup Chunks \cup Keys
ASSUME LimitAssumption == InitLimit \in Nat /\ Limits \subseteq Nat /\ MaxLoops \in Nat

VARIABLES slab_list,    \* class -> its pages; slab_list[POOL] is the global pool
          slots,        \* class -> its freelist
          item,         \* chunk -> its header
          assoc,        \* key -> the item the hash table holds
          item_locks,   \* key -> the holder of its item lock
          mem_limit, mem_malloced,
          wpc, op, wkey, wcls,   \* a worker, its operation, key and class
          it,           \* the item a worker has a reference to
          victim,       \* the item it is about to free
          slab_rebal, new_it, mpc   \* the mover

workVars == <<wpc, op, wkey, wcls, it, victim>>
memVars == <<mem_limit, mem_malloced>>
moverVars == <<slab_rebal, new_it, mpc>>
vars == <<slab_list, slots, item, assoc, item_locks, memVars, workVars, moverVars>>

\* The header of an item.  Flags are a set; ACTIVE, CAS, HDR and CHUNKED are
\* left out.
Header(flags, refs, clsid, key) ==
    [it_flags |-> flags, refcount |-> refs, slabs_clsid |-> clsid, key |-> key]

\* "ITEM_FETCHED when ITEM_SLABBED is overloaded to mean we've cleared the
\* chunk for move."
Cleared == Header({SLABBED, FETCHED}, 0, 0, None)

NoOp == [do |-> "none", key |-> None]

\* slab_rebalance_signal is implied by mpc: 0 when the mover waits, 1 in
\* "start", 2 later.
Idle == [s_clsid |-> 0, d_clsid |-> 0, slab_start |-> None, slab_pos |-> 1,
         busy_items |-> FALSE, busy_loops |-> 0]

\* slabs_init, then slabs_prefill_global if asked for.
Init ==
    /\ \E pool \in IF Prefill THEN {s \in [1 .. InitLimit -> Pages] :
                                      \A i, j \in 1 .. InitLimit : i # j => s[i] # s[j]}
                              ELSE {<<>>} :
         /\ slab_list = [c \in Classes \cup {POOL} |-> IF c = POOL THEN pool ELSE <<>>]
         /\ mem_malloced = Len(pool)
    /\ slots = [c \in Classes |-> {}]
    /\ item = [x \in Chunks |-> Header({}, 0, 0, None)]
    /\ assoc = [k \in Keys |-> None] /\ item_locks = [k \in Keys |-> None]
    /\ mem_limit = InitLimit
    /\ wpc = [w \in Workers |-> "idle"] /\ op = [w \in Workers |-> NoOp]
    /\ wkey = [w \in Workers |-> None] /\ wcls = [w \in Workers |-> POOL]
    /\ it = [w \in Workers |-> None] /\ victim = [w \in Workers |-> None]
    /\ slab_rebal = Idle /\ new_it = None /\ mpc = "wait"

\* slabs_lock is held by the mover between two steps only here.
SlabsUnlocked == mpc # "trylock"
-----------------------------------------------------------------------------
(* The allocator.                                                          *)

Owned == UNION {{slab_list[c][i] : i \in DOMAIN slab_list[c]} : c \in DOMAIN slab_list}

\* do_slabs_newslab refuses at the memory limit, except for the first page of
\* a class and while the global pool has pages: g->slabs == 0.  The copy in
\* memory_rebalance/slabs.c tests p->slabs == 0 in the last place.
LimitHit(c) == /\ mem_limit # 0 /\ mem_malloced + 1 > mem_limit
               /\ Len(slab_list[c]) > 0
               /\ slab_list[IF TestsPool THEN POOL ELSE c] = <<>>

\* Mutation: p->slabs-- is forgotten for the pool.
PageFromPool_Stays(p, c) ==
    /\ slab_list[POOL] # <<>>
    /\ LET n == Len(slab_list[POOL])
       IN  /\ p = slab_list[POOL][n]
           /\ slab_list' = [slab_list EXCEPT ![POOL] = @,
                                             ![c] = Append(@, p)]
    /\ UNCHANGED memVars

\* get_page_from_global_pool takes the last page of the pool.
PageFromPool(p, c) ==
    /\ slab_list[POOL] # <<>>
    /\ LET n == Len(slab_list[POOL])
       IN  /\ p = slab_list[POOL][n]
           /\ slab_list' = [slab_list EXCEPT ![POOL] = SubSeq(@, 1, n - 1),
                                             ![c] = Append(@, p)]
    /\ UNCHANGED memVars

\* memory_allocate without a preallocated chunk.
PageFromMalloc(p, c) ==
    /\ slab_list[POOL] = <<>> /\ p \in Pages \ Owned
    /\ slab_list' = [slab_list EXCEPT ![c] = Append(@, p)]
    /\ mem_malloced' = mem_malloced + 1
    /\ UNCHANGED mem_limit

\* Mutation: the flag is or-ed in.
Freed_OrFlags(x) == Header(item[x].it_flags \cup {SLABBED}, item[x].refcount, 0, None)

\* do_slabs_free assigns the flags rather than adding one: FETCHED on a
\* freelist would be taken for "cleared".  It leaves the refcount alone.
Freed(x) == Header({SLABBED}, item[x].refcount, 0, None)

\* split_slab_page_into_freelist, after the page has been zeroed.
Zeroed == Header({SLABBED}, 0, 0, None)

\* do_item_alloc: a worker asks for an item with key k in class c, at once or
\* again after do_item_alloc_pull has evicted something.
do_item_alloc(w, k, c) == \/ wpc[w] = "idle" /\ c \in Sizes[k]
                          \/ wpc[w] = "alloc" /\ k = wkey[w] /\ c = wcls[w]

\* do_slabs_alloc unlinks a chunk from the freelist, kills SLABBED and seeds
\* the refcount; do_item_alloc then fills in the class and the key.
TakeChunk(w, k, c, x, fresh) ==
    /\ item' = [y \in Chunks |-> CASE y = x -> Header({}, 1, c, k)
                                   [] y \in fresh \ {x} -> Zeroed
                                   [] OTHER -> item[y]]
    /\ slots' = [slots EXCEPT ![c] = (@ \cup fresh) \ {x}]
    /\ it' = [it EXCEPT ![w] = x]
    /\ wpc' = [wpc EXCEPT ![w] = "new"]
    /\ wkey' = [wkey EXCEPT ![w] = None]
    /\ wcls' = [wcls EXCEPT ![w] = POOL]

\* slabs_alloc takes a chunk off the freelist...
slabs_alloc(w) ==
    /\ SlabsUnlocked
    /\ \E k \in Keys, c \in Classes : /\ do_item_alloc(w, k, c)
                                      /\ \E x \in slots[c] : TakeChunk(w, k, c, x, {})
    /\ UNCHANGED <<slab_list, assoc, item_locks, memVars, op, victim, moverVars>>

\* ...or of a new page that do_slabs_newslab has split into the freelist...
do_slabs_newslab(w) ==
    /\ SlabsUnlocked
    /\ \E k \in Keys, c \in Classes, p \in Pages :
         /\ do_item_alloc(w, k, c)
         /\ slots[c] = {} /\ ~LimitHit(c)
         /\ PageFromPool(p, c) \/ PageFromMalloc(p, c)
         /\ \E x \in ChunksOf(p, c) : TakeChunk(w, k, c, x, ChunksOf(p, c))
    /\ UNCHANGED <<assoc, item_locks, op, victim, moverVars>>

\* ...or fails, and the caller turns to the LRU.  A malloc that returns NULL
\* is counted in mem_malloced all the same.
AllocFails(w) ==
    /\ SlabsUnlocked
    /\ \E k \in Keys, c \in Classes :
         /\ do_item_alloc(w, k, c)
         /\ slots[c] = {}
         /\ \/ LimitHit(c) /\ UNCHANGED mem_malloced
            \/ /\ ~LimitHit(c) /\ slab_list[POOL] = <<>> /\ Pages \ Owned = {}
               /\ mem_malloced < MaxMalloced
               /\ mem_malloced' = mem_malloced + 1
         /\ wkey' = [wkey EXCEPT ![w] = k]
         /\ wcls' = [wcls EXCEPT ![w] = c]
    /\ wpc' = [wpc EXCEPT ![w] = "pull"]
    /\ UNCHANGED <<slab_list, slots, item, assoc, item_locks, mem_limit, op, it, victim,
                   moverVars>>

\* slabs_adjust_mem_limit.  memory_release gives pages of the pool back, last
\* page first, until mem_malloced is within the limit.
Released(pool, malloced, limit) ==
    CHOOSE n \in 0 .. Len(pool) :
        /\ malloced - n <= limit \/ n = Len(pool)
        /\ n > 0 => malloced - (n - 1) > limit
slabs_adjust_mem_limit ==
    /\ SlabsUnlocked
    /\ \E l \in Limits :
         LET n == Released(slab_list[POOL], mem_malloced, l)
         IN  /\ mem_limit' = l
             /\ mem_malloced' = mem_malloced - n
             /\ slab_list' = [slab_list EXCEPT ![POOL] = SubSeq(@, 1, Len(@) - n)]
    /\ UNCHANGED <<slots, item, assoc, item_locks, workVars, moverVars>>
-----------------------------------------------------------------------------
(* Items in the hands of the workers.                                      *)

\* do_item_unlink of a linked item and do_item_link of a new one; the LRU
\* list an item is on is implied by LINKED.
Unlinked(h) == [h EXCEPT !.it_flags = @ \ {LINKED}, !.refcount = @ - 1]
Linked(h) == [h EXCEPT !.it_flags = @ \cup {LINKED}, !.refcount = @ + 1]

\* do_item_alloc_pull evicts the tail of the LRU with lru_pull_tail if it can
\* trylock it.  The reference it takes itself comes and goes inside the step;
\* an item that others hold is unlinked but not freed.
lru_pull_tail(w) ==
    /\ wpc[w] = "pull"
    /\ \E k \in Keys :
         LET x == assoc[k] IN
         /\ x # None /\ item_locks[k] = None
         /\ item[x].slabs_clsid = wcls[w]
         /\ item' = [item EXCEPT ![x] = Unlinked(@)]
         /\ assoc' = [assoc EXCEPT ![k] = None]
         /\ IF item[x].refcount = 1
            THEN /\ wpc' = [wpc EXCEPT ![w] = "free"]
                 /\ victim' = [victim EXCEPT ![w] = x]
                 /\ op' = [op EXCEPT ![w] = [do |-> "evict", key |-> k]]
                 /\ item_locks' = [item_locks EXCEPT ![k] = w]
            ELSE /\ wpc' = [wpc EXCEPT ![w] = "alloc"]
                 /\ UNCHANGED <<victim, op, item_locks>>
    /\ UNCHANGED <<slab_list, slots, memVars, wkey, wcls, it, moverVars>>

\* Nothing could be pulled, or ten tries are over: out of memory.  (A try that
\* pulled nothing and is followed by another is this and a new do_item_alloc.)
GiveUp(w) ==
    /\ wpc[w] = "pull"
    /\ wpc' = [wpc EXCEPT ![w] = "idle"]
    /\ wkey' = [wkey EXCEPT ![w] = None]
    /\ wcls' = [wcls EXCEPT ![w] = POOL]
    /\ UNCHANGED <<slab_list, slots, item, assoc, item_locks, memVars, op, it, victim,
                   moverVars>>

\* A worker without an item may get one; with a new item it stores it or, if
\* the upload fails, drops it; with an item in use it deletes or releases it.
item_lock(w) ==
    /\ \E k \in Keys, o \in {"get", "store", "unlink", "remove"} :
         /\ \/ wpc[w] = "idle" /\ o = "get"
            \/ wpc[w] = "new" /\ o \in {"store", "remove"} /\ k = item[it[w]].key
            \/ wpc[w] = "using" /\ o \in {"unlink", "remove"} /\ k = item[it[w]].key
         /\ item_locks[k] = None
         /\ item_locks' = [item_locks EXCEPT ![k] = w]
         /\ op' = [op EXCEPT ![w] = [do |-> o, key |-> k]]
    /\ wpc' = [wpc EXCEPT ![w] = "locked"]
    /\ UNCHANGED <<slab_list, slots, item, assoc, memVars, wkey, wcls, it, victim, moverVars>>

Locked(w, o) == wpc[w] = "locked" /\ op[w].do = o

\* item_unlock, after which the worker goes on with the item "mine".
item_unlock(w, mine) ==
    /\ item_locks' = [item_locks EXCEPT ![op[w].key] = None]
    /\ wpc' = [wpc EXCEPT ![w] = IF op[w].do = "evict" THEN "alloc"
                                ELSE IF mine = None THEN "idle" ELSE "using"]
    /\ op' = [op EXCEPT ![w] = NoOp]

\* The end of do_item_remove: the refcount of x has become n.
ThenFree(w, x, n, mine) ==
    \/ /\ n = 0
       /\ wpc' = [wpc EXCEPT ![w] = "free"]
       /\ victim' = [victim EXCEPT ![w] = x]
       /\ UNCHANGED <<item_locks, op>>
    \/ n # 0 /\ item_unlock(w, mine) /\ UNCHANGED victim

\* Mutation: refcount_incr is forgotten.
do_item_get_NoIncr(w) ==
    /\ Locked(w, "get")
    /\ LET x == assoc[op[w].key] IN
       \/ /\ x = None
          /\ item_unlock(w, None)
          /\ UNCHANGED <<item, assoc, it, victim>>
       \/ /\ x # None
          /\ item' = [item EXCEPT ![x].it_flags = @ \cup {FETCHED}]
          /\ it' = [it EXCEPT ![w] = x]
          /\ item_unlock(w, x)
          /\ UNCHANGED <<assoc, victim>>
       \/ /\ x # None
          /\ item' = [item EXCEPT ![x] = Unlinked(@)]
          /\ assoc' = [assoc EXCEPT ![op[w].key] = None]
          /\ ThenFree(w, x, item[x].refcount - 1, None)
          /\ UNCHANGED it
    /\ UNCHANGED <<slab_list, slots, memVars, wkey, wcls, moverVars>>

\* A hit (DO_UPDATE) takes a reference; an expired or flushed item is unlinked, and the
\* reference dropped again.
do_item_get(w) ==
    /\ Locked(w, "get")
    /\ LET x == assoc[op[w].key] IN
       \/ /\ x = None
          /\ item_unlock(w, None)
          /\ UNCHANGED <<item, assoc, it, victim>>
       \/ /\ x # None
          /\ item' = [item EXCEPT ![x].refcount = @ + 1, ![x].it_flags = @ \cup {FETCHED}]
          /\ it' = [it EXCEPT ![w] = x]
          /\ item_unlock(w, x)
          /\ UNCHANGED <<assoc, victim>>
       \/ /\ x # None
          /\ item' = [item EXCEPT ![x] = Unlinked(@)]
          /\ assoc' = [assoc EXCEPT ![op[w].key] = None]
          /\ ThenFree(w, x, item[x].refcount - 1, None)
          /\ UNCHANGED it
    /\ UNCHANGED <<slab_list, slots, memVars, wkey, wcls, moverVars>>

\* do_store_item of a plain set: do_item_replace or do_item_link, and the
\* reference to the old item is dropped.
store_item(w) ==
    /\ Locked(w, "store")
    /\ LET old == assoc[op[w].key] IN
       /\ item' = [x \in Chunks |-> CASE x = it[w] -> Linked(item[x])
                                      [] x = old -> Unlinked(item[x])
                                      [] OTHER -> item[x]]
       /\ assoc' = [assoc EXCEPT ![op[w].key] = it[w]]
       /\ ThenFree(w, old, IF old = None THEN 1 ELSE item[old].refcount - 1, it[w])
    /\ UNCHANGED <<slab_list, slots, memVars, wkey, wcls, it, moverVars>>

\* item_unlink, which does nothing to an item no longer linked.
item_unlink(w) ==
    /\ Locked(w, "unlink")
    /\ IF LINKED \in item[it[w]].it_flags
       THEN /\ item' = [item EXCEPT ![it[w]] = Unlinked(@)]
            /\ assoc' = [assoc EXCEPT ![op[w].key] = None]
       ELSE UNCHANGED <<item, assoc>>
    /\ item_unlock(w, it[w])
    /\ UNCHANGED <<slab_list, slots, memVars, wkey, wcls, it, victim, moverVars>>

item_remove(w) ==
    /\ Locked(w, "remove")
    /\ item' = [item EXCEPT ![it[w]].refcount = @ - 1]
    /\ ThenFree(w, it[w], item[it[w]].refcount - 1, None)
    /\ it' = [it EXCEPT ![w] = None]
    /\ UNCHANGED <<slab_list, slots, assoc, memVars, wkey, wcls, moverVars>>

\* item_free: slabs_free under slabs_lock, to the class written in the item.
item_free(w) ==
    /\ wpc[w] = "free" /\ SlabsUnlocked
    /\ slots' = [slots EXCEPT ![item[victim[w]].slabs_clsid] = @ \cup {victim[w]}]
    /\ item' = [item EXCEPT ![victim[w]] = Freed(victim[w])]
    /\ victim' = [victim EXCEPT ![w] = None]
    /\ item_unlock(w, it[w])
    /\ UNCHANGED <<slab_list, assoc, memVars, wkey, wcls, it, moverVars>>
-----------------------------------------------------------------------------
(* The slab mover.                                                         *)

\* slabs_reassign needs slabs_rebalance_lock, which the mover gives up only
\* in pthread_cond_wait.  Source -1 stands for any class with a spare page.
slabs_reassign ==
    /\ mpc = "wait"
    /\ \E m \in Moves :
         /\ m[1] # m[2] /\ Len(slab_list[m[1]]) >= 2
         /\ slab_rebal' = [slab_rebal EXCEPT !.s_clsid = m[1], !.d_clsid = m[2]]
    /\ mpc' = "start"
    /\ UNCHANGED <<slab_list, slots, item, assoc, item_locks, memVars, workVars, new_it>>

Pos == <<slab_rebal.slab_start, slab_rebal.slab_pos>>
SrcCls == slab_rebal.s_clsid
InRange(x) == x[1] = slab_rebal.slab_start

\* The first page of the source is taken; a page of the pool needs no work.
slab_rebalance_start ==
    /\ mpc = "start"
    /\ IF Len(slab_list[slab_rebal.s_clsid]) < 2
       THEN mpc' = "wait" /\ UNCHANGED slab_rebal
       ELSE /\ slab_rebal' = [slab_rebal EXCEPT !.slab_start = slab_list[SrcCls][1],
                                                !.slab_pos = 1]
            /\ mpc' = IF slab_rebal.s_clsid = POOL THEN "finish" ELSE "move"
    /\ UNCHANGED <<slab_list, slots, item, assoc, item_locks, memVars, workVars, new_it>>

\* Mutation: the page is done although chunks were busy.
Advance_IgnoreBusy(busy) ==
    LET again == busy \/ slab_rebal.busy_items
        loops == slab_rebal.busy_loops IN
    IF slab_rebal.slab_pos < PerSlab[SrcCls]
    THEN /\ slab_rebal' = [slab_rebal EXCEPT !.slab_pos = @ + 1, !.busy_items = again]
         /\ mpc' = "move"
    ELSE IF FALSE
    THEN /\ slab_rebal' = [slab_rebal EXCEPT !.slab_pos = 1, !.busy_items = FALSE,
                             !.busy_loops = IF loops > MaxLoops THEN loops ELSE loops + 1]
         /\ mpc' = "move"
    ELSE /\ slab_rebal' = slab_rebal
         /\ mpc' = "finish"

\* Mutation: busy_items is not reset for the next round.
Advance_NoReset(busy) ==
    LET again == busy \/ slab_rebal.busy_items
        loops == slab_rebal.busy_loops IN
    IF slab_rebal.slab_pos < PerSlab[SrcCls]
    THEN /\ slab_rebal' = [slab_rebal EXCEPT !.slab_pos = @ + 1, !.busy_items = again]
         /\ mpc' = "move"
    ELSE IF again
    THEN /\ slab_rebal' = [slab_rebal EXCEPT !.slab_pos = 1, !.busy_items = TRUE,
                             !.busy_loops = IF loops > MaxLoops THEN loops ELSE loops + 1]
         /\ mpc' = "move"
    ELSE /\ slab_rebal' = slab_rebal
         /\ mpc' = "finish"

\* The end of slab_rebalance_move: the next chunk, or from the top again if
\* some were busy, or done.  busy_loops saturates above SLAB_MOVE_MAX_LOOPS.
Advance(busy) ==
    LET again == busy \/ slab_rebal.busy_items
        loops == slab_rebal.busy_loops IN
    IF slab_rebal.slab_pos < PerSlab[SrcCls]
    THEN /\ slab_rebal' = [slab_rebal EXCEPT !.slab_pos = @ + 1, !.busy_items = again]
         /\ mpc' = "move"
    ELSE IF again
    THEN /\ slab_rebal' = [slab_rebal EXCEPT !.slab_pos = 1, !.busy_items = FALSE,
                             !.busy_loops = IF loops > MaxLoops THEN loops ELSE loops + 1]
         /\ mpc' = "move"
    ELSE /\ slab_rebal' = slab_rebal
         /\ mpc' = "finish"

\* slab_rebalance_move looks at one chunk under slabs_lock.  Cleared before:
\* MOVE_PASS.  On the freelist: cut out of it, MOVE_FROM_SLAB.  Neither free
\* nor linked: MOVE_BUSY.
MoveUnlinked ==
    /\ mpc = "move"
    /\ LET flags == item[Pos].it_flags IN
       \/ /\ flags = {SLABBED, FETCHED}
          /\ UNCHANGED <<slots, item>> /\ Advance(FALSE)
       \/ /\ flags # {SLABBED, FETCHED} /\ SLABBED \in flags
          /\ slots' = [slots EXCEPT ![SrcCls] = @ \ {Pos}]
          /\ item' = [item EXCEPT ![Pos] = Cleared]
          /\ Advance(FALSE)
       \/ /\ flags \cap {SLABBED, LINKED} = {}
          /\ UNCHANGED <<slots, item>> /\ Advance(TRUE)
    /\ UNCHANGED <<slab_list, assoc, item_locks, memVars, workVars, new_it>>

\* Linked when looked at: it has a key, whose item lock is tried while
\* slabs_lock stays held.
MoveLinked ==
    /\ mpc = "move"
    /\ item[Pos].it_flags \cap {SLABBED, LINKED} = {LINKED}
    /\ mpc' = "trylock"
    /\ UNCHANGED <<slab_list, slots, item, assoc, item_locks, memVars, workVars, slab_rebal,
                   new_it>>

\* MOVE_LOCKED, or MOVE_BUSY because someone has a reference or the item was
\* unlinked since.
MoveBusy ==
    /\ mpc = "trylock"
    /\ \/ item_locks[item[Pos].key] # None
       \/ LINKED \notin item[Pos].it_flags
       \/ item[Pos].refcount > 1 /\ slab_rebal.busy_loops <= MaxLoops
    /\ Advance(TRUE)
    /\ UNCHANGED <<slab_list, slots, item, assoc, item_locks, memVars, workVars, new_it>>

\* Mutation: the mover's own reference is not dropped.
MoveBusyDelete_KeepsRef ==
    /\ mpc = "trylock"
    /\ LET h == item[Pos] IN
       /\ item_locks[h.key] = None /\ LINKED \in h.it_flags
       /\ h.refcount > 1 /\ slab_rebal.busy_loops > MaxLoops
       /\ item' = [item EXCEPT ![Pos] .it_flags = @ \ {LINKED}]
       /\ assoc' = [assoc EXCEPT ![h.key] = None]
    /\ Advance(TRUE)
    /\ UNCHANGED <<slab_list, slots, item_locks, memVars, workVars, new_it>>

\* The mover has looped too often over an item others refer to: it unlinks it
\* with slabs_lock released.  Its own reference comes and goes.
MoveBusyDelete ==
    /\ mpc = "trylock"
    /\ LET h == item[Pos] IN
       /\ item_locks[h.key] = None /\ LINKED \in h.it_flags
       /\ h.refcount > 1 /\ slab_rebal.busy_loops > MaxLoops
       /\ item' = [item EXCEPT ![Pos] = Unlinked(@)]
       /\ assoc' = [assoc EXCEPT ![h.key] = None]
    /\ Advance(TRUE)
    /\ UNCHANGED <<slab_list, slots, item_locks, memVars, workVars, new_it>>

\* MOVE_FROM_LRU: the mover takes the item lock and a reference...
HoldItem(h) == /\ mpc = "trylock" /\ item_locks[h.key] = None
               /\ LINKED \in h.it_flags /\ h.refcount = 1
               /\ item_locks' = [item_locks EXCEPT ![h.key] = Mover]
HeldHeader == [item[Pos] EXCEPT !.refcount = @ + 1]

\* Mutation: the loop ends one chunk early.
slab_rebalance_alloc_Short(reclaimed, new) ==
    /\ reclaimed \subseteq {x \in slots[SrcCls] : InRange(x)}
    /\ Cardinality(reclaimed) <= PerSlab[SrcCls] - 1
    /\ \/ /\ new = None
          /\ \/ reclaimed = slots[SrcCls]
             \/ Cardinality(reclaimed) = PerSlab[SrcCls] - 1
       \/ /\ new \in slots[SrcCls] /\ ~InRange(new)
          /\ Cardinality(reclaimed) < PerSlab[SrcCls] - 1
    /\ slots' = [slots EXCEPT ![SrcCls] = @ \ (reclaimed \cup {new})]
    /\ item' = [x \in Chunks |-> CASE x = Pos -> HeldHeader
                                   [] x \in reclaimed -> Cleared
                                   [] x = new -> Header({}, 1, 0, None)
                                   [] OTHER -> item[x]]
    /\ new_it' = new

\* slab_rebalance_alloc: at most perslab chunks come off the freelist; those
\* in the page being moved are cleared on the way.
slab_rebalance_alloc(reclaimed, new) ==
    /\ reclaimed \subseteq {x \in slots[SrcCls] : InRange(x)}
    /\ Cardinality(reclaimed) <= PerSlab[SrcCls]
    /\ \/ /\ new = None
          /\ \/ reclaimed = slots[SrcCls]
             \/ Cardinality(reclaimed) = PerSlab[SrcCls]
       \/ /\ new \in slots[SrcCls] /\ ~InRange(new)
          /\ Cardinality(reclaimed) < PerSlab[SrcCls]
    /\ slots' = [slots EXCEPT ![SrcCls] = @ \ (reclaimed \cup {new})]
    /\ item' = [x \in Chunks |-> CASE x = Pos -> HeldHeader
                                   [] x \in reclaimed -> Cleared
                                   [] x = new -> Header({}, 1, 0, None)
                                   [] OTHER -> item[x]]
    /\ new_it' = new

\* ...and looks for a chunk to rescue it to.
MoveFromLRU ==
    /\ HoldItem(item[Pos])
    /\ \E reclaimed \in SUBSET slots[SrcCls], new \in slots[SrcCls] \cup {None} :
         /\ slab_rebalance_alloc(reclaimed, new)
         /\ mpc' = IF new = None THEN "evict" ELSE "rescue"
    /\ UNCHANGED <<slab_list, assoc, memVars, workVars, slab_rebal>>

\* An expired or flushed item is not worth a rescue.
MoveExpired ==
    /\ HoldItem(item[Pos])
    /\ item' = [item EXCEPT ![Pos] = HeldHeader]
    /\ mpc' = "evict"
    /\ UNCHANGED <<slab_list, slots, assoc, memVars, workVars, slab_rebal, new_it>>

\* Without slabs_lock: copy the item, do_item_replace, clear the old chunk.
Rescue ==
    /\ mpc = "rescue"
    /\ LET h == item[Pos]
           copy == [h EXCEPT !.it_flags = @ \ {LINKED}, !.refcount = 0]
       IN  /\ item' = [item EXCEPT ![new_it] = Linked(copy), ![Pos] = Cleared]
           /\ assoc' = [assoc EXCEPT ![h.key] = new_it]
           /\ item_locks' = [item_locks EXCEPT ![h.key] = None]
    /\ new_it' = None
    /\ mpc' = "advance"
    /\ UNCHANGED <<slab_list, slots, memVars, workVars, slab_rebal>>

\* Without slabs_lock: do_item_unlink...
Evict ==
    /\ mpc = "evict"
    /\ item' = [item EXCEPT ![Pos] = Unlinked(@)]
    /\ assoc' = [assoc EXCEPT ![item[Pos].key] = None]
    /\ mpc' = "slabs_free"
    /\ UNCHANGED <<slab_list, slots, item_locks, memVars, workVars, slab_rebal, new_it>>

\* ...then slabs_free; "swing around again later to remove it from the
\* freelist".
EvictFree ==
    /\ mpc = "slabs_free"
    /\ slots' = [slots EXCEPT ![SrcCls] = @ \cup {Pos}]
    /\ item' = [item EXCEPT ![Pos] = Freed(Pos)]
    /\ item_locks' = [item_locks EXCEPT ![item[Pos].key] = None]
    /\ slab_rebal' = [slab_rebal EXCEPT !.busy_items = TRUE]
    /\ mpc' = "advance"
    /\ UNCHANGED <<slab_list, assoc, memVars, workVars, new_it>>

\* slabs_lock is taken again for the end of slab_rebalance_move.
Relock ==
    /\ mpc = "advance"
    /\ Advance(FALSE)
    /\ UNCHANGED <<slab_list, slots, item, assoc, item_locks, memVars, workVars, new_it>>

\* The source's page list is shifted down by one, whatever its first page is
\* by now; the page goes to the destination and is split, or to the pool.
slab_rebalance_finish ==
    /\ mpc = "finish"
    /\ LET p == slab_rebal.slab_start
           d == slab_rebal.d_clsid
           pool == Append(slab_list[POOL], p)
           n == IF d = POOL THEN Released(pool, mem_malloced, mem_limit) ELSE 0
       IN  /\ slab_list' = [slab_list EXCEPT
                 ![SrcCls] = Tail(@),
                 ![d] = IF d = POOL THEN SubSeq(pool, 1, Len(pool) - n) ELSE Append(@, p)]
           /\ mem_malloced' = mem_malloced - n
           /\ IF d = POOL THEN UNCHANGED <<slots, item>>
              ELSE /\ slots' = [slots EXCEPT ![d] = @ \cup ChunksOf(p, d)]
                   /\ item' = [x \in Chunks |-> IF x \in ChunksOf(p, d) THEN Zeroed
                                                                       ELSE item[x]]
    /\ slab_rebal' = Idle
    /\ mpc' = "wait"
    /\ UNCHANGED <<assoc, item_locks, mem_limit, workVars, new_it>>

\* Needs slabs_rebalance_lock, so it too finds the mover waiting.
stop_slab_maintenance_thread ==
    /\ mpc = "wait"
    /\ mpc' = "exited"
    /\ UNCHANGED <<slab_list, slots, item, assoc, item_locks, memVars, workVars, slab_rebal,
                   new_it>>

Worker(w) == \/ slabs_alloc(w) \/ do_slabs_newslab(w) \/ AllocFails(w)
             \/ lru_pull_tail(w) \/ GiveUp(w) \/ item_lock(w) \/ do_item_get(w)
             \/ store_item(w) \/ item_unlink(w) \/ item_remove(w) \/ item_free(w)

MoverStep == \/ slab_rebalance_start \/ MoveUnlinked \/ MoveLinked \/ MoveBusy
             \/ MoveBusyDelete \/ MoveFromLRU \/ MoveExpired \/ Rescue \/ Evict
             \/ EvictFree \/ Relock \/ slab_rebalance_finish

Next == \/ \E w \in Workers : Worker(w)
        \/ MoverStep \/ slabs_reassign \/ slabs_adjust_mem_limit
        \/ stop_slab_maintenance_thread

Spec == Init /\ [][Next]_vars

\* The mover is a thread of its own and is scheduled again and again.
FairSpec == Spec /\ WF_vars(MoverStep)
-----------------------------------------------------------------------------
(* Properties.                                                             *)

Ops == [do : {"none", "get", "store", "unlink", "remove", "evict"}, key : Keys \cup {None}]
TypeOK ==
    /\ slab_list \in [Classes \cup {POOL} -> Seq(Pages)]
    /\ slots \in [Classes -> SUBSET Chunks]
    /\ item \in [Chunks -> [it_flags : SUBSET {LINKED, SLABBED, FETCHED}, refcount : Nat,
                            slabs_clsid : Classes \cup {POOL}, key : Keys \cup {None}]]
    /\ assoc \in [Keys -> Chunks \cup {None}]
    /\ item_locks \in [Keys -> Workers \cup {Mover, None}]
    /\ mem_limit \in Nat /\ mem_malloced \in Nat
    /\ wpc \in [Workers -> {"idle", "alloc", "pull", "new", "using", "locked", "free"}]
    /\ op \in [Workers -> Ops]
    /\ wkey \in [Workers -> Keys \cup {None}] /\ wcls \in [Workers -> Classes \cup {POOL}]
    /\ it \in [Workers -> Chunks \cup {None}] /\ victim \in [Workers -> Chunks \cup {None}]
    /\ slab_rebal \in [s_clsid : Classes \cup {POOL}, d_clsid : Classes \cup {POOL},
                       slab_start : Pages \cup {None}, slab_pos : Nat,
                       busy_items : BOOLEAN, busy_loops : 0 .. MaxLoops + 1]
    /\ new_it \in Chunks \cup {None}
    /\ mpc \in {"wait", "start", "move", "trylock", "rescue", "evict", "slabs_free",
                "advance", "finish", "exited"}

\* Chunk x lies in a page of class c.
InClass(x, c) == /\ x[2] <= PerSlab[c]
                 /\ \E i \in DOMAIN slab_list[c] : slab_list[c][i] = x[1]

\* A page belongs to one class or to the pool, once, whatever moves and new
\* pages cross each other; and every page is paid for in mem_malloced.
PagesOwnedOnce ==
    /\ \A c, d \in DOMAIN slab_list : \A i \in DOMAIN slab_list[c], j \in DOMAIN slab_list[d] :
         slab_list[c][i] = slab_list[d][j] => c = d /\ i = j
    /\ Cardinality(Owned) <= mem_malloced

\* slabs_init: "1st argument is the limit on no, of bytes to allocate, 0 if no
\* limit".  Every class may have its first page beyond the limit (the page
\* that reaches the limit is the first of some class); no more is allocated
\* while the limit stays what it was.
MemoryBounded ==
    InitLimit # 0 /\ Limits = {} /\ Owned # {} =>
        Cardinality(Owned) <= InitLimit - 1
                              + Cardinality({c \in Classes : slab_list[c] # <<>>})

\* Every chunk of a class is accounted for: it is on that class's freelist,
\* flagged SLABBED and nothing else; or the mover has cleared it, in the page
\* it is moving; or it is an item somebody still refers to or is freeing.
ChunksAccounted ==
    /\ \A c \in Classes : \A x \in slots[c] : InClass(x, c)
    /\ \A c \in Classes, x \in Chunks : InClass(x, c) =>
         CASE item[x].it_flags = {SLABBED} -> x \in slots[c] /\ item[x].slabs_clsid = 0
           [] item[x].it_flags = {SLABBED, FETCHED} -> x \notin slots[c] /\ InRange(x)
           [] OTHER -> /\ SLABBED \notin item[x].it_flags /\ x \notin slots[c]
                       /\ \/ item[x].refcount > 0
                          \/ \E w \in Workers : wpc[w] = "free" /\ victim[w] = x

\* refcount is exact: one for the hash table, one for each worker that has the
\* item, one while the mover has it.  A count too low frees an item in use, a
\* count too high leaks it and blocks every later move of its page.
MoverHolds(x) == \/ mpc \in {"rescue", "evict", "slabs_free"} /\ x = Pos
                 \/ x = new_it
RefcountExact ==
    \A c \in Classes, x \in Chunks : InClass(x, c) /\ SLABBED \notin item[x].it_flags =>
        item[x].refcount = Cardinality({w \in Workers : it[w] = x})
                           + (IF LINKED \in item[x].it_flags THEN 1 ELSE 0)
                           + (IF MoverHolds(x) THEN 1 ELSE 0)

\* Nobody refers to memory that is free, cleared or given away: what the hash
\* table, a worker or a pending free points to is an item of the class its
\* header names.  And the hash table holds exactly the linked items.
IsItem(x) == /\ item[x].slabs_clsid # POOL /\ SLABBED \notin item[x].it_flags
             /\ InClass(x, item[x].slabs_clsid)
NoDanglingItem ==
    /\ \A w \in Workers : \A x \in {it[w], victim[w]} \ {None} : IsItem(x)
    /\ \A k \in Keys : assoc[k] # None =>
         IsItem(assoc[k]) /\ item[assoc[k]].key = k /\ LINKED \in item[assoc[k]].it_flags
    /\ \A c \in Classes, x \in Chunks :
         InClass(x, c) /\ LINKED \in item[x].it_flags => assoc[item[x].key] = x

\* "At this point the stolen slab is completely clear": when the mover is
\* about to hand over a page, it is still the first of its source, none of
\* its chunks is on a freelist and none is referred to.
StolenPageClear ==
    mpc = "finish" =>
        /\ slab_list[SrcCls] # <<>> /\ Head(slab_list[SrcCls]) = slab_rebal.slab_start
        /\ \A x \in Chunks : InRange(x) =>
             /\ \A c \in Classes : x \notin slots[c]
             /\ item[x].refcount = 0 /\ LINKED \notin item[x].it_flags

\* The mover throws an item away for want of memory only when there is no
\* free chunk outside the page: the loop of slab_rebalance_alloc is long
\* enough.
NoNeedlessEviction ==
    [][MoveFromLRU /\ mpc' = "evict" => slots'[SrcCls] = {}]_vars

\* A move comes to its end once the workers have let go of their items,
\* however often it had to start again from the top.
WorkersQuiet == \A w \in Workers : wpc[w] = "idle"
MoveCompletes == <>[]WorkersQuiet => (mpc = "move" ~> mpc = "wait")
=============================================================================
