------------------------------- MODULE Assoc --------------------------------
(***************************************************************************)
(* The hash table of memory_rebalance/assoc.c and its maintenance thread,  *)
(* used by worker threads and by the slab mover under the item locks of    *)
(* thread.c, and the pause in which the tables are swapped.                *)
(*                                                                         *)
(* A bucket's chain is kept as the set of its keys (lookups compare keys,  *)
(* so the order of a chain is never observable), and a table as the set    *)
(* of its <<bucket, key>> pairs.  hashsize(hashpower) is 2 * oldsize.      *)
(***************************************************************************)
EXTENDS Integers, FiniteSets

CONSTANTS Keys, Workers,
          Hash,           \* Hash[k]: hash(key, nkey)
          LockCount,      \* item_lock_count
          InitOldSize,    \* hashsize(hashpower - 1) at start
          MaxOldSize,     \* hashsize(HASHPOWER_MAX - 1)
          OtherItems,     \* items of curr_items whose keys nobody uses
          PauseWorkers,   \* does pause_threads stop the workers?
          NoThread, NoKey

Maint == "maint"
Mover == "mover"                       \* slab_rebalance_thread
Threads == Workers \cup {Mover}        \* the users of the table

\* item_lock_count and the table sizes are powers of two, and
\* memcached_thread_init exits unless the lock table is the smaller one, so
\* the number of locks divides hashsize(hashpower - 1).
ASSUME HashAssumption == Hash \in [Keys -> Nat]
ASSUME SizeAssumption ==
    /\ LockCount \in Nat \ {0} /\ MaxOldSize \in Nat
    /\ InitOldSize \in Nat \ {0} /\ OtherItems \in Nat
    /\ \E m \in 1 .. InitOldSize : InitOldSize = LockCount * m
ASSUME ThreadAssumption == /\ IsFiniteSet(Workers)
                           /\ NoThread \notin Workers \cup {Maint, Mover}
                           /\ Maint \notin Workers /\ Mover \notin Workers
                           /\ PauseWorkers \in BOOLEAN
ASSUME NoKeyAssumption == NoKey \notin Keys

VARIABLES primary_hashtable, old_hashtable, oldsize,
          expanding, started_expanding, expand_bucket,
          item_locks,   \* lock -> the thread that holds it
          wpc,          \* where a thread is in its current command
          cmd, key,     \* the command and the key of its item
          call,         \* the assoc_* function it is in
          loc,          \* the bucket that function has chosen
          found,        \* what the assoc_find of its command returned, for which key
          hung,         \* workers blocked in lock(worker_hang_lock)
          notified,     \* workers with an unread 'p' in their notify pipe
          init_count,   \* workers that have reported since it was reset
          worker_hang_lock, slabs_rebalance_lock,  \* their holders
          mpc,          \* where assoc_maintenance_thread is
          do_run_maintenance_thread

tableVars == <<primary_hashtable, old_hashtable, oldsize, expanding, expand_bucket>>
workerVars == <<wpc, cmd, key, call, loc, found>>
pauseVars == <<hung, notified, init_count, worker_hang_lock, slabs_rebalance_lock>>
vars == <<primary_hashtable, old_hashtable, oldsize, expanding, started_expanding,
          expand_bucket, item_locks, wpc, cmd, key, call, loc, found, hung, notified,
          init_count, worker_hang_lock, slabs_rebalance_lock, mpc,
          do_run_maintenance_thread>>

hashsize == 2 * oldsize
Locks == 0 .. LockCount - 1
LockOf(hv) == hv % LockCount

\* The keys a lookup can reach: the bucket that assoc_find would walk holds
\* the key.
InOld(k) == expanding /\ Hash[k] % oldsize >= expand_bucket
Stored == {k \in Keys : IF InOld(k) THEN <<Hash[k] % oldsize, k>> \in old_hashtable
                                    ELSE <<Hash[k] % hashsize, k>> \in primary_hashtable}

Nowhere == [tab |-> "none", b |-> 0]

Init == /\ primary_hashtable = {} /\ old_hashtable = {} /\ oldsize = InitOldSize
        /\ expanding = FALSE /\ started_expanding = FALSE /\ expand_bucket = 0
        /\ item_locks = [l \in Locks |-> NoThread]
        /\ wpc = [w \in Threads |-> "idle"]
        /\ cmd = [w \in Threads |-> "get"]
        /\ key = [w \in Threads |-> NoKey]
        /\ call = [w \in Threads |-> "find"]
        /\ loc = [w \in Threads |-> Nowhere]
        /\ found = [w \in Workers |-> {}]
        /\ hung = {} /\ notified = {} /\ init_count = 0
        /\ worker_hang_lock = NoThread /\ slabs_rebalance_lock = NoThread
        /\ mpc = "start" /\ do_run_maintenance_thread = TRUE
-----------------------------------------------------------------------------
(* Workers.  item_get, store_item and item_unlink take the item lock, call *)
(* the assoc functions, and release it.                                    *)

item_lock(w) ==
    /\ wpc[w] = "idle" /\ w \notin hung
    /\ \E k \in Keys, c \in {"get", "store", "delete"} :
         /\ item_locks[LockOf(Hash[k])] = NoThread
         /\ item_locks' = [item_locks EXCEPT ![LockOf(Hash[k])] = w]
         /\ key' = [key EXCEPT ![w] = k]
         /\ cmd' = [cmd EXCEPT ![w] = c]
    /\ call' = [call EXCEPT ![w] = "find"]
    /\ wpc' = [wpc EXCEPT ![w] = "enter"]
    /\ UNCHANGED <<tableVars, started_expanding, loc, found, pauseVars, mpc,
                   do_run_maintenance_thread>>

\* assoc_find, assoc_insert and _hashitem_before all start by reading the
\* flag "expanding"...
ReadExpanding(w) ==
    /\ wpc[w] = "enter"
    /\ wpc' = [wpc EXCEPT ![w] = IF expanding THEN "sawexpanding" ELSE "sawstable"]
    /\ UNCHANGED <<tableVars, started_expanding, item_locks, cmd, key, call, loc,
                   found, pauseVars, mpc, do_run_maintenance_thread>>

\* Mutation: ">" for ">=", off by one at the bucket being moved.
PickBucket_Gt(w) ==
    /\ wpc[w] \in {"sawexpanding", "sawstable"}
    /\ loc' = [loc EXCEPT ![w] =
                 IF wpc[w] = "sawexpanding" /\ Hash[key[w]] % oldsize > expand_bucket
                 THEN [tab |-> "old", b |-> Hash[key[w]] % oldsize]
                 ELSE [tab |-> "primary", b |-> Hash[key[w]] % hashsize]]
    /\ wpc' = [wpc EXCEPT ![w] = "located"]
    /\ UNCHANGED <<tableVars, started_expanding, item_locks, cmd, key, call,
                   found, pauseVars, mpc, do_run_maintenance_thread>>

\* ...and, if it was set, compare the old bucket with expand_bucket.
PickBucket(w) ==
    /\ wpc[w] \in {"sawexpanding", "sawstable"}
    /\ loc' = [loc EXCEPT ![w] =
                 IF wpc[w] = "sawexpanding" /\ Hash[key[w]] % oldsize >= expand_bucket
                 THEN [tab |-> "old", b |-> Hash[key[w]] % oldsize]
                 ELSE [tab |-> "primary", b |-> Hash[key[w]] % hashsize]]
    /\ wpc' = [wpc EXCEPT ![w] = "located"]
    /\ UNCHANGED <<tableVars, started_expanding, item_locks, cmd, key, call,
                   found, pauseVars, mpc, do_run_maintenance_thread>>

\* The bucket a worker has chosen holds its key.
KeyInBucket(w) == <<loc[w].b, key[w]>> \in
                     (IF loc[w].tab = "old" THEN old_hashtable ELSE primary_hashtable)

\* What the caller does with the result: get returns it; store links a new
\* item, after unlinking the item it replaces; delete unlinks what it found.
AfterFind(w, hit) == CASE cmd[w] = "store" /\ hit  -> "delete"
                       [] cmd[w] = "store" /\ ~hit -> "insert"
                       [] cmd[w] = "delete" /\ hit -> "delete"
                       [] OTHER -> "done"

Return(w, next) == /\ call' = [call EXCEPT ![w] = next]
                   /\ wpc' = [wpc EXCEPT ![w] = IF next = "done" THEN "unlock" ELSE "enter"]
                   /\ loc' = [loc EXCEPT ![w] = Nowhere]

assoc_find(w) ==
    /\ wpc[w] = "located" /\ call[w] = "find"
    /\ found' = [found EXCEPT ![w] = {<<key[w], KeyInBucket(w)>>}]
    /\ Return(w, AfterFind(w, KeyInBucket(w)))
    /\ UNCHANGED <<tableVars, started_expanding, item_locks, cmd, key, pauseVars, mpc,
                   do_run_maintenance_thread>>

assoc_insert(w) ==
    /\ wpc[w] = "located" /\ call[w] = "insert"
    /\ \/ /\ loc[w].tab = "old"
          /\ old_hashtable' = old_hashtable \cup {<<loc[w].b, key[w]>>}
          /\ UNCHANGED primary_hashtable
       \/ /\ loc[w].tab = "primary"
          /\ primary_hashtable' = primary_hashtable \cup {<<loc[w].b, key[w]>>}
          /\ UNCHANGED old_hashtable
    /\ Return(w, "done")
    /\ UNCHANGED <<oldsize, expanding, expand_bucket, started_expanding, item_locks,
                   cmd, key, found, pauseVars, mpc, do_run_maintenance_thread>>

assoc_delete(w) ==
    /\ wpc[w] = "located" /\ call[w] = "delete"
    /\ \/ /\ loc[w].tab = "old"
          /\ old_hashtable' = old_hashtable \ {<<loc[w].b, key[w]>>}
          /\ UNCHANGED primary_hashtable
       \/ /\ loc[w].tab = "primary"
          /\ primary_hashtable' = primary_hashtable \ {<<loc[w].b, key[w]>>}
          /\ UNCHANGED old_hashtable
    /\ Return(w, IF cmd[w] = "store" THEN "insert" ELSE "done")
    /\ UNCHANGED <<oldsize, expanding, expand_bucket, started_expanding, item_locks,
                   cmd, key, found, pauseVars, mpc, do_run_maintenance_thread>>

item_unlock(w) ==
    /\ wpc[w] = "unlock"
    /\ item_locks' = [item_locks EXCEPT ![LockOf(Hash[key[w]])] = NoThread]
    /\ wpc' = [wpc EXCEPT ![w] = "idle"]
    /\ key' = [key EXCEPT ![w] = NoKey]
    /\ cmd' = [cmd EXCEPT ![w] = "get"]
    /\ call' = [call EXCEPT ![w] = "find"]
    /\ found' = [u \in Workers |-> IF u = w THEN {} ELSE found[u]]
    /\ UNCHANGED <<tableVars, started_expanding, loc, pauseVars, mpc,
                   do_run_maintenance_thread>>

\* Mutation: init_count is not incremented.
register_thread_initialized_NoCount(w) ==
    /\ w \in notified
    /\ wpc[w] = "idle" /\ w \notin hung
    /\ notified' = notified \ {w}
    /\ hung' = hung \cup {w}
    /\ UNCHANGED <<tableVars, started_expanding, item_locks, workerVars, mpc, init_count,
                   worker_hang_lock, slabs_rebalance_lock, do_run_maintenance_thread>>

\* A worker that reads 'p' from its notify pipe, between two events, reports
\* under init_lock and then asks for worker_hang_lock...
register_thread_initialized(w) ==
    /\ w \in notified
    /\ wpc[w] = "idle" /\ w \notin hung
    /\ notified' = notified \ {w}
    /\ init_count' = init_count + 1
    /\ hung' = hung \cup {w}
    /\ UNCHANGED <<tableVars, started_expanding, item_locks, workerVars, mpc,
                   worker_hang_lock, slabs_rebalance_lock, do_run_maintenance_thread>>

\* ...which each worker must get, and give back, for itself.
LeaveHang(w) ==
    /\ w \in hung /\ worker_hang_lock = NoThread
    /\ hung' = hung \ {w}
    /\ UNCHANGED <<tableVars, started_expanding, item_locks, workerVars, mpc, notified,
                   init_count, worker_hang_lock, slabs_rebalance_lock,
                   do_run_maintenance_thread>>
-----------------------------------------------------------------------------
(* slab_rebalance_thread holds slabs_rebalance_lock except while it waits  *)
(* for a move to do.  slab_rebalance_move finds its items in a page and    *)
(* not through the table.                                                  *)

MoverWakes ==
    /\ slabs_rebalance_lock = NoThread
    /\ slabs_rebalance_lock' = Mover
    /\ UNCHANGED <<tableVars, started_expanding, item_locks, workerVars, mpc, hung, notified,
                   init_count, worker_hang_lock, do_run_maintenance_thread>>

MoverWaits ==
    /\ slabs_rebalance_lock = Mover /\ wpc[Mover] = "idle"
    /\ slabs_rebalance_lock' = NoThread
    /\ UNCHANGED <<tableVars, started_expanding, item_locks, workerVars, mpc, hung, notified,
                   init_count, worker_hang_lock, do_run_maintenance_thread>>

\* item_trylock of a linked item, which is then moved to another chunk
\* (do_item_replace) or unlinked.  An item found busy touches no table.
MoverTakesItem ==
    /\ slabs_rebalance_lock = Mover /\ wpc[Mover] = "idle"
    /\ \E k \in Stored, c \in {"store", "delete"} :
         /\ item_locks[LockOf(Hash[k])] = NoThread
         /\ item_locks' = [item_locks EXCEPT ![LockOf(Hash[k])] = Mover]
         /\ key' = [key EXCEPT ![Mover] = k]
         /\ cmd' = [cmd EXCEPT ![Mover] = c]
    /\ call' = [call EXCEPT ![Mover] = "delete"]
    /\ wpc' = [wpc EXCEPT ![Mover] = "enter"]
    /\ UNCHANGED <<tableVars, started_expanding, loc, found, pauseVars, mpc,
                   do_run_maintenance_thread>>
-----------------------------------------------------------------------------
(* The clock handler asks for an expansion once a second.                  *)

\* pthread_cond_signal wakes the maintenance thread only if it is waiting.
assoc_start_expand ==
    /\ ~started_expanding
    /\ Cardinality(Stored) + OtherItems > (hashsize * 3) \div 2
    /\ oldsize < MaxOldSize
    /\ started_expanding' = TRUE
    /\ mpc' = IF mpc = "waiting" THEN "pausing" ELSE mpc
    /\ UNCHANGED <<tableVars, item_locks, workerVars, pauseVars, do_run_maintenance_thread>>

\* stop_assoc_maintenance_thread needs maintenance_lock, which the thread
\* holds except before it starts and inside pthread_cond_wait.
stop_assoc_maintenance_thread ==
    /\ mpc \in {"start", "waiting"} /\ do_run_maintenance_thread
    /\ do_run_maintenance_thread' = FALSE
    /\ mpc' = IF mpc = "waiting" THEN "pausing" ELSE mpc
    /\ UNCHANGED <<tableVars, started_expanding, item_locks, workerVars, pauseVars>>
-----------------------------------------------------------------------------
(* assoc_maintenance_thread, with hash_bulk_move = 1.                      *)

MaintLoop ==
    /\ mpc \in {"start", "loop"}
    /\ IF ~do_run_maintenance_thread
       THEN mpc' = "exited" /\ UNCHANGED started_expanding
       ELSE IF expanding
       THEN mpc' = "trylock" /\ UNCHANGED started_expanding
       ELSE mpc' = "towait" /\ started_expanding' = FALSE
    /\ UNCHANGED <<tableVars, item_locks, workerVars, pauseVars, do_run_maintenance_thread>>

\* Mutation: the result of the trylock is not looked at.
item_trylock_Ignored ==
    /\ mpc = "trylock"
    /\ item_locks' = [item_locks EXCEPT ![LockOf(expand_bucket)] = Maint]
    /\ mpc' = "migrate"
    /\ UNCHANGED <<tableVars, started_expanding, workerVars, pauseVars,
                   do_run_maintenance_thread>>

\* item_trylock(expand_bucket) succeeds...
item_trylock ==
    /\ mpc = "trylock"
    /\ item_locks[LockOf(expand_bucket)] = NoThread
    /\ item_locks' = [item_locks EXCEPT ![LockOf(expand_bucket)] = Maint]
    /\ mpc' = "migrate"
    /\ UNCHANGED <<tableVars, started_expanding, workerVars, pauseVars,
                   do_run_maintenance_thread>>

\* ...or fails: usleep, and the loop comes round again.
TrylockBusy ==
    /\ mpc = "trylock"
    /\ item_locks[LockOf(expand_bucket)] # NoThread
    /\ mpc' = "loop"
    /\ UNCHANGED <<tableVars, started_expanding, item_locks, workerVars, pauseVars,
                   do_run_maintenance_thread>>

\* Mutation: the chain is rehashed with the mask of the old table.
MoveBucket_OldMask ==
    /\ mpc = "migrate"
    /\ LET chain == {e \in old_hashtable : e[1] = expand_bucket}
       IN  /\ primary_hashtable' = primary_hashtable
                 \cup {<<Hash[e[2]] % oldsize, e[2]>> : e \in chain}
           /\ old_hashtable' = old_hashtable \ chain
    /\ expand_bucket' = expand_bucket + 1
    /\ mpc' = "moved"
    /\ UNCHANGED <<oldsize, expanding, started_expanding, item_locks, workerVars,
                   pauseVars, do_run_maintenance_thread>>

\* Mutation: expand_bucket runs the wrong way.
MoveBucket_Down ==
    /\ mpc = "migrate"
    /\ LET chain == {e \in old_hashtable : e[1] = expand_bucket}
       IN  /\ primary_hashtable' = primary_hashtable
                 \cup {<<Hash[e[2]] % hashsize, e[2]>> : e \in chain}
           /\ old_hashtable' = old_hashtable \ chain
    /\ expand_bucket' = expand_bucket - 1
    /\ mpc' = "moved"
    /\ UNCHANGED <<oldsize, expanding, started_expanding, item_locks, workerVars,
                   pauseVars, do_run_maintenance_thread>>

\* Rehash the chain into the new table.  Only a worker with the same item
\* lock could tell the loop from one step.
MoveBucket ==
    /\ mpc = "migrate"
    /\ LET chain == {e \in old_hashtable : e[1] = expand_bucket}
       IN  /\ primary_hashtable' = primary_hashtable
                 \cup {<<Hash[e[2]] % hashsize, e[2]>> : e \in chain}
           /\ old_hashtable' = old_hashtable \ chain
    /\ expand_bucket' = expand_bucket + 1
    /\ mpc' = "moved"
    /\ UNCHANGED <<oldsize, expanding, started_expanding, item_locks, workerVars,
                   pauseVars, do_run_maintenance_thread>>

\* After the last bucket: expanding = false; free(old_hashtable).
CheckLastBucket ==
    /\ mpc = "moved"
    /\ expanding' = (expand_bucket # oldsize)
    /\ mpc' = "trylock_unlock"
    /\ UNCHANGED <<primary_hashtable, old_hashtable, oldsize, expand_bucket,
                   started_expanding, item_locks, workerVars, pauseVars,
                   do_run_maintenance_thread>>

\* Mutation: the lock of the moved bucket is kept.
item_trylock_unlock_Missing ==
    /\ mpc = "trylock_unlock"
    /\ UNCHANGED item_locks
    /\ IF expanding THEN mpc' = "loop" /\ UNCHANGED started_expanding
                    ELSE mpc' = "towait" /\ started_expanding' = FALSE
    /\ UNCHANGED <<tableVars, workerVars, pauseVars, do_run_maintenance_thread>>

\* The lock is the one taken for the bucket just moved; then the thread
\* either goes round its loop or, all buckets moved, clears started_expanding.
item_trylock_unlock ==
    /\ mpc = "trylock_unlock"
    /\ item_locks' = [item_locks EXCEPT ![LockOf(expand_bucket - 1)] = NoThread]
    /\ IF expanding THEN mpc' = "loop" /\ UNCHANGED started_expanding
                    ELSE mpc' = "towait" /\ started_expanding' = FALSE
    /\ UNCHANGED <<tableVars, workerVars, pauseVars, do_run_maintenance_thread>>

\* pthread_cond_wait(&maintenance_cond, &maintenance_lock)
CondWait ==
    /\ mpc = "towait"
    /\ mpc' = "waiting"
    /\ UNCHANGED <<tableVars, started_expanding, item_locks, workerVars, pauseVars,
                   do_run_maintenance_thread>>

\* The wait has no loop around it, so a wake-up without a signal, which POSIX
\* allows, also leads to an expansion.  Bounded by MaxOldSize.
SpuriousWakeup ==
    /\ mpc = "waiting" /\ oldsize < MaxOldSize
    /\ mpc' = "pausing"
    /\ UNCHANGED <<tableVars, started_expanding, item_locks, workerVars, pauseVars,
                   do_run_maintenance_thread>>

\* pause_threads(PAUSE_ALL_THREADS): slabs_rebalancer_pause waits for the end
\* of a page move...
slabs_rebalancer_pause ==
    /\ mpc = "pausing" /\ slabs_rebalance_lock = NoThread
    /\ slabs_rebalance_lock' = Maint
    /\ mpc' = "hanging"
    /\ UNCHANGED <<tableVars, started_expanding, item_locks, workerVars, hung, notified,
                   init_count, worker_hang_lock, do_run_maintenance_thread>>

\* ...then the thread takes worker_hang_lock, resets init_count and writes a
\* 'p' to every worker under init_lock, and waits for as many reports.
pause_threads ==
    /\ mpc = "hanging" /\ mpc' = "registering"
    /\ IF PauseWorkers
       THEN /\ worker_hang_lock = NoThread /\ worker_hang_lock' = Maint
            /\ init_count' = 0
            /\ notified' = Workers
       ELSE UNCHANGED <<worker_hang_lock, init_count, notified>>
    /\ UNCHANGED <<tableVars, started_expanding, item_locks, workerVars, hung,
                   slabs_rebalance_lock, do_run_maintenance_thread>>

\* wait_for_thread_registration returns.
AllReported == PauseWorkers => init_count >= Cardinality(Workers)

\* Mutation: the tables are swapped under running workers.
assoc_expand_NoPause ==
    /\ mpc = "registering"
    /\ old_hashtable' = primary_hashtable
    /\ primary_hashtable' = {}
    /\ oldsize' = hashsize
    /\ expanding' = TRUE
    /\ expand_bucket' = 0
    /\ loc' = [w \in Threads |-> IF loc[w].tab = "primary"
                                THEN [loc[w] EXCEPT !.tab = "old"] ELSE loc[w]]
    /\ mpc' = "resuming"
    /\ UNCHANGED <<started_expanding, item_locks, wpc, cmd, key, call, found, pauseVars,
                   do_run_maintenance_thread>>

\* assoc_expand, in the pause.  A thread that had already formed the address
\* of its bucket would keep pointing into the array that is now old_hashtable.
assoc_expand ==
    /\ mpc = "registering" /\ AllReported
    /\ old_hashtable' = primary_hashtable
    /\ primary_hashtable' = {}
    /\ oldsize' = hashsize
    /\ expanding' = TRUE
    /\ expand_bucket' = 0
    /\ loc' = [w \in Threads |-> IF loc[w].tab = "primary"
                                THEN [loc[w] EXCEPT !.tab = "old"] ELSE loc[w]]
    /\ mpc' = "resuming"
    /\ UNCHANGED <<started_expanding, item_locks, wpc, cmd, key, call, found, pauseVars,
                   do_run_maintenance_thread>>

\* calloc returns NULL: "Bad news, but we can keep running".  old_hashtable
\* then aliases the primary table and is never read, expanding being false.
ExpandFails ==
    /\ mpc = "registering" /\ AllReported
    /\ mpc' = "resuming"
    /\ UNCHANGED <<tableVars, started_expanding, item_locks, workerVars, pauseVars,
                   do_run_maintenance_thread>>

\* pause_threads(RESUME_ALL_THREADS) unlocks both locks and waits for nobody.
resume_threads ==
    /\ mpc = "resuming" /\ mpc' = "loop"
    /\ slabs_rebalance_lock' = NoThread /\ worker_hang_lock' = NoThread
    /\ UNCHANGED <<tableVars, started_expanding, item_locks, workerVars, hung, notified,
                   init_count, do_run_maintenance_thread>>

\* A thread inside its critical section, and the whole threads.
InCommand(w) == \/ ReadExpanding(w) \/ PickBucket(w) \/ assoc_insert(w)
                \/ assoc_delete(w) \/ item_unlock(w)
Worker(w) == \/ item_lock(w) \/ assoc_find(w) \/ InCommand(w)
             \/ register_thread_initialized(w) \/ LeaveHang(w)
SlabMover == MoverWakes \/ MoverWaits \/ MoverTakesItem \/ InCommand(Mover)

Maintenance == \/ MaintLoop \/ item_trylock \/ TrylockBusy \/ MoveBucket
               \/ CheckLastBucket \/ item_trylock_unlock \/ CondWait
               \/ slabs_rebalancer_pause \/ pause_threads
               \/ assoc_expand \/ ExpandFails \/ resume_threads

Next == \/ \E w \in Workers : Worker(w)
        \/ SlabMover
        \/ Maintenance \/ SpuriousWakeup
        \/ assoc_start_expand \/ stop_assoc_maintenance_thread

Spec == Init /\ [][Next]_vars

\* The scheduler runs every thread that can run; a thread that waits for a
\* mutex gets it if it is free again and again; a worker serves its notify
\* pipe among the other events of its event loop; a page move comes to its
\* end (MoveCompletes of Slabs).
Fairness == /\ SF_vars(Maintenance)
            /\ \A w \in Workers : /\ SF_vars(InCommand(w) \/ assoc_find(w) \/ LeaveHang(w))
                                  /\ SF_vars(register_thread_initialized(w))
            /\ WF_vars(InCommand(Mover)) /\ SF_vars(MoverWaits)

FairSpec == Spec /\ Fairness
-----------------------------------------------------------------------------
(* Properties.                                                             *)

TypeOK ==
    /\ oldsize \in Nat \ {0} /\ expand_bucket \in Nat
    /\ primary_hashtable \subseteq (Nat \X Keys)
    /\ old_hashtable \subseteq (Nat \X Keys)
    /\ expanding \in BOOLEAN /\ started_expanding \in BOOLEAN
    /\ item_locks \in [Locks -> Threads \cup {Maint, NoThread}]
    /\ wpc \in [Threads -> {"idle", "enter", "sawexpanding", "sawstable", "located",
                            "unlock"}]
    /\ cmd \in [Threads -> {"get", "store", "delete"}]
    /\ key \in [Threads -> Keys \cup {NoKey}]
    /\ call \in [Threads -> {"find", "insert", "delete", "done"}]
    /\ loc \in [Threads -> [tab : {"none", "old", "primary"}, b : Nat]]
    /\ found \in [Workers -> SUBSET (Keys \X BOOLEAN)]
    /\ hung \subseteq Workers /\ notified \subseteq Workers /\ init_count \in Nat
    /\ worker_hang_lock \in {NoThread, Maint}
    /\ slabs_rebalance_lock \in {NoThread, Maint, Mover}
    /\ mpc \in {"start", "loop", "trylock", "migrate", "moved", "trylock_unlock",
                "towait", "waiting", "pausing", "hanging", "registering", "resuming",
                "exited"}
    /\ do_run_maintenance_thread \in BOOLEAN

\* At every moment of an expansion each item is in the one bucket where
\* assoc_find will look for it: in the old table from expand_bucket on, in
\* the new table below it, and in the old table only while expanding.  An
\* item anywhere else could never be found, deleted or freed again.
ItemsWhereLookedFor ==
    /\ \A e \in old_hashtable : /\ InOld(e[2])
                                /\ e[1] = Hash[e[2]] % oldsize
    /\ \A e \in primary_hashtable : /\ ~InOld(e[2])
                                    /\ e[1] = Hash[e[2]] % hashsize

\* assert(*before != 0) at the end of assoc_delete: "we never actually get
\* here. the callers don't delete things they can't find", although the
\* table may be rehashed between the assoc_find and the assoc_delete.
AssocDeleteFinds ==
    \A w \in Threads : wpc[w] = "located" /\ call[w] = "delete" => KeyInBucket(w)

\* "The key must not already exist to call" assoc_insert: no second item
\* with the same key is ever chained, in either table.
AssocInsertIsNew ==
    \A w \in Threads : wpc[w] = "located" /\ call[w] = "insert" => key[w] \notin Stored

\* free(old_hashtable) never happens under a thread that points into it, and
\* the bucket the maintenance thread rewrites is never one a worker or the
\* mover walks.
NoBucketShared ==
    \A w \in Threads : wpc[w] = "located" =>
        /\ loc[w].tab = "old" => expanding
        /\ mpc = "migrate" =>
             /\ <<loc[w].tab, loc[w].b>> # <<"old", expand_bucket>>
             /\ loc[w].tab = "primary" => loc[w].b % oldsize # expand_bucket
        /\ \A v \in Threads \ {w} :
             wpc[v] = "located" => loc[v] # loc[w]

\* The table implements a dictionary: every assoc_find, assoc_insert and
\* assoc_delete takes effect at once on the set of stored keys, and no step
\* of an expansion changes that set.
D == INSTANCE Dictionary WITH stored <- Stored, answer <- found
ImplementsDictionary == D!DictSpec

\* The maintenance thread only polls its item lock, so steady traffic may
\* starve it; but an expansion that has begun comes to its end once the
\* workers and the mover fall idle, unless the thread has been told to stop.
Quiet == \A w \in Threads : wpc[w] = "idle"
ExpansionCompletes ==
    <>[]Quiet => (expanding ~> (~expanding \/ ~do_run_maintenance_thread))

\* A pause begun when every worker is out of the one before is answered by
\* all the workers and the mover, and ends.
InPause == mpc \in {"pausing", "hanging", "registering", "resuming"}
PauseEnds == mpc = "pausing" /\ hung = {} ~> ~InPause

\* "To allow dynamic hash table expansion without causing significant wait
\* times": every pause ends.  Not so if a worker that RESUME_ALL_THREADS has
\* released does not get worker_hang_lock before the next pause takes it.
EveryPauseEnds == mpc = "pausing" ~> ~InPause

\* "We are done expanding.. just wait for next invocation": a request made by
\* assoc_start_expand is taken up by the thread, or dropped by it.
RequestServed == started_expanding ~> \/ expanding \/ ~started_expanding
                                      \/ ~do_run_maintenance_thread
=============================================================================
