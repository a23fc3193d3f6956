# TLA+ models of the memcached study

The repository takes memcached apart into programs that each hold one subsystem
(`memory_hash`, `slabs_curd`, `memory_rebalance`, `memory_lru`, `network`,
`thread`, `exstore`). The C files of these directories are successive copies of
the same subsystems; a model here follows the copy that has the most of the
subsystem in it and names that copy, and the differences between copies that
matter are constants of the model.

## 1. Inventory

| Part | State | Operations | Interacts with | What makes it correct |
|---|---|---|---|---|
| Hash table, `memory_rebalance/assoc.c` | `primary_hashtable`, `old_hashtable`, `hashpower`, `expanding`, `expand_bucket`, `started_expanding` | `assoc_find`, `assoc_insert`, `assoc_delete`, `assoc_start_expand`, maintenance thread | item locks and `pause_threads` (`thread.c`); callers in `items.c`, the slab mover | an item is found as long as it is stored, also while the table is rehashed; no bucket is touched by two threads; no old table is used after `free` |
| Item locks, `thread.c` | `item_locks[]`, fewer than buckets | `item_lock`, `item_trylock`, `item_unlock`, `pause_threads` | everyone | a lock covers all the keys of the buckets it is named after; a pause is answered |
| Slab allocator, `memory_lru/slabs.c` | page lists and freelists of the classes, the global page pool, `mem_limit`, `mem_malloced` | `slabs_alloc`, `slabs_free`, `slabs_adjust_mem_limit` | items, slab mover | a chunk is on one freelist or in use; a page has one owner; the limit holds |
| Slab mover, `memory_lru/slabs.c` | `slab_rebal`, `slab_rebalance_signal` | `slabs_reassign`, `slab_rebalance_start/_move/_finish` | allocator, item locks, hash table, reference counts | it hands over a page only when nobody can reach it; it loses no item needlessly; it ends |
| Items, `memory_lru/items.c`, `thread.c` | header: flags, `refcount`, class, key | `item_alloc`, `item_get`, `item_link`, `item_unlink`, `item_remove`, `item_replace` | allocator, hash table, LRU | the reference count is the number of references; nothing in use is freed |
| Segmented LRU and maintainer, `memory_lru/items.c` | four lists per class, sizes, bump buffers | `lru_pull_tail`, `do_item_update/bump`, `lru_maintainer_juggle` | items, crawler, automover | an item is on one list, the one its class id names; sizes are exact |
| LRU crawler, `memory_lru/crawler.c` | a crawler item per list, the client | `lru_crawler_start/stop/client`, thread | LRU, items | each list is walked to its head; the crawler item leaves the list |
| Slab automover, `slab_automove*.c` | windows of statistics | `slab_automove_run` | mover | asks only for moves that make sense |
| Bip buffer, `bipbuffer.c` | two regions of a ring | offer, peek, poll | bump buffers, logger | a FIFO |
| Store commands, `slabs_curd/memcached.c` | CAS counter, flush times | `do_store_item`, `do_add_delta`, `flush_all` | items | no update lost under CAS, 64-bit arithmetic, references given back on every path |
| External storage engine, `exstore/extstore.c` | pages with version, refcount and fill level; write buffers; IO queues | write, read, delete, `extstore_maint_thread` | storage threads | a read returns what was written there, or a miss |
| Storage threads, `exstore/storage.c` | the page being compacted, its read buffer | `storage_write`, `storage_compact_thread` | engine, items, hash table | an item in memory or on disk is never lost by the move between them |
| Connections, `network/memcached.c`, `network/thread.c` | `conns[]`, worker queues, notify pipes, `allow_new_conns`, `curr_conns` | `accept`, `dispatch_conn_new`, `conn_new`, `conn_close`, `redispath_conn`, `conn_timeout_thread` | workers, crawler | every queued connection is served, a descriptor has one holder, accepting resumes |
| Command layer, `thread/memcached.c` | struct `conn`: state, substate, read buffer, `item`, `ilist`, iov, `write_and_go`, `noreply`, `sbytes` | `drive_machine`, text and binary handlers, SASL | store commands, items | parser and client stay in step, one answer per request, items referenced until the answer is sent |
| Object cache, `network/cache.c` | free list | `cache_alloc`, `cache_free` | connections | - |
| Settings, hash functions, statistics | | | | not a subject of properties |

Hard to test, and therefore the subject of the properties: threads that meet in
the hash table while it grows; a mover that inspects items it has no lock on,
drops its lock in the middle and retries; page ownership that is decided under
one acquisition of `slabs_lock` and used under the next; reference counts that
four kinds of code paths adjust; condition variables without a predicate loop;
a crawler that walks lists others change under it; an object on disk that is
moved while its key is stored again; descriptors that the kernel gives away again
while a thread still cleans up; requests that arrive in parts, are refused half-way
and share a buffer with the next one.
`PROJECT.json` lists them at their lines under "hazards".

## 2. Modules

| Module | Part |
|---|---|
| `Dictionary` | abstract: a set of stored keys, atomic calls |
| `Assoc` | hash table, item locks, maintenance thread, the pause of the workers and the slab mover; implements `Dictionary` |
| `AssocProofs`, `SlabsProofs`, `ExtstoreProofs`, `StorageProofs`, `NetworkProofs` | theorems about `Assoc`, `Slabs`, `Extstore`, `Storage`, `Network` |
| `LruInvariant`, `LruProofs` | the inductive invariant of `Lru` with its lemmas, and the theorems |
| `Slabs` | allocator, global pool, limit, mover, items with their reference counts |
| `Extstore` | external storage engine: pages, write buffers, IO threads, maintenance thread |
| `Storage` | writer and compactor between the hash table and the storage engine |
| `Lru` | the lists of one class, bump buffers, maintainer, crawler |
| `Store` | the contents of the cache and the store commands, as operators |
| `Conn` | connections: `drive_machine` and the commands of both protocols, over `Store` |
| `Network` | descriptors and threads: accept, dispatch, queues and pipes, closing, the limit |
| `MCAssoc`, `MCSlabs`, ... | instances for TLC |

`Conn` composes the connections with the cache of `Store` (`EXTENDS`). `Storage`
uses the calls of the engine whose inside is `Extstore`, and `Network` the
connections whose inside is `Conn`: in both cases the inner model's races
do not cross the interface, and the interface is what the outer model keeps.

### Assoc

The granularity is that of the reads and writes that can be torn apart. A
worker takes the item lock of its key (`item_lock`), and calls the `assoc_*`
functions as `item_get`, `store_item` and `item_unlink` do; each call is three
steps: read `expanding`, choose the bucket (`expand_bucket`, `hashpower`), walk
or change the chain. The maintenance thread is one step per statement that
others can observe: the test of the loop, `item_trylock`, the rehashing of one
bucket (`hash_bulk_move` is 1, its default), the test for the last bucket with
`free(old_hashtable)`, the unlock, `started_expanding = false`, the wait, and
`assoc_expand` between the two halves of the pause. `calloc` may fail.

* A chain is the set of its keys. Duplicates in one chain would be invisible in
  that form; `AssocInsertIsNew` says that they cannot arise.
* `pause_threads`: the part that stops the workers is commented out in
  `memory_rebalance/thread.c`, where no workers exist; the model takes it from
  `network/thread.c` (`register_thread_initialized`). The constant
  `PauseWorkers` says whether it is there. The mutation `assoc_expand_NoPause`
  shows that the table is wrong without it, and the theorems assume it.
* The pause is step by step that of the code: `slabs_rebalancer_pause` takes
  `slabs_rebalance_lock`; `pause_threads` takes `worker_hang_lock`, resets
  `init_count` and writes a 'p' to every worker; a worker that reads its 'p' counts
  itself and blocks on `worker_hang_lock` (`hung`); when `init_count` has reached the
  number of workers the tables are swapped; `resume_threads` gives both locks back
  and waits for nobody. Each worker then needs a step of its own to get out
  (`LeaveHang`), and may find the lock taken by the next pause.
* The slab mover uses the table too: `slab_rebalance_move` unlinks or replaces the items of
  its page, whose keys it takes from the page, under a trylocked item lock and only while
  it has `slabs_rebalance_lock` (`MoverTakesItem`). The locks of the LRU maintainer and
  of the crawler are commented out in `memory_rebalance/thread.c:81,83`, and these threads
  are not part of that program, so the model has neither.
* `OtherItems` is a number of items whose keys nobody uses; they count in
  `curr_items`, so that few keys are enough to ask for an expansion.
* `found` is what the last `assoc_find` of a worker returned, with its key. It is
  `answer` in `Dictionary`, so a miss on a key that is stored is no stutter of the
  abstract specification but a wrong answer.
* A worker that has formed the address of a bucket keeps pointing into the array
  that becomes `old_hashtable`, which is what `loc'` in `assoc_expand` says.
* `pthread_cond_wait` stands in no loop, so `SpuriousWakeup` leads to an
  expansion. Only its number is bounded (by `MaxOldSize`).
* `stop_assoc_maintenance_thread` signals a thread that then expands the table
  once more before it ends its loop, as in the code.

### Slabs

A section under `slabs_lock` is one step. A worker's section under an item lock
is two steps, the lock and the work, so that the trylocks of others can fail
between them, with `slabs_free` as a third. The mover's steps are the stretches between the
places where it drops or takes a lock; in `"trylock"` it holds `slabs_lock`
while a worker may still change the item it has looked at.

* Freelists are sets; page lists are sequences, since the first page is the one
  that is moved and the last of the pool is the one that is taken.
* `it_flags` keeps LINKED, SLABBED and FETCHED, since SLABBED with FETCHED means
  "cleared by the mover". The test of `it->flags` at
  `memory_lru/slabs.c:825` is read as `it_flags`, which is the field of that
  structure; `slab_rebalance_lock` and `slabs_rebalance_lock` are one mutex.
* Item locks are one per key, so an item lock shared by two keys is left out.
  A trylock that fails for that reason is the same to the mover as one that fails
  because of the key itself.
* Expiry is a free choice in `do_item_get` and in `MoveExpired`.
* `AllocFails` counts a page for which `malloc` returned NULL, as
  `memory_allocate` does.
* `TestsPool` chooses between the limit tests of `memory_lru/slabs.c:233` and of
  `memory_rebalance/slabs.c:246`.

### Extstore

A section under `p->mutex` or `e->mutex` is one step, together with the sections
of `e->mutex` nested in it. A call of `extstore_write_request` is several steps,
since it drops `e->mutex` before it takes the mutex of the page it has chosen, and
drops that one before it allocates a new page. `pread` and `pwrite` run without a
lock and are steps of their own.

* `_allocate_page` writes `p->active` and `p->free` under `e->mutex` only, while
  the maintenance thread reads them under `p->mutex`: `ReadActive` and `ScanPage`
  are two steps, with `p->mutex` held in between (`Unlocked`). A page just
  allocated can be reclaimed by that scan, and the writer then finds it not
  active; if it has been given to the other bucket by then, the writer appends to
  that bucket's page.
* Objects have equal length and sizes count objects. The contents of an object
  is its own address (page, version, offset), so a read that returns another
  object, an older one at the same place, or nothing, is told apart from a right
  one.
* The loop of `extstore_init` that fills the free list stops before page 0, which
  is therefore never used: `Pages` begins at 1.
* Each bucket has one writer: the write thread uses the buckets for ordinary,
  chunked and short-lived items, the compaction thread its own.
* `_get_io_thread` compares the depths of the queues without their locks, so any
  IO thread may be chosen. An IO thread takes one IO at a time (`io_depth` 1).
* A call of `extstore_close_page` with a stale version does nothing and is left
  out. Callers may read or delete any object they have written, at any time.

### Storage

The engine is taken at the level of its calls. All objects have one size, so an
offset is an index and `bytes_used` is `obj_count`. An item in memory is a value; the
writer replaces it by a header with page, version and offset. The values are
numbered, so that an old one can be told from the last one.

* The compactor's loop is cut where it sleeps, where it waits for the IO thread, and
  between the deletion of an object from its page and its rescue, where it may wait
  for a page. It holds the item lock of the object's key from the one to the other
  (`Locked`). `storage_write` runs under the item lock that `lru_pull_tail` took.
* `page_data` is what the maintenance thread published last, before it freed
  anything. The compactor goes by it, so the page it picks may be gone.
* `it->refcount == 2` at `storage.c:383` looks at the copy that was read back,
  whose count is the one the item had when it was written. `given_up` remembers
  the keys for which this, a drop or a missing page left nothing.
* `storage_write` ends with `item_unlink`, which is read as `item_unlock`, and
  `wrap.shumitted` as `wrap.submitted`: the names do not exist otherwise.

### Lru

The lists are the pointers of the code (`heads`, `tails`, `next`, `prev`), since
a torn pointer is what can go wrong; the crawler's marker for a list is a node of
its own. A section under an LRU lock is one step, except the walk of `lru_pull_tail`,
which is one step per item with the lock held, so that the trylocks of the items can
fail. The bump buffer is the bip buffer of the code with its regions A and B, in
entries.

* Ages and the ratios of the list sizes are any answer (`MovesTo`); `expired`
  is set by any step (`Expire`).
* A bump reads the buffer without its mutex (`lru_maintainer_bumps`), which is
  safe because a push never writes into the part that was peeked at.
* `due` is a history of the items that a crawl has yet to meet.
* The maintainer takes the limit of an automatic crawl from the sizes it reads
  before it calls `lru_crawler_start` (`lru_maintainer_crawler_check`), so a list that
  has grown meanwhile is not crawled to its end; `due` is then empty. A
  dump takes the size under the lock (`CAP`).
* `reamaining` in `do_lru_crawler_start` and `pthread_mutex_lock[...]` in
  `item_link_q_warm` are read as what they are meant to be.

### Store and Conn

`Store` has no variables: its operators map the contents of the cache to the contents
after a function of `slabs_curd/memcached.c` or `items.c`, which runs under the
item lock of the key. A value is a sequence of digits, blanks and others; numbers
are taken modulo `Modulus` in place of 2^64, and have one digit or two, so that an
increment may change the length of the text, wrap, or write in place.

`Conn` is the state machine of `thread/memcached.c`. A client sends the requests
of its script without waiting; a request travels as units (a line in one or two
parts and its end, data, the CRLF; or header in two parts, extras, key, value), and units
arrive one by one, so that lines and headers are cut anywhere. A step is one turn of
the loop in `drive_machine`; handlers that take the item lock more than once are
cut between (`GetKey`, `DeleteItem`, `IncrAdd`).

* A scenario fixes the scripts and how often a client stalls, hangs up, the
  clock ticks and an allocation fails. The scenarios of `MCConn` are grouped by
  what they are for: cas against in-place updates, slow readers of a multiget,
  flushes within a second, refusals, memory that runs out, hang-ups, every
  binary command, every text command, SASL, buffers that cannot grow.
* Clients send what they announce: `bodylen` counts the extras that are sent (`ext`),
  and `extlen` is what the header says of them. They are two numbers because
  `dispatch_bin_command` accepts `SET`, `ADD` and `REPLACE` only from a header that
  declares no extras (`thread/memcached.c:1354`), and then reads the key and 8 bytes of
  extras all the same, and after them `bodylen - keylen` for the value, which is 8 more than
  the body has; the value read ends with the beginning of the next request
  (`ValueRead`).
* The data of a malformed text store is sent like that of a good one. The server does
  not swallow it.
* After such requests, and after a refused text store with `noreply`, the server is not
  where its client is (`LosesStep`). `InSync` and `OneReplyEach` promise nothing of a
  connection after the first of them; the scenarios of `ConnSafety` contain them all,
  so that everything else is checked with them. What they break is shown by
  `ConnSwallow`, `ConnBadLine` and `ConnBinarySet`.
* A piece of a reply points to its item and remembers the value it was composed
  of (`ReplyIsSnapshot`). A key of a `get` that finds no memory half-way leaves a piece
  without a reference, `PARTIAL`.
* `replied` is the history of the requests answered, `refused` that of the stores refused
  for their size or for want of memory, `seen` what the last `gets` returned.
* What the SASL library answers is any answer.

### Network

The main thread, the workers and one side thread (the crawler, done with a
connection). Accepting takes the lowest free descriptor, as the kernel does, so a
closed one comes back at once. `cq_push` and the write to the pipe are two
steps, in the main thread and in `redispath_conn`; `conn_close` is four: state,
`close`, `allow_new_conns`, `curr_conns`.

* `conn_new` is cut before `event_add` and before the counting, and fails where
  `malloc` or `event_add` fail.
* `do_accept_new_conns` is under `conn_lock` and is one step; the accept that
  failed before it is another.
* `maxconns_fast` is chosen in the initial state.

## 3. Runs

| Run | Bounds | Checks |
|---|---|---|
| `AssocSafety` | 2 workers and the slab mover, 3 keys, 2 locks, 4 then 8 buckets (`InitOldSize` 2, `MaxOldSize` 4), by a request or by a spurious wake-up | items are where they are looked for; the assertion of `assoc_delete`; `assoc_insert` only of new keys; no shared bucket, no freed table in use; refinement of `Dictionary` |
| `AssocLive` | 2 workers and the slab mover, 2 keys, 1 lock, 2 then 4 buckets | an expansion ends once workers and mover are idle; a pause that begins when every worker is out of the one before ends |
| `AssocLostWakeup` | the same with 1 worker | violated: a request to expand can be lost |
| `SlabsSafety` | 2 workers, 2 keys, 2 pages of 2 chunks, one move between classes | chunks accounted for, exact reference counts, no dangling reference, clear stolen page, no needless eviction |
| `SlabsMemory` | 1 worker, 1 key, 3 pages, 2 classes, prefilled pool, limit 3 lowered to 2, moves between classes and to the pool | every page has one owner and is paid for; a move ends once the workers are idle |
| `ExtstoreSafety` | 1 usable page of 2 buffers of 1 object, 2 buckets, 2 IO threads, versions up to 3 | a read finds what was written; the assertions of `_wbuf_cb` and `_allocate_page`; no buffer or IO is lost |
| `ExtstoreLive` | 2 usable pages of 1 object, 1 bucket, 1 IO thread, versions up to 4 | a page is on one list; objects are given up only for space; a writer that keeps trying succeeds |
| `StorageSafety` | 2 keys, 2 pages of 2 objects read back one by one, 3 values stored, 3 page lives | a header leads to its own key or to nothing; a page is closed only when its wanted items are moved or given up |
| `StorageStale` | the same | violated: a header can be redirected to an older value |
| `LruSafety` | 2 items, 2 keys, 1 worker, bump buffer of 2, crawls of COLD, 4 operations from a list of COLD items | lists whole and exact; exact reference counts with the bump buffers; a crawl misses nothing |
| `ConnSafety` | 2 connections with up to 5 requests, 2 keys, 3 slots, `Modulus` 11, 43 scenarios | in step with the client and one answer each, up to the first request after which the code is out of step; exact reference counts; replies are snapshots; flush, cas, incr and SASL |
| `NetworkSafety` | 2 workers, 2 descriptors, 1 waiting client, 1 failed redispatch | queue and pipe agree; a descriptor has one holder; `curr_conns`; accepting resumes |

Why these bounds show something. In `Assoc` the keys are their own hash values:
{1, 3, 4} makes two keys collide in the old table and part in the new one, and
shares a lock between keys of different buckets; two workers, the mover
and the maintenance thread are all the kinds of party a bucket can have. For the pause
it takes two workers: one that has reported and one that is still in a command. The
workers are symmetric in `AssocSafety`. The runs of `Assoc` do not check for deadlock,
since the program may stop for good: when the maintenance thread has been told to
stop, and in the pause of `AssocPauseDeadlock`. In
`Slabs` the page that is moved and one page to rescue to, two chunks to a page
(so that one chunk can be busy while the other is clear, and a rescue can find
the freelist full of chunks of the page itself), and `MaxLoops` 0 or 1 (so that
both "wait" and "give up waiting" happen) are the least with which every
branch of `slab_rebalance_move` is taken. Pages, keys and workers are symmetric
in `Slabs` in the safety runs. The assumed behaviour of the environment is any
order of commands and any moves from the given set.

In `Extstore` one page contended for by two buckets makes the writers meet in
it, through a stale pointer, and makes every page be evicted and reused while reads
of its earlier life are in flight; two buffers to a page let one part be on disk
and the other in memory; two IO threads let a read run beside a flush. The
second instance has two pages, so that the order of eviction matters. Versions
bound the length of a behaviour: three are a page's first, second and third life.
`WriterServed` promises nothing once they are used up, which is a bound of the
model and not of the code.

In `Storage` two pages of two objects let the compactor read one page in two
parts and write to the other, let a key be twice in one page, and three page
lives let the page it reads be freed and used again. In `Lru` two items and
the marker are the smallest list with a head, a tail and something between; the run
starts from `Aged`, a state that stores, one read of each item and juggling lead to,
because four operations from there reach hits on COLD items, a full and wrapping
bump buffer, dumps, automatic crawls, evictions and expiry, which would take ten
from the empty cache; `LruClientGone` starts from the empty one. In `Conn` three
slots are fewer than two keys and the items that replies hold need, so memory
runs out; `ReqsPerEvent` 1 makes every pipelined request a yield; `Modulus` 11
makes 9 + 1 longer and 10 + 1 wrap. In `Network` two descriptors and two workers
let one be closed by one worker while the other opens it, and run out.

The two violated runs are findings:

* `AssocLostWakeup`: `assoc_start_expand` sets `started_expanding` and signals
  without the lock. Between `started_expanding = false` and `pthread_cond_wait`
  the signal is lost and the flag stays set; no later request is made.
* `StorageStale`: the compactor takes a header for an object's own when page and
  version agree and does not compare the offset (`storage.c:352`). A key
  stored twice in one page is redirected to its first value; `get` then
  returns it.

Further configurations, to be run by hand, show disagreements that the runs above
step around, or liveness that takes longer:

| Configuration | Module | Result |
|---|---|---|
| `SlabsPoolRace` | `MCSlabs` | `StolenPageClear` violated: `slab_rebalance_start` picks the first page of the global pool and releases `slabs_lock`; a worker or `memory_release` can take the page before `slab_rebalance_finish` gives it to another class ("At this point the stolen slab is completely clear", `memory_lru/slabs.c:1059`) |
| `SlabsNoLimit` | `MCSlabs` | `MemoryBounded` violated: `p->slabs > 0 && p->slabs == 0` (`memory_rebalance/slabs.c:246`) is never true; with the condition of the other copy (`TestsPool = TRUE`) the property holds |
| `LruClientGone` | `MCLru` | `WalkKeepsLock` violated: when the client of a dump is gone (`crawler.c:371`) the crawl of a list is ended without its LRU lock, and `lru_crawler_class_done` unlocks it for whoever holds it |
| `AssocPauseDeadlock` | `MCAssoc` | deadlock: a worker that `RESUME_ALL_THREADS` has released has not got `worker_hang_lock` yet when the next pause takes it (after a spurious wake-up, or a failed `calloc` and a request); it never reads its 'p', `init_count` stays below the number of workers, and the maintenance thread waits for ever with both locks (`network/thread.c:60-62`). `EveryPauseEnds` is the promise this breaks |
| `ConnSwallow` | `MCConn` | `AlwaysInSync` (and `AlwaysOneReply`) violated: a refused `set` with `noreply` sets `write_and_go` and `sbytes`, but `out_string` does not go to `conn_write`, so the data is not swallowed, is parsed as a command and answered `ERROR` |
| `ConnBadLine` | `MCConn` | `AlwaysOneReply` (and `AlwaysInSync`) violated: `process_update_command` answers a malformed store (`thread/memcached.c:2537-2572`) without swallowing its data, which is answered once more |
| `ConnBinarySet` | `MCConn` | `AlwaysInSync` violated: an accepted binary `SET` takes 8 bytes of the next request (`thread/memcached.c:1354-1355`, `1597`) |
| `ConnEmpty` | `MCConn` | `RefcountExact` violated: `do_add_delta` refuses an empty value without `do_item_remove` (`slabs_curd/memcached.c:117`) |
| `ConnLeak` | `MCConn` | `RefcountExact` violated: a `get` whose `END` finds no room leaves its items in `ilist`, where the next `get` overwrites them (`thread/memcached.c:2513-2515`, the FIXME at 2327-2330) |
| `ConnPartial` | `MCConn` | `PartialHeld` violated: a key of a `get` that finds no room after its first piece leaves that piece in the reply without a reference; the item may be free when the reply is sent |
| `ConnLive` | `MCConn` | passes: whatever a client has sent is read and answered, through yields, stalls and hang-ups (`AllDrained`) |

Smaller observations made while modelling, all of them part of the models unless
they are said to be left out:

* `flush_all` with a delay moves `oldest_live` into the future and so cancels an
  immediate flush that lazy expiry has not carried out yet. The scenarios of
  `FlushExact` have no delayed flush.
* A malformed `set` (bad length, too long a key) is answered without swallowing its
  data, which is then answered as a line of its own.
* `get`: after an allocation failure for one key the rest of the keys is
  forgotten; a too long key frees what was collected before.
* Binary `SET`, `ADD` and `REPLACE` are accepted only from a header whose `extlen` is 0; with
  the 8 that the protocol asks for they are a protocol error and the connection
  closes. What is accepted is read 8 bytes past its body.
* `redispath_conn` without memory closes the descriptor but leaves `curr_conns`
  too high for ever (`dropped` in `CurrConnsExact`).
* A connection that closes between the `accept` that fails with EMFILE and
  `allow_new_conns = false` is not noticed: accepting stays off until another one
  closes. `AcceptResumes` is stated for the closes that come later.
* `conn_worker_readd` waits for a read event although requests may already be
  in the buffer; `AllDrained` excludes connections that were lent.
* `lru_crawler_crawl` unlocks `lru_crawler_lock` without holding it for a bad class
  id, and `lru_crawler_set_client` leaves the client set when it finds no memory for
  the buffer. Both are left out.
* `memory_allocate` counts a page in `mem_malloced` although `malloc` returned NULL.
* `slab_rebalance_start` reserves room in the destination's page list, which other
  pages may fill before `slab_rebalance_finish` appends. The capacity of the
  list is not modelled.
* `bipbuf_offer` copies to `b_end` in region A; nobody calls it there.

Every property has a mutation of the code (the definitions marked "Mutation",
which are used by nothing) that violates it under the same configuration.

### Fairness

* `WF(MoverStep)` in `Slabs`: a thread of its own, which the operating system
  schedules again and again; a step that waits for a lock is only enabled when the
  lock is free.
* `SF(Maintenance)` in `Assoc`: the same for a thread that also waits for
  `slabs_rebalance_lock`; that it gets a mutex that is free again and again is a property
  of the mutex.
* `SF(InCommand(w) \/ assoc_find(w) \/ LeaveHang(w))`, in `Slabs` `WF(InCommand(w))`: a
  worker inside a command finishes it, and one that waits for `worker_hang_lock` gets it if
  it is free again and again. That does not get it out before the next pause takes the lock
  and keeps it, so `PauseEnds` is about pauses that begin with nobody left inside;
  of the others `AssocPauseDeadlock` shows that they need not end. No fairness is
  assumed of the arrival of commands.
* `WF(InCommand(Mover))`, `SF(MoverWaits)`: the mover finishes what it has begun and gives
  `slabs_rebalance_lock` back, which is `MoveCompletes` of `Slabs`.
* `SF(register_thread_initialized(w))`: a worker goes back to its event loop
  between commands and there finds the byte in its pipe readable for as long as the
  pause lasts; libevent serves every ready descriptor, so it cannot be passed
  over for ever, although it is not continuously enabled.
* `WF(Maint)`, `SF(IOThread(t))`, `SF(Request(b))`: threads of `Extstore`. A step
  that needs a page's mutex is disabled for the instant in which the maintenance
  thread has it, once in every scan, hence strong fairness. A writer that gets -1 is
  called again (`storage_write_thread` and `storage_compact_thread` sleep and
  retry). The compactor's signal is not assumed to come. `WriterServed` needs as
  many usable pages as buckets: with fewer, a bucket whose page is partly filled
  keeps it active, and the other one waits for it.
* `NetworkSafety`: threads that are in the middle of something go on; the timer
  fires when it is due (libevent); the read of a worker's pipe is not starved by
  the connections (`SF`, as above). Nothing is assumed of clients: they need not
  connect, and no connection need close, so `AcceptResumes` begins with a close that
  has happened.
* `ConnLive`: a worker with a ready event runs, and a client that reads slowly reads
  on.
* The maintenance thread and the mover only poll item locks, so a steady stream
  of commands may starve both. The liveness properties are therefore conditioned on
  the workers (in `Assoc` also the mover) becoming idle (`<>[]Quiet`); without the condition they fail.

## 4. Proofs

Six components have theorems. Of each an inductive invariant `IInv` of the
specification is proved (`Invariance`), with one lemma per action (`Step_...`), and the
properties are read off it. The invariants were run through TLC, on the instances of the runs,
before they were proved.

| Theorem | States | For every |
|---|---|---|
| `AssocProofs!TypeCorrect`, `ItemsFindable`, `DeleteFinds`, `InsertIsNew`, `BucketsExclusive` | `TypeOK`, `ItemsWhereLookedFor`, `AssocDeleteFinds`, `AssocInsertIsNew`, `NoBucketShared` | set of keys, finite set of workers, hash function, number of locks, initial size that the number of locks divides |
| `AssocProofs!RefinesDictionary` | `Spec => ImplementsDictionary` | the same |
| `SlabsProofs!TypeCorrect`, `PagesOnce`, `Accounted`, `CountsExact`, `NoneDangling`, `PageClear` | `TypeOK`, `PagesOwnedOnce`, `ChunksAccounted`, `RefcountExact`, `NoDanglingItem`, `StolenPageClear` | set of keys, finite set of pages and of workers, set of classes, chunks to a page of each class, limits |
| `SlabsProofs!EvictionNeeded` | `NoNeedlessEviction`, an action property | the same |
| `ExtstoreProofs!TypeCorrect`, `ReadsRight`, `FlushFinds`, `BuffersKept`, `ListedOnce` | `TypeOK`, `ReadsWhatWasWritten`, `FlushFindsItsPage`, `BuffersConserved`, `PagesListedOnce` | number of pages and of write buffers, sizes of pages and buffers, finite set of buckets and of IO threads, bounds |
| `ExtstoreProofs!FreedForSpace` | `FreedOnlyForSpace`, an action property | the same |
| `StorageProofs!OwnKey`, `Complete` | `HeaderFindsOwnKey`; `CompactionComplete`, an action property | set of keys, finite set of pages, objects to a page and to a part, settings |
| `LruProofs!ListsRight`, `ReferencesExact`, `WalkLocked` | `ListsExact`, `RefcountExact`, `WalkKeepsLock` | set of keys, finite set of items and of workers, size of the bump buffers, limits of crawls and of tail pulls |
| `LruProofs!CrawlComplete` | `CrawlMissesNothing`, an action property | the same |
| `NetworkProofs!Announced`, `HeldByOne`, `CountExact` | `QueueAnnounced`, `FdHeldOnce`, `CurrConnsExact` | number of workers, finite set of descriptors, limit and backlog |

### AssocProofs

Assumptions: `PauseWorkers`, that the lock count divides the table size
(both are powers of two and `memcached_thread_init` exits unless the lock table
is the smaller one), and that the workers are finitely many, told apart from the
maintenance thread and the mover: `init_count` is compared with their number. The set
of keys may be infinite.

The properties are not inductive: that an item is where it is looked for
depends on the worker that inserts it having chosen the right bucket, and that
the choice is still right when it is used depends on the locks. The inductive
invariant adds

* `LocksDivide`: the lock count still divides the (doubled) table size;
* `LocksHeld`: a worker in a command holds the lock of its key, and the
  maintenance thread the lock of the bucket it moves;
* `Progress`: which values of `expanding` and `expand_bucket` go with each
  place in the maintenance thread;
* `WorkersRight`: what a worker has read of `expanding` still leads it to the
  right bucket, and the bucket it has chosen is the right one;
* `CallsMatch`: between `assoc_find` and `assoc_delete` or `assoc_insert` the key
  stays stored, or stays absent;
* `PauseRight`: the mover is in the table only with `slabs_rebalance_lock`, which the
  maintenance thread has in a pause; and while the reports are awaited `init_count` is
  the number of workers that have read their 'p', all of them still blocked.

The thread does not look at the workers before it swaps the tables, only at a counter;
`AllHung` goes from the counter back to the workers: as many have reported as there are, so
all have, and none of them can have left, since `worker_hang_lock` is taken.

The central lemma is `LockOfBucket`: `h % L = (h % (L * m)) % L`, so the lock of a
hash value is the lock of its bucket in the old and in the new table. With it, a
move of a bucket (`MoveBucket`) excludes exactly the workers whose choice it
would invalidate. There is one lemma per action for its effect on the set of
stored keys (`StoredInsert`, `StoredMove`, ...), which serves both the invariant
and the refinement.

### SlabsProofs

Assumptions: `ClassAssumption` (classes are numbers other than that of the pool, and a
page of a class has at least one chunk), `NameAssumption` (finitely many pages and
workers; the mover is none of the workers, and `None` is no page, worker or key),
`LimitAssumption` (limits are numbers), and in every theorem the hypothesis
`OutOfClasses`: the moves asked for have a class, not the global pool, as their source.
It is not a convenience: for a move out of the pool the theorems are false, as the
configuration `SlabsPoolRace` shows. Moves into the pool are covered, and so are
all changes of the memory limit.

The properties lean on each other, so they are proved together: that a
chunk is accounted for needs exact reference counts, these need that nobody has
a dangling reference, and that needs the mover to hand over only clear pages. `IInv` is
the conjunction of the type invariant, `PagesOwnedOnce`, `ChunksAccounted`,
`RefcountExact`, `NoDanglingItem` and

* `Headers`: the class id and key in the header of a chunk in use are right, what is
  free or cleared is not linked, and chunks of pages without a class are unused. The
  item the mover has just taken for a rescue (`new_it`) is excepted, since
  its header is filled in by the next step;
* `WorkerOK(w)`: which of its variables a worker has at each place, that it holds the
  item lock of the key it works on, that a new item has one owner, and
  that an item it is freeing has no references left;
* `MoverOK`: that the page being moved is still the first of its class while
  the mover is between two acquisitions of `slabs_lock`, and that it holds
  the lock of the item it has taken;
* `SweptClear`: if the mover has met no busy item in this pass, all the chunks before
  its position are cleared. This is what makes the page clear when the pass ends.

The argument has three layers. Lemmas on the lists of pages (`Put`, `Shift`, `Cut`)
show that each way of moving a page keeps the pages on one list each and paid for. Lemmas on
one chunk (`Fate`, `Exact`) say what a step may do to a chunk, and `Assemble` puts
the invariant together from the fate of each. `Stands` and `Bystander` say when the
other workers are not concerned; `Handles` and `MoverStepOn` the same for the
workers in a step of the mover; `AdvanceStep` carries `SweptClear` over the advance of
the position. `StolenClear` gives `StolenPageClear`; `RoomToLook` counts chunks:
the page of the item to be rescued has at most `PerSlab - 1` free chunks, so
the loop of `slab_rebalance_alloc`, which looks at `PerSlab`, always gets past them.

### ExtstoreProofs

Assumptions: `SizeAssumption` (`extstore_init` refuses sizes of pages that are no
multiple of the size of a buffer, and fewer buffers than buckets), `PageAssumption`
(there is a page beside page 0) and `NameAssumption` (finitely many IO threads, the
bounds are numbers, and `None` is none of the things it is compared with). The
bounds on versions, objects and reads are arbitrary numbers, so they restrict nothing
that a finite behaviour does. `IInv` adds to the types

* `PageOK(p)`: the life of a page. It is free, and then as `extstore_init` left it; or
  active, with `allocated` one buffer ahead of `written` just when it has a buffer; or
  filled. It is filled by whole buffers, which with `Aligned` keeps both within the page;
* `BufferOK(p)` and `DiskOK(p)`: the objects from `written` on are in the buffer, those
  before it are on disk, each in its place and of the present version;
* `Counted(p)` and `Stocked(p)`: `refcount` is the number of IO threads that read the
  page without a lock, `obj_count` the number of objects the callers still have;
* `IOsRight`, `WritesOnce`, `Working(t)`: every IO that is queued or being worked on
  is right when it is served, however late: a write is of the buffer that
  its page has, which is full, and the only one of the page; a read is of an address
  below what has been filled, or of an earlier version. Between `pwrite` and
  `_wbuf_cb` the disk already has the part that `written` does not count yet;
* `Listed` and `Buffered`: lists and stacks hold each page and each buffer once;
  `io_stack` is what the full buffers leave;
* `WriterOK(b)`: of the pages of a bucket only the head of its list has room, and a
  writer that has dropped `e->mutex` still has that page if anyone has. A page that was
  reclaimed and given to another bucket in between is not excluded;
* `ScanOK`: what the maintenance thread saw before it took or dropped a lock. A page that
  it saw not active may have become active, but then it is empty and still unwritten; if it
  is to evict, the free list is empty, since only that thread fills it; the page with
  the lowest version is before its position, is not free and not active. Without
  "before its position" the invariant is not inductive: the scan could free the page it has
  remembered and evict it again.

TLC checked the parts on several small instances before the proofs were written. The
steps fall into groups by what they leave alone (`QuietParts`, `StillParts`, `Minor`), so
that each `Step_` lemma argues only about what it touches; `PushOnce`, `TailOnce`
and `UnlinkOnce` are the lemmas on lists that `AllocatedLists` and `FreedLists` rest on.
`IOLeft` is a pigeonhole argument for the IO that `_submit_wbuf` takes without looking:
the full pages and the one about to be full have different buffers, so
before the step there are fewer full ones than `WbufCount`. `FindsObject` gives
`ReadsWhatWasWritten`; for a `pread` in flight it is `refcount` that keeps the page from
being freed. `SpaceStep` gives `FreedOnlyForSpace`: a page is freed by `ScanPage`, if it is
closed or has no object (`Stocked`), or by `Evict`, with an empty free list.

### StorageProofs

Assumptions: `PageAssumption`, `SettingsAssumption` (the settings are numbers) and
`NoneAssumption` (`None` is not an item). `IInv` adds to the types

* `Versions`: no page, no header and not the compactor knows a version that has not been
  given out, so a page that is used again is told from its earlier life;
* `Sealed`: a page that is not written to any more is full and keeps its objects while
  its version lasts, and the page being compacted is such a page or is gone;
* `HeadersRight`: a header with the current version of its page has an offset inside the
  page, and the object there is of its key, also while the page is closed and not free yet;
* `Progress` and `BufferRight`: where the compactor is, and that what it has read back
  is that part of the page as far as valid headers lead to it;
* `Covered`: every valid header that leads into the part of the page already passed is of
  a key in `given_up`. With it the end of the page is reached with nothing left.

### LruInvariant and LruProofs

Assumptions: `LruAssumption` (an item starts in HOT, COLD or TEMP, a crawl is of at least
one list, sizes and limits are numbers) and `NodeAssumption` (finitely many items and
workers, told apart from the lists, the maintainer and the crawler). The theorems are
about `Spec`; `LruSafety` starts from `Aged` states, which `Init` leads to, to reach
deep ones within its bounds, and it was on that instance that TLC checked `IInv`.

`ListsExact` follows pointers from a head, and says nothing of a pointer that is
not on the way. What is inductive is that a sequence exists whose pointers they are:

* `Good(q, Places, enabled, remaining)`: for each list there is a sequence `s` that has every
  node once, with `heads`, `tails`, `next` and `prev` as `s` has them (`Chain`); it
  has just the items whose place is the list and the marker, if there is a
  crawl; and an item outside the lists has no pointers. `Place` says where an item is: in the
  sub-LRU that its header names, from the link to `do_item_unlink_q`, except while a thread
  moves it;
* `Ahead`: the items of `due` are those in front of the marker in `s`, without a gap, and fewer
  than the nodes that the crawl may still look at. It is what makes `CrawlMissesNothing`
  hold: items are linked at the head, where they are not due, and an item that a bump or a pull
  takes to the head leaves the list first;
* `Exact(x)` for each item, which is `RefcountExact`, and `ItemOK`, `TableOK`: a free
  chunk has no references, and the hash table has just the linked items;
* `BufferOK(b)`: regions A and B of a bump buffer do not meet, and the slots in use are
  theirs. So a push never writes over an entry that has not been polled, and the entries that
  the maintainer has peeked at stay where they are;
* `WorkerOK`, `PullerOK`, `MaintainerOK`, `EvalOK`, `StartingOK`: the item and the locks of a
  thread at each place; that the item a walk has remembered as its next is in the list
  whose lock it has; and that the maintainer's position is inside region A.

`LruInvariant` has a section for each layer. On sequences, a push, an append, a cut and
the swap of the marker with its neighbour make chains of chains (`PushChain`, `TailChain`,
`CutChain`, `SwapChain`), and the operations of the model (`do_item_link_q`, `Detach`, `do_item_update_nolock`,
`do_item_crawl_q`) make good lists of good ones. On references, `Frame(x, t)` says that a step
is one of thread `t` and touches no item but `x`; `Preserved` then carries over the whole
invariant, but for the count of `x` and the place of `t`, which each
`Step_` lemma argues. `PathIs` goes back from the sequence to the path of
`ListsExact`: at the least position at which they differed (`Least`) they would have the
same node before it.

`WalkKeepsLock` is a theorem of `Spec` and fails in `SpecClientGone`, so the only step
that takes a lock from a thread that walks a list is the end of a crawl whose client has
gone (`crawler.c:371`).

### NetworkProofs

Assumptions: `ThreadAssumption` (at least one worker), `FdAssumption` (descriptors are
finitely many numbers), `LimitAssumption`. `QueueAnnounced` is nearly inductive
by itself. `FdHeldOnce` and `CurrConnsExact` need to know that holders only hold open
descriptors (`MainHolds`, `WorkersHold`, `QueuesHold`), that a descriptor is
queued once (`QueuedOnce`), what the structure in `conns[]` says of a live descriptor
(`LiveServed`, `EventLive`), of one that a worker has (`WorkersSee`) and of one that is
lent (`WatchLive`, `LentQueued`), and `Counted`: the counter is the
number of live descriptors, of workers that are closing one, and of the dropped ones. The delicate
step is `close`: from there the descriptor may be accepted again, while the
worker that closed it has two steps to go that no longer touch `conns[]`.

### What is only model-checked

The liveness properties (`ExpansionCompletes`, `PauseEnds`, `MoveCompletes`, `WriterServed`,
`AcceptResumes`) are out of the prover's reach.
The safety properties of `Conn` are checked by TLC only.

## 5. Not modelled

Chunked items (but for the copy that fails in `do_store_item`) and the
requested-bytes counters of the slab classes; the capacity of the page arrays;
preallocation in one block; in `Slabs` the choice of the victim (any linked item of
the class may be the tail; the order is in `Lru`); the pausing of the LRU maintainer
and the crawler while the hash table expands, whose locks are commented out in
the copy that is followed; `slab_bulk_check` and
`hash_bulk_move` above 1; tail repair in `lru_pull_tail`, which needs an item to be
referenced for hours; in `Extstore` free lists for particular buckets, which
`storage_conf_parse` refuses (`storage.c:640`), batches of IOs and failing
devices; `get` of an item on disk from a connection; UDP; the text of replies and of
statistics; settings.

The idle timeout (`conn_timeout_thread`, off by default) writes a descriptor to
the pipe of the worker that had it. `conn_close_idle` looks at state and time again,
in that worker; that the descriptor has not gone to another worker by then is a
matter of how long `idle_timeout` is against how long a pipe stays unread, and
not of any order of steps, so a model without clocks could only assume it.

The slab automover computes from windows of statistics; its effect on shared state is
`slabs_reassign`, whose arguments are free in `Slabs`. The object cache is a
free list under one mutex. Hash functions are any function.

## 6. Plan

What is left is to prove more: `Store` and `Conn`, beginning with lemmas on
`do_item_link`, `do_item_unlink` and `do_item_replace`, for `RefcountExact` and
`FlushExact`. Until then they stay with TLC.
