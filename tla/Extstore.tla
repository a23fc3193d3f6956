------------------------------ MODULE Extstore ------------------------------
(***************************************************************************)
(* The external storage engine of exstore/extstore.c: pages of a file that *)
(* are filled through write buffers, read by IO threads, and reclaimed by  *)
(* the maintenance thread.                                                 *)
(*                                                                         *)
(* A section under p->mutex or e->mutex is one step, with the sections of  *)
(* e->mutex nested in it.  _allocate_page writes a page under e->mutex     *)
(* only, so the maintenance thread's two reads of p->active and p->free    *)
(* are separate steps.  Objects have equal length, and sizes and offsets   *)
(* count objects.  What an object contains is its own address, so a read   *)
(* is right if it returns the address that was asked for.                  *)
(***************************************************************************)
EXTENDS Integers, Sequences, FiniteSets

CONSTANTS PageCount,    \* page_count
          PageSize,     \* page_size
          WbufSize,     \* wbuf_size
          WbufCount,    \* wbuf_count
          Buckets,      \* page buckets, each with one writing thread
          IOThreads,
          MaxVersion,   \* bound on the version counter
          MaxLive,      \* bound on the objects the callers remember
          MaxReads,     \* bound on the reads in flight
          None

\* Page 0, which extstore_init leaves off the free list, is never used.
Pages == 1 .. PageCount - 1
Wbufs == 1 .. WbufCount
Addresses == [page : Pages, version : 1 .. MaxVersion, offset : 0 .. PageSize - 1]

\* extstore_init refuses other sizes.
ASSUME SizeAssumption ==
    /\ WbufSize \in Nat \ {0} /\ PageSize \in Nat \ {0}
    /\ PageSize % WbufSize = 0
    /\ WbufCount \in Nat /\ Cardinality(Buckets) <= WbufCount /\ Buckets # {}
    /\ IsFiniteSet(Buckets)

\* There is a page to use beside page 0.
ASSUME PageAssumption == PageCount \in Nat \ {0, 1}

ASSUME NameAssumption ==
    /\ IsFiniteSet(IOThreads) /\ {MaxVersion, MaxLive, MaxReads} \subseteq Nat
    /\ None \notin Nat \cup Buckets \cup Addresses
    /\ None \notin [mode : {"write", "read"}, page : Pages, data : Wbufs \cup Addresses]

VARIABLES page,           \* the store_page structures
          wbuf,           \* the _store_wbuf structures
          disk,           \* the contents of the file
          page_freelist, page_buckets, page_free, version,
          wbuf_stack, io_stack,
          queue,          \* IO thread -> its queue
          cur_io, ipc,    \* an IO thread, the IO it works on
          live,           \* the addresses the callers hold
          wpc, wp,        \* a writer, the page it is to write to
          mpc, scan, do_evict, low   \* the maintenance thread

engineVars == <<page_freelist, page_buckets, page_free, version>>
bufVars == <<wbuf, wbuf_stack, io_stack>>
ioVars == <<queue, cur_io, ipc>>
writerVars == <<wpc, wp>>
scanVars == <<scan, do_evict, low>>
vars == <<page, disk, engineVars, bufVars, ioVars, live, writerVars, mpc, scanVars>>

\* "0 is magic 'page is freed' version".
FreePage == [version |-> 0, refcount |-> 0, allocated |-> 0, written |-> 0,
             obj_count |-> 0, bucket |-> None, active |-> FALSE, closed |-> FALSE,
             free |-> TRUE, wbuf |-> None]

\* A write buffer holds the objects copied into it since _allocate_wbuf.  One
\* on the stack is empty: all its fields are set again when it is used.
EmptyWbuf == [offset |-> 0, full |-> FALSE, buf |-> <<>>]

\* extstore_init.  The loop that fills the free list stops before page 0.
Init ==
    /\ page = [p \in Pages |-> FreePage]
    /\ wbuf = [w \in Wbufs |-> EmptyWbuf]
    /\ disk = [p \in Pages |-> [o \in 0 .. PageSize - 1 |-> None]]
    /\ page_freelist = [i \in Pages |-> i]
    /\ page_buckets = [b \in Buckets |-> <<>>]
    /\ page_free = PageCount - 1
    /\ version = 1
    /\ wbuf_stack = [i \in 1 .. WbufCount |-> i] /\ io_stack = WbufCount
    /\ queue = [t \in IOThreads |-> <<>>]
    /\ cur_io = [t \in IOThreads |-> None] /\ ipc = [t \in IOThreads |-> "idle"]
    /\ live = {}
    /\ wpc = [b \in Buckets |-> "idle"] /\ wp = [b \in Buckets |-> None]
    /\ mpc = "wait" /\ scan = 1 /\ do_evict = FALSE /\ low = None

\* pthread_cond_signal, without the mutex of the condition: lost unless the
\* maintenance thread waits.
extstore_run_maint == mpc' = IF mpc = "wait" THEN "decide" ELSE mpc

\* The maintenance thread holds p->mutex between two steps only here.
Unlocked(p) == ~(mpc = "scanfree" /\ scan = p)
-----------------------------------------------------------------------------
(* Writers: storage_write_thread and storage_compact_thread, which call    *)
(* extstore_write_request until it succeeds.                               *)

\* Mutation: the maintenance thread is not woken.
_allocate_page_NoSignal(b) ==
    IF page_free > 0 /\ page_freelist # <<>>
    THEN /\ version <= MaxVersion
         /\ LET p == Head(page_freelist) IN
            /\ page' = [page EXCEPT ![p].active = TRUE, ![p].free = FALSE,
                                    ![p].closed = FALSE, ![p].version = version,
                                    ![p].bucket = b]
            /\ page_buckets' = [page_buckets EXCEPT ![b] = <<p>> \o @]
         /\ page_freelist' = Tail(page_freelist)
         /\ version' = version + 1
         /\ page_free' = page_free - 1
         /\ UNCHANGED mpc
    ELSE UNCHANGED <<page, engineVars, mpc>>

\* _allocate_page, under e->mutex but not p->mutex.
_allocate_page(b) ==
    IF page_free > 0 /\ page_freelist # <<>>
    THEN /\ version <= MaxVersion
         /\ LET p == Head(page_freelist) IN
            /\ page' = [page EXCEPT ![p].active = TRUE, ![p].free = FALSE,
                                    ![p].closed = FALSE, ![p].version = version,
                                    ![p].bucket = b]
            /\ page_buckets' = [page_buckets EXCEPT ![b] = <<p>> \o @]
         /\ page_freelist' = Tail(page_freelist)
         /\ version' = version + 1
         /\ page_free' = page_free - 1
         /\ UNCHANGED mpc
    ELSE extstore_run_maint /\ UNCHANGED <<page, engineVars>>

\* A caller has something to write.
WantWrite(b) ==
    /\ wpc[b] = "idle" /\ Cardinality(live) < MaxLive
    /\ wpc' = [wpc EXCEPT ![b] = "request"]
    /\ UNCHANGED <<page, disk, engineVars, bufVars, ioVars, live, wp, mpc, scanVars>>

\* extstore_write_request picks a page under e->mutex and lets it go...
PickPage(b) ==
    /\ wpc[b] = "request"
    /\ IF page_buckets[b] # <<>>
       THEN UNCHANGED <<page, engineVars, mpc>> ELSE _allocate_page(b)
    /\ IF page_buckets'[b] = <<>> THEN UNCHANGED writerVars
       ELSE /\ wp' = [wp EXCEPT ![b] = Head(page_buckets'[b])]
            /\ wpc' = [wpc EXCEPT ![b] = "page"]
    /\ UNCHANGED <<disk, bufVars, ioVars, live, scanVars>>

\* ...and takes the page's mutex.  It may no longer be the bucket's page.
AtPage(b) == wpc[b] = "page" /\ Unlocked(wp[b])
HasRoom(p) == /\ page[p].wbuf # None
              /\ ~wbuf[page[p].wbuf].full
              /\ Len(wbuf[page[p].wbuf].buf) < WbufSize
PageFull(p) == \/ ~page[p].active
               \/ /\ page[p].wbuf # None => wbuf[page[p].wbuf].full
                  /\ page[p].allocated >= PageSize

\* The page is full: a new one is put on the bucket, and -1 returned.
FindFull(b) ==
    /\ AtPage(b) /\ PageFull(wp[b])
    /\ wpc' = [wpc EXCEPT ![b] = "newpage"]
    /\ UNCHANGED <<page, disk, engineVars, bufVars, ioVars, live, wp, mpc, scanVars>>
NewPage(b) ==
    /\ wpc[b] = "newpage"
    /\ _allocate_page(b)
    /\ wpc' = [wpc EXCEPT ![b] = "request"]
    /\ wp' = [wp EXCEPT ![b] = None]
    /\ UNCHANGED <<disk, bufVars, ioVars, live, scanVars>>

Retry(b) == /\ wpc' = [wpc EXCEPT ![b] = "request"]
            /\ wp' = [wp EXCEPT ![b] = None]

\* Mutation: the buffer is not marked full.
_submit_wbuf_NotFull(b) ==
    LET p == wp[b]
        w == page[p].wbuf IN
    /\ AtPage(b) /\ ~PageFull(p)
    /\ w # None /\ ~HasRoom(p) /\ ~wbuf[w].full
    /\ io_stack' = io_stack - 1
    /\ wbuf' = [wbuf EXCEPT ![w].full = FALSE]
    /\ \E t \in IOThreads :
         queue' = [queue EXCEPT ![t] = Append(@, [mode |-> "write", page |-> p, data |-> w])]
    /\ Retry(b)
    /\ UNCHANGED <<page, disk, engineVars, wbuf_stack, cur_io, ipc, live, mpc, scanVars>>

\* The object does not fit: the buffer goes to an IO thread (_submit_wbuf; any
\* thread, since _get_io_thread reads the depths without their locks).
_submit_wbuf(b) ==
    LET p == wp[b]
        w == page[p].wbuf IN
    /\ AtPage(b) /\ ~PageFull(p)
    /\ w # None /\ ~HasRoom(p) /\ ~wbuf[w].full
    /\ io_stack' = io_stack - 1
    /\ wbuf' = [wbuf EXCEPT ![w].full = TRUE]
    /\ \E t \in IOThreads :
         queue' = [queue EXCEPT ![t] = Append(@, [mode |-> "write", page |-> p, data |-> w])]
    /\ Retry(b)
    /\ UNCHANGED <<page, disk, engineVars, wbuf_stack, cur_io, ipc, live, mpc, scanVars>>

\* The old buffer is still being flushed, or no buffer is left: -1.
NoBuffer(b) ==
    LET p == wp[b] IN
    /\ AtPage(b) /\ ~PageFull(p)
    /\ IF page[p].wbuf = None THEN wbuf_stack = <<>> ELSE wbuf[page[p].wbuf].full
    /\ Retry(b)
    /\ UNCHANGED <<page, disk, engineVars, bufVars, ioVars, live, mpc, scanVars>>

\* extstore_write appends object a to the buffer, whose state is h.
Append_object(b, p, w, h, a) ==
    /\ wbuf' = [wbuf EXCEPT ![w] = [h EXCEPT !.buf = Append(h.buf, a)]]
    /\ live' = live \cup {a}
    /\ wpc' = [wpc EXCEPT ![b] = "idle"]
    /\ wp' = [wp EXCEPT ![b] = None]

\* _allocate_wbuf if the page has no buffer; then the caller copies its object
\* in and calls extstore_write, p->mutex being held throughout.
extstore_write(b) ==
    LET p == wp[b]
        fresh == page[p].wbuf = None
        w == IF fresh THEN Head(wbuf_stack) ELSE page[p].wbuf
        h == IF fresh THEN [EmptyWbuf EXCEPT !.offset = page[p].allocated] ELSE wbuf[w]
    IN  /\ AtPage(b) /\ ~PageFull(p)
        /\ HasRoom(p) \/ (fresh /\ wbuf_stack # <<>>)
        /\ Append_object(b, p, w, h, [page |-> p, version |-> page[p].version,
                                      offset |-> h.offset + Len(h.buf)])
        /\ page' = [page EXCEPT ![p].wbuf = w, ![p].obj_count = @ + 1,
                                ![p].allocated = IF fresh THEN @ + WbufSize ELSE @]
        /\ wbuf_stack' = IF fresh THEN Tail(wbuf_stack) ELSE wbuf_stack
        /\ UNCHANGED <<disk, engineVars, io_stack, ioVars, mpc, scanVars>>
-----------------------------------------------------------------------------
(* Other callers.                                                          *)

ReadIOs == {x \in IOThreads \X (1 .. WbufCount + MaxReads) :
               x[2] \in DOMAIN queue[x[1]] /\ queue[x[1]][x[2]].mode = "read"}

\* extstore_submit of a read.
extstore_submit(a) ==
    /\ a \in live
    /\ Cardinality(ReadIOs) + Cardinality({t \in IOThreads : ipc[t] = "pread"}) < MaxReads
    /\ \E t \in IOThreads :
         queue' = [queue EXCEPT ![t] = Append(@, [mode |-> "read", page |-> a.page, data |-> a])]
    /\ UNCHANGED <<page, disk, engineVars, bufVars, cur_io, ipc, live, writerVars, mpc, scanVars>>

extstore_delete(a) ==
    /\ a \in live /\ Unlocked(a.page)
    /\ live' = live \ {a}
    /\ LET p == page[a.page]
           n == IF p.obj_count >= 1 THEN p.obj_count - 1 ELSE 0
       IN  IF ~p.closed /\ p.version = a.version
           THEN /\ page' = [page EXCEPT ![a.page].obj_count = n]
                /\ IF n = 0 THEN extstore_run_maint ELSE UNCHANGED mpc
           ELSE UNCHANGED <<page, mpc>>
    /\ UNCHANGED <<disk, engineVars, bufVars, ioVars, writerVars, scanVars>>

\* The compactor is done with a page.  It has its page and version from the
\* page data of the maintenance thread, where only pages no longer active are
\* entered.  (With another version the call does nothing.)
extstore_close_page(p) ==
    /\ Unlocked(p)
    /\ page[p].version # 0 /\ ~page[p].active /\ ~page[p].closed
    /\ page' = [page EXCEPT ![p].closed = TRUE]
    /\ extstore_run_maint
    /\ UNCHANGED <<disk, engineVars, bufVars, ioVars, live, writerVars, scanVars>>

\* storage_compact_thread signals before it sleeps.
CompactorSignal ==
    /\ mpc = "wait" /\ extstore_run_maint
    /\ UNCHANGED <<page, disk, engineVars, bufVars, ioVars, live, writerVars, scanVars>>
-----------------------------------------------------------------------------
(* extstore_io_thread, with io_depth = 1.                                  *)

Serves(t, mode) == /\ ipc[t] = "idle" /\ queue[t] # <<>>
                   /\ Head(queue[t]).mode = mode
Readable(a) == LET p == page[a.page] IN ~p.free /\ ~p.closed /\ p.version = a.version
InWbuf(a) == page[a.page].active /\ a.offset >= page[a.page].written

\* The page is gone, or the object is still in the page's buffer: the
\* callback runs at once.
ReadAtOnce(t) ==
    /\ Serves(t, "read")
    /\ LET a == Head(queue[t]).data IN
       Unlocked(a.page) /\ (~Readable(a) \/ InWbuf(a))
    /\ queue' = [queue EXCEPT ![t] = Tail(@)]
    /\ UNCHANGED <<page, disk, engineVars, bufVars, cur_io, ipc, live, writerVars, mpc, scanVars>>

\* Mutation: no reference is taken.
StartPread_NoRef(t) ==
    /\ Serves(t, "read")
    /\ LET a == Head(queue[t]).data IN
       /\ Unlocked(a.page) /\ Readable(a) /\ ~InWbuf(a)
    /\ queue' = [queue EXCEPT ![t] = Tail(@)]
    /\ cur_io' = [cur_io EXCEPT ![t] = Head(queue[t])]
    /\ ipc' = [ipc EXCEPT ![t] = "pread"]
    /\ UNCHANGED <<page, disk, engineVars, bufVars, live, writerVars, mpc, scanVars>>

\* Otherwise the page is referenced and read without a lock...
StartPread(t) ==
    /\ Serves(t, "read")
    /\ LET a == Head(queue[t]).data IN
       /\ Unlocked(a.page) /\ Readable(a) /\ ~InWbuf(a)
       /\ page' = [page EXCEPT ![a.page].refcount = @ + 1]
    /\ queue' = [queue EXCEPT ![t] = Tail(@)]
    /\ cur_io' = [cur_io EXCEPT ![t] = Head(queue[t])]
    /\ ipc' = [ipc EXCEPT ![t] = "pread"]
    /\ UNCHANGED <<disk, engineVars, bufVars, live, writerVars, mpc, scanVars>>

\* ...the callback runs and the reference is dropped.
EndPread(t) ==
    /\ ipc[t] = "pread" /\ Unlocked(cur_io[t].page)
    /\ page' = [page EXCEPT ![cur_io[t].page].refcount = @ - 1]
    /\ cur_io' = [cur_io EXCEPT ![t] = None]
    /\ ipc' = [ipc EXCEPT ![t] = "idle"]
    /\ UNCHANGED <<disk, engineVars, bufVars, queue, live, writerVars, mpc, scanVars>>

\* "Should hold refcount during write, doesn't currently matter since page
\* can't free while active."
Pwrite(t) ==
    /\ Serves(t, "write")
    /\ LET io == Head(queue[t])
           w == wbuf[io.data] IN
       disk' = [disk EXCEPT ![io.page] = [o \in 0 .. PageSize - 1 |->
                  IF o \in w.offset .. w.offset + WbufSize - 1
                  THEN IF o - w.offset < Len(w.buf) THEN w.buf[o - w.offset + 1] ELSE None
                  ELSE disk[io.page][o]]]
    /\ queue' = [queue EXCEPT ![t] = Tail(@)]
    /\ cur_io' = [cur_io EXCEPT ![t] = Head(queue[t])]
    /\ ipc' = [ipc EXCEPT ![t] = "wbuf_cb"]
    /\ UNCHANGED <<page, engineVars, bufVars, live, writerVars, mpc, scanVars>>

_wbuf_cb(t) ==
    LET p == cur_io[t].page
        w == cur_io[t].data
        n == page[p].written + WbufSize IN
    /\ ipc[t] = "wbuf_cb" /\ Unlocked(p)
    /\ page' = [page EXCEPT ![p].written = n, ![p].wbuf = None,
                            ![p].active = IF n = PageSize THEN FALSE ELSE @]
    /\ wbuf' = [wbuf EXCEPT ![w] = EmptyWbuf]
    /\ wbuf_stack' = <<w>> \o wbuf_stack
    /\ io_stack' = io_stack + 1
    /\ cur_io' = [cur_io EXCEPT ![t] = None]
    /\ ipc' = [ipc EXCEPT ![t] = "idle"]
    /\ UNCHANGED <<disk, engineVars, queue, live, writerVars, mpc, scanVars>>
-----------------------------------------------------------------------------
(* extstore_maint_thread.                                                  *)

Decide ==
    /\ mpc = "decide"
    /\ do_evict' = (page_free = 0 \/ page_freelist = <<>>)
    /\ scan' = 1 /\ low' = None
    /\ mpc' = "scan"
    /\ UNCHANGED <<page, disk, engineVars, bufVars, ioVars, live, writerVars>>

\* The next page of the scan or, after the last, the eviction.
NextPage == IF scan + 1 < PageCount THEN scan' = scan + 1 /\ mpc' = "scan"
                                    ELSE scan' = 1 /\ mpc' = "evict"

\* Mutation: p->active is not looked at.
ReadActive_Ignored ==
    /\ mpc = "scan"
    /\ mpc' = "scanfree" /\ UNCHANGED scan
    /\ UNCHANGED <<page, disk, engineVars, bufVars, ioVars, live, writerVars, do_evict, low>>

\* Under the page's mutex: p->active is read...
ReadActive ==
    /\ mpc = "scan"
    /\ IF page[scan].active THEN NextPage ELSE mpc' = "scanfree" /\ UNCHANGED scan
    /\ UNCHANGED <<page, disk, engineVars, bufVars, ioVars, live, writerVars, do_evict, low>>

\* The list s without its entry p.
Unlinked(s, p) ==
    IF \E i \in DOMAIN s : s[i] = p
    THEN LET i == CHOOSE i \in DOMAIN s : s[i] = p /\ \A j \in 1 .. i - 1 : s[j] # p
         IN  SubSeq(s, 1, i - 1) \o SubSeq(s, i + 1, Len(s))
    ELSE s

\* Mutation: p->written is not reset.
_free_page_KeepsWritten(p) ==
    /\ page' = [page EXCEPT ![p] = [FreePage EXCEPT !.refcount = page[p].refcount, !.written = page[p].written,
                                                    !.wbuf = page[p].wbuf]]
    /\ page_buckets' = [b \in Buckets |-> IF b = page[p].bucket
                          THEN Unlinked(page_buckets[b], p)
                          ELSE page_buckets[b]]
    /\ page_freelist' = <<p>> \o page_freelist
    /\ page_free' = page_free + 1
    /\ UNCHANGED version

\* Mutation: the page stays in the list of its bucket.
_free_page_Listed(p) ==
    /\ page' = [page EXCEPT ![p] = [FreePage EXCEPT !.refcount = page[p].refcount,
                                                    !.wbuf = page[p].wbuf]]
    /\ page_freelist' = <<p>> \o page_freelist
    /\ page_free' = page_free + 1
    /\ UNCHANGED <<page_buckets, version>>

\* _free_page leaves refcount and wbuf as they are.
_free_page(p) ==
    /\ page' = [page EXCEPT ![p] = [FreePage EXCEPT !.refcount = page[p].refcount,
                                                    !.wbuf = page[p].wbuf]]
    /\ page_buckets' = [b \in Buckets |-> IF b = page[p].bucket
                          THEN Unlinked(page_buckets[b], p)
                          ELSE page_buckets[b]]
    /\ page_freelist' = <<p>> \o page_freelist
    /\ page_free' = page_free + 1
    /\ UNCHANGED version

Lower(p, q) == q = None \/ page[p].version < page[q].version

\* Mutation: a page that was reclaimed does not call the eviction off.
ScanPage_StillEvict ==
    /\ mpc = "scanfree"
    /\ LET p == page[scan]
           candidate == ~p.free /\ p.obj_count > 0 /\ ~p.closed
           reclaim == ~p.free /\ (p.obj_count = 0 \/ p.closed) /\ p.refcount = 0
       IN  /\ low' = IF candidate /\ Lower(scan, low) THEN scan ELSE low
           /\ do_evict' = do_evict
           /\ IF reclaim THEN _free_page(scan) ELSE UNCHANGED <<page, engineVars>>
    /\ NextPage
    /\ UNCHANGED <<disk, bufVars, ioVars, live, writerVars>>

\* ...then p->free, and the rest.
ScanPage ==
    /\ mpc = "scanfree"
    /\ LET p == page[scan]
           candidate == ~p.free /\ p.obj_count > 0 /\ ~p.closed
           reclaim == ~p.free /\ (p.obj_count = 0 \/ p.closed) /\ p.refcount = 0
       IN  /\ low' = IF candidate /\ Lower(scan, low) THEN scan ELSE low
           /\ do_evict' = (do_evict /\ ~reclaim)
           /\ IF reclaim THEN _free_page(scan) ELSE UNCHANGED <<page, engineVars>>
    /\ NextPage
    /\ UNCHANGED <<disk, bufVars, ioVars, live, writerVars>>

\* The page with the lowest version is closed, and freed if nobody reads it.
Evict ==
    /\ mpc = "evict"
    /\ IF do_evict /\ low # None /\ ~page[low].closed
       THEN IF page[low].refcount = 0 THEN _free_page(low)
            ELSE page' = [page EXCEPT ![low].closed = TRUE] /\ UNCHANGED engineVars
       ELSE UNCHANGED <<page, engineVars>>
    /\ mpc' = "wait" /\ low' = None /\ do_evict' = FALSE
    /\ UNCHANGED <<disk, bufVars, ioVars, live, writerVars, scan>>
-----------------------------------------------------------------------------
Request(b) == \/ PickPage(b) \/ FindFull(b) \/ NewPage(b) \/ _submit_wbuf(b)
              \/ NoBuffer(b) \/ extstore_write(b)
IOThread(t) == ReadAtOnce(t) \/ StartPread(t) \/ EndPread(t) \/ Pwrite(t) \/ _wbuf_cb(t)
Maint == Decide \/ ReadActive \/ ScanPage \/ Evict

Next == \/ \E b \in Buckets : WantWrite(b) \/ Request(b)
        \/ \E a \in live : extstore_submit(a) \/ extstore_delete(a)
        \/ \E p \in Pages : extstore_close_page(p)
        \/ CompactorSignal
        \/ \E t \in IOThreads : IOThread(t)
        \/ Maint

Spec == Init /\ [][Next]_vars

\* Each is a thread; a writer that gets -1 sleeps and tries again.  Strong
\* fairness where a page's mutex is needed: the maintenance thread has it for
\* an instant of every scan.
Fairness == /\ WF_vars(Maint)
            /\ \A t \in IOThreads : SF_vars(IOThread(t))
            /\ \A b \in Buckets : SF_vars(Request(b))
FairSpec == Spec /\ Fairness
-----------------------------------------------------------------------------
(* Properties.                                                             *)

IOs == [mode : {"write"}, page : Pages, data : Wbufs]
       \cup [mode : {"read"}, page : Pages, data : Addresses]
PageRecords ==
    [version : 0 .. MaxVersion, refcount : Nat, allocated : 0 .. PageSize,
     written : 0 .. PageSize, obj_count : Nat, bucket : Buckets \cup {None},
     active : BOOLEAN, closed : BOOLEAN, free : BOOLEAN, wbuf : Wbufs \cup {None}]
WbufRecords == [offset : 0 .. PageSize - WbufSize, full : BOOLEAN, buf : Seq(Addresses)]
TypeOK ==
    /\ page \in [Pages -> PageRecords]
    /\ wbuf \in [Wbufs -> WbufRecords] /\ \A w \in Wbufs : Len(wbuf[w].buf) <= WbufSize
    /\ disk \in [Pages -> [0 .. PageSize - 1 -> Addresses \cup {None}]]
    /\ page_freelist \in Seq(Pages) /\ page_buckets \in [Buckets -> Seq(Pages)]
    /\ page_free \in Nat /\ version \in 1 .. MaxVersion + 1
    /\ wbuf_stack \in Seq(Wbufs) /\ io_stack \in 0 .. WbufCount
    /\ queue \in [IOThreads -> Seq(IOs)]
    /\ cur_io \in [IOThreads -> IOs \cup {None}]
    /\ ipc \in [IOThreads -> {"idle", "pread", "wbuf_cb"}]
    /\ live \subseteq Addresses
    /\ wpc \in [Buckets -> {"idle", "request", "page", "newpage"}]
    /\ wp \in [Buckets -> Pages \cup {None}]
    /\ mpc \in {"wait", "decide", "scan", "scanfree", "evict"}
    /\ scan \in Pages /\ do_evict \in BOOLEAN /\ low \in Pages \cup {None}

\* The IOs an IO thread has queued or works on.
Pending(t) == {queue[t][i] : i \in DOMAIN queue[t]}
              \cup (IF cur_io[t] = None THEN {} ELSE {cur_io[t]})

\* An object is where a read will look for it, from the moment it is written
\* until its page is closed or freed: in the page's buffer beyond "written",
\* else on disk.  And while an IO thread reads without a lock, nobody reuses
\* the place: a read returns what was written or a miss, never another object.
Held == live \cup {io.data : io \in {i \in UNION {Pending(t) : t \in IOThreads} :
                                       i.mode = "read"}}
ReadsWhatWasWritten ==
    /\ \A a \in Held : Readable(a) =>
         IF InWbuf(a)
         THEN /\ page[a.page].wbuf # None
              /\ LET w == wbuf[page[a.page].wbuf] IN
                 /\ a.offset - w.offset \in 0 .. Len(w.buf) - 1
                 /\ w.buf[a.offset - w.offset + 1] = a
         ELSE disk[a.page][a.offset] = a
    /\ \A t \in IOThreads : ipc[t] = "pread" =>
         disk[cur_io[t].page][cur_io[t].data.offset] = cur_io[t].data

\* "Page can't free while active": a buffer on its way to the disk is the
\* buffer of its page, which is still active and waits for just that part:
\* the assertions of _wbuf_cb.  And _allocate_page asserts that the page it
\* supersedes has been given out entirely.
FlushFindsItsPage ==
    /\ \A t \in IOThreads : \A io \in Pending(t) : io.mode = "write" =>
         LET p == page[io.page] IN
         /\ p.active /\ ~p.free /\ p.wbuf = io.data
         /\ p.written = wbuf[io.data].offset
    /\ \A b \in Buckets : wpc[b] = "newpage" /\ page_buckets[b] # <<>> =>
         page[Head(page_buckets[b])].allocated = PageSize

\* A page is on the free list or in the list of one bucket, once, and
\* page_free counts the former.
PagesListedOnce ==
    LET OnFreelist(p) == Cardinality({i \in DOMAIN page_freelist : page_freelist[i] = p})
        InBucket(b, p) == Cardinality({i \in DOMAIN page_buckets[b] : page_buckets[b][i] = p})
    IN  /\ page_free = Len(page_freelist)
        /\ \A p \in Pages :
             /\ OnFreelist(p) = (IF page[p].free THEN 1 ELSE 0)
             /\ \A b \in Buckets : InBucket(b, p) = (IF page[p].bucket = b THEN 1 ELSE 0)
             /\ page[p].free <=> page[p].bucket = None

\* No write buffer and no IO of the stacks is lost, and the IO that
\* _submit_wbuf takes without asking is there.
BuffersConserved ==
    /\ \A w \in Wbufs : Cardinality({i \in DOMAIN wbuf_stack : wbuf_stack[i] = w})
                        + Cardinality({p \in Pages : page[p].wbuf = w}) = 1
    /\ io_stack = WbufCount - Cardinality({p \in Pages : page[p].wbuf # None
                                                          /\ wbuf[page[p].wbuf].full})

\* A page that the callers still hold objects of is freed only by eviction,
\* and is evicted only when there is no free page left.
FreedOnlyForSpace ==
    [][\A p \in Pages : page[p].version # 0 /\ page'[p].version = 0 /\ ~page[p].closed =>
         \/ \A a \in live : a.page = p => a.version # page[p].version
         \/ page_freelist = <<>>]_vars

\* extstore_write_request "is designed to be flaky", but a caller that keeps
\* trying succeeds, whatever signals to the maintenance thread are lost and
\* however many reads come in.
WriterServed ==
    \A b \in Buckets : wpc[b] = "request" ~> (wpc[b] = "idle" \/ version > MaxVersion)
=============================================================================
