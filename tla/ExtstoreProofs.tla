--------------------------- MODULE ExtstoreProofs ---------------------------
(***************************************************************************)
(* Proofs about Extstore, for every number of pages, write buffers, buckets *)
(* and IO threads and every size of pages and buffers.                     *)
(***************************************************************************)
EXTENDS Extstore, SequenceTheorems, FiniteSetTheorems, TLAPS

-----------------------------------------------------------------------------
(* The inductive invariant.                                                *)

Addr(p, v, o) == [page |-> p, version |-> v, offset |-> o]

\* The life of a page: free; active, with or without a buffer, and filled
\* up in portions of the size of a buffer; filled, and perhaps closed.
PageOK(p) ==
    /\ page[p].free => page[p] = FreePage
    /\ ~page[p].free => page[p].version \in 1 .. version - 1 /\ page[p].bucket \in Buckets
    /\ page[p].active => ~page[p].free /\ ~page[p].closed /\ page[p].written < PageSize
    /\ ~page[p].free /\ ~page[p].active => page[p].written = PageSize
    /\ page[p].wbuf = None => page[p].allocated = page[p].written
    /\ page[p].wbuf # None => page[p].active /\ page[p].allocated = page[p].written + WbufSize
    /\ page[p].written % WbufSize = 0

\* What is in a page's buffer: the objects after "written".
BufferOK(p) ==
    page[p].wbuf # None =>
        /\ wbuf[page[p].wbuf].offset = page[p].written
        /\ wbuf[page[p].wbuf].full => Len(wbuf[page[p].wbuf].buf) = WbufSize
        /\ \A i \in 1 .. Len(wbuf[page[p].wbuf].buf) :
             wbuf[page[p].wbuf].buf[i] = Addr(p, page[p].version, page[p].written + (i - 1))

\* What is on disk: the objects before "written".
DiskOK(p) ==
    ~page[p].free => \A o \in 0 .. page[p].written - 1 :
        disk[p][o] = Addr(p, page[p].version, o)

\* The objects that an address may lead to.
Filled(p) == page[p].written
             + (IF page[p].wbuf = None THEN 0 ELSE Len(wbuf[page[p].wbuf].buf))
Within(a) == a.version < version
             /\ (page[a.page].version = a.version => a.offset < Filled(a.page))

\* The IOs of a thread, the one it works on at place 0.
Places(t) == {i \in 0 .. Len(queue[t]) : i = 0 => cur_io[t] # None}
IOAt(t, i) == IF i = 0 THEN cur_io[t] ELSE queue[t][i]

\* A buffer is on its way to the disk once, and is the buffer of its page.
WriteOK(io) == page[io.page].wbuf = io.data /\ wbuf[io.data].full
ReadOK(io) == io.page = io.data.page /\ Within(io.data)
IOsRight == \A t \in IOThreads : \A i \in Places(t) :
                /\ IOAt(t, i).mode = "write" => WriteOK(IOAt(t, i))
                /\ IOAt(t, i).mode = "read" => ReadOK(IOAt(t, i))
WritesOnce == \A t, u \in IOThreads : \A i \in Places(t), j \in Places(u) :
                IOAt(t, i).mode = "write" /\ IOAt(u, j).mode = "write"
                /\ IOAt(t, i).page = IOAt(u, j).page => t = u /\ i = j

\* Where an IO thread is.
Working(t) ==
    /\ ipc[t] = "idle" <=> cur_io[t] = None
    /\ ipc[t] = "pread" =>
         /\ cur_io[t].mode = "read"
         /\ page[cur_io[t].page].version = cur_io[t].data.version
         /\ cur_io[t].data.offset < page[cur_io[t].page].written
    /\ ipc[t] = "wbuf_cb" =>
         /\ cur_io[t].mode = "write"
         /\ \A o \in page[cur_io[t].page].written .. page[cur_io[t].page].written + WbufSize - 1 :
              disk[cur_io[t].page][o] = Addr(cur_io[t].page, page[cur_io[t].page].version, o)

\* References and objects are counted right.
Readers(p) == {t \in IOThreads : ipc[t] = "pread" /\ cur_io[t].page = p}
Counted(p) == page[p].refcount = Cardinality(Readers(p))
Objects(p, v) == {a \in live : a.page = p /\ a.version = v}
Stocked(p) == ~page[p].free /\ ~page[p].closed =>
                 page[p].obj_count = Cardinality(Objects(p, page[p].version))

\* A page is on one list, once; a buffer belongs to one page or is on the stack.
Once(s) == \A i, j \in DOMAIN s : s[i] = s[j] => i = j
In(x, s) == \E i \in DOMAIN s : s[i] = x
Listed ==
    /\ page_free = Len(page_freelist)
    /\ Once(page_freelist) /\ \A b \in Buckets : Once(page_buckets[b])
    /\ \A p \in Pages : /\ In(p, page_freelist) <=> page[p].free
                        /\ \A b \in Buckets : In(p, page_buckets[b]) <=> page[p].bucket = b
FullPages == {p \in Pages : page[p].wbuf # None /\ wbuf[page[p].wbuf].full}
Buffered ==
    /\ \A p, q \in Pages : page[p].wbuf = page[q].wbuf /\ page[p].wbuf # None => p = q
    /\ Once(wbuf_stack)
    /\ \A w \in Wbufs : In(w, wbuf_stack) <=> \A p \in Pages : page[p].wbuf # w
    /\ io_stack = WbufCount - Cardinality(FullPages)

\* Of the pages of a bucket only the first may have room, and it is the one
\* that the writer has picked.
WriterOK(b) ==
    /\ wp[b] # None <=> wpc[b] \in {"page", "newpage"}
    /\ \A p \in Pages : page[p].bucket = b /\ page[p].allocated # PageSize =>
         /\ page_buckets[b] # <<>> /\ Head(page_buckets[b]) = p
         /\ wpc[b] # "newpage" /\ (wpc[b] = "page" => wp[b] = p)

\* What the maintenance thread has seen still holds, but for a page that was
\* given out between its two looks.
ScanOK ==
    /\ mpc = "scanfree" /\ page[scan].active => page[scan].allocated = 0 /\ page[scan].obj_count = 0
    /\ do_evict => page_freelist = <<>>
    /\ low # None => ~page[low].active /\ ~page[low].free
    /\ low # None /\ mpc \in {"scan", "scanfree"} => low < scan

PagesInv == \A p \in Pages : PageOK(p) /\ BufferOK(p) /\ DiskOK(p) /\ Counted(p) /\ Stocked(p)
IOInv == IOsRight /\ WritesOnce /\ (\A t \in IOThreads : Working(t)) /\ \A a \in live : Within(a)
LiveFinite == IsFiniteSet(live)
IInv == /\ TypeOK /\ PagesInv /\ IOInv /\ Listed /\ Buffered
        /\ (\A b \in Buckets : WriterOK(b)) /\ ScanOK /\ LiveFinite

-----------------------------------------------------------------------------
(* Constants and sizes.                                                    *)

IORecords == [mode : {"write", "read"}, page : Pages, data : Wbufs \cup Addresses]

LEMMA Constants ==
    /\ Pages \subseteq Nat \ {0} /\ 1 \in Pages /\ IsFiniteSet(Pages)
    /\ Wbufs \subseteq Nat \ {0} /\ IsFiniteSet(Wbufs) /\ Cardinality(Wbufs) = WbufCount
    /\ None \notin Pages /\ None \notin Wbufs /\ None \notin Buckets /\ None \notin Addresses
    /\ None \notin IOs /\ IsFiniteSet(IOThreads) /\ MaxVersion \in Nat
    /\ PageSize \in Nat \ {0} /\ WbufSize \in Nat \ {0} /\ WbufCount \in Nat
<1>1. /\ Pages \subseteq Nat \ {0} /\ 1 \in Pages /\ IsFiniteSet(Pages)
  BY PageAssumption, FS_Interval DEF Pages
<1>2. /\ Wbufs \subseteq Nat \ {0} /\ IsFiniteSet(Wbufs) /\ Cardinality(Wbufs) = WbufCount
  BY SizeAssumption, FS_Interval DEF Wbufs
<1>3. IOs \subseteq [mode : {"write", "read"}, page : Pages, data : Wbufs \cup Addresses]
  BY DEF IOs
<1> QED BY <1>1, <1>2, <1>3, NameAssumption, SizeAssumption

\* A page is filled by whole buffers.
LEMMA Aligned ==
    ASSUME NEW x \in Nat, x % WbufSize = 0, x < PageSize
    PROVE  x + WbufSize <= PageSize /\ (x + WbufSize) % WbufSize = 0
<1>1. PICK W, P : W = WbufSize /\ P = PageSize /\ W \in Nat \ {0} /\ P \in Nat \ {0} /\ P % W = 0
  BY SizeAssumption
<1>2. x = W * (x \div W) /\ P = W * (P \div W) /\ x \div W \in Nat /\ P \div W \in Nat
  BY <1>1
<1>3. PICK m \in Nat, n \in Nat : x = W * m /\ P = W * n
  BY <1>2
<1>4. m < n
  <2>1. SUFFICES ASSUME n <= m PROVE W * n <= W * m
    BY <1>1, <1>3
  <2> QED BY <1>1, <2>1
<1>5. W * (m + 1) <= W * n /\ W * (m + 1) = W * m + W
  BY <1>1, <1>4
<1>6. (W * (m + 1)) % W = 0
  BY <1>1
<1> QED BY <1>1, <1>3, <1>5, <1>6

LEMMA PageFits == WbufSize <= PageSize
<1>1. 0 % WbufSize = 0
  BY Constants
<1>2. 0 < PageSize /\ 0 \in Nat /\ 0 + WbufSize = WbufSize
  BY Constants
<1>3. 0 + WbufSize <= PageSize
  BY <1>1, <1>2, Aligned
<1> QED BY <1>2, <1>3

USE Constants

LEMMA TypeNow ==
    ASSUME TypeOK
    PROVE  /\ page \in [Pages -> PageRecords] /\ wbuf \in [Wbufs -> WbufRecords]
           /\ \A w \in Wbufs : Len(wbuf[w].buf) <= WbufSize
           /\ disk \in [Pages -> [0 .. PageSize - 1 -> Addresses \cup {None}]]
           /\ page_freelist \in Seq(Pages) /\ page_buckets \in [Buckets -> Seq(Pages)]
           /\ page_free \in Nat /\ version \in 1 .. MaxVersion + 1
           /\ wbuf_stack \in Seq(Wbufs) /\ io_stack \in 0 .. WbufCount
           /\ queue \in [IOThreads -> Seq(IOs)] /\ cur_io \in [IOThreads -> IOs \cup {None}]
           /\ ipc \in [IOThreads -> {"idle", "pread", "wbuf_cb"}] /\ live \subseteq Addresses
           /\ wpc \in [Buckets -> {"idle", "request", "page", "newpage"}]
           /\ wp \in [Buckets -> Pages \cup {None}]
           /\ mpc \in {"wait", "decide", "scan", "scanfree", "evict"}
           /\ scan \in Pages /\ do_evict \in BOOLEAN /\ low \in Pages \cup {None}
BY DEF TypeOK

LEMMA PageFields ==
    ASSUME NEW r \in PageRecords
    PROVE  /\ r.version \in 0 .. MaxVersion /\ r.refcount \in Nat /\ r.allocated \in 0 .. PageSize
           /\ r.written \in 0 .. PageSize /\ r.obj_count \in Nat
           /\ r.bucket \in Buckets \cup {None} /\ r.active \in BOOLEAN /\ r.closed \in BOOLEAN
           /\ r.free \in BOOLEAN /\ r.wbuf \in Wbufs \cup {None}
BY DEF PageRecords

LEMMA IOFields ==
    ASSUME NEW io \in IOs
    PROVE  /\ io.page \in Pages /\ io.mode \in {"write", "read"}
           /\ io.mode = "write" => io.data \in Wbufs
           /\ io.mode = "read" => io.data \in Addresses
BY DEF IOs

LEMMA AddressFields ==
    ASSUME NEW a \in Addresses
    PROVE  a.page \in Pages /\ a.version \in 1 .. MaxVersion /\ a.offset \in 0 .. PageSize - 1
BY DEF Addresses

\* The IOs at the places of a thread.
LEMMA PlaceTypes ==
    ASSUME TypeOK, NEW t \in IOThreads, NEW i \in Places(t)
    PROVE  i \in Nat /\ IOAt(t, i) \in IOs
<1>1. queue[t] \in Seq(IOs) /\ cur_io[t] \in IOs \cup {None}
  BY TypeNow
<1>2. i \in 0 .. Len(queue[t]) /\ (i = 0 => cur_io[t] # None)
  BY DEF Places
<1> QED BY <1>1, <1>2 DEF IOAt

-----------------------------------------------------------------------------
(* The IOs of the threads.                                                 *)

USE DEF IInv

\* IOs leave the queues at their heads and are worked on.
Shift(s) == \A t \in IOThreads : \A i \in Places(t)' :
                i + s[t] \in Places(t) /\ IOAt(t, i)' = IOAt(t, i + s[t])
Stays == \A t \in IOThreads : \A i \in Places(t)' :
            \E j \in Places(t) : IOAt(t, i)' = IOAt(t, j)

LEMMA Shifted ==
    ASSUME IInv, TypeOK', NEW s \in [IOThreads -> {0, 1}], Shift(s)
    PROVE  WritesOnce' /\ Stays
<1>1. Stays
  BY DEF Shift, Stays
<1>2. ASSUME NEW t \in IOThreads, NEW u \in IOThreads, NEW i \in Places(t)', NEW j \in Places(u)',
             IOAt(t, i)'.mode = "write", IOAt(u, j)'.mode = "write",
             IOAt(t, i)'.page = IOAt(u, j)'.page
      PROVE  t = u /\ i = j
  <2>1. /\ i + s[t] \in Places(t) /\ IOAt(t, i)' = IOAt(t, i + s[t])
        /\ j + s[u] \in Places(u) /\ IOAt(u, j)' = IOAt(u, j + s[u])
    BY <1>2 DEF Shift
  <2>2. t = u /\ i + s[t] = j + s[u]
    BY <1>2, <2>1 DEF IOInv, WritesOnce
  <2>3. i \in Nat /\ j \in Nat
    BY DEF Places
  <2> QED BY <2>2, <2>3
<1>3. WritesOnce'
  BY <1>2 DEF WritesOnce
<1> QED BY <1>1, <1>3

Ones(t) == [u \in IOThreads |-> IF u = t THEN 1 ELSE 0]
Zeros == [u \in IOThreads |-> 0]

LEMMA SamePlaces ==
    ASSUME IInv, TypeOK', UNCHANGED <<queue, cur_io>>
    PROVE  WritesOnce' /\ Stays
<1>1. Zeros \in [IOThreads -> {0, 1}]
  BY DEF Zeros
<1>2. ASSUME NEW t \in IOThreads, NEW i \in Places(t)'
      PROVE  i + Zeros[t] \in Places(t) /\ IOAt(t, i)' = IOAt(t, i + Zeros[t])
  <2>1. i + Zeros[t] = i /\ i \in Places(t)
    BY DEF Places, Zeros
  <2> QED BY <2>1 DEF IOAt
<1> QED BY <1>1, <1>2, Shifted DEF Shift

\* A thread without an IO drops the first of its queue, or works on it.
LEMMA Served ==
    ASSUME IInv, TypeOK', NEW t \in IOThreads, cur_io[t] = None, queue[t] # <<>>,
           queue' = [queue EXCEPT ![t] = Tail(queue[t])],
           \/ cur_io' = cur_io
           \/ cur_io' = [cur_io EXCEPT ![t] = Head(queue[t])]
    PROVE  /\ WritesOnce' /\ Stays /\ 1 \in Places(t) /\ IOAt(t, 1) = Head(queue[t])
           /\ Head(queue[t]) \in IOs
<1>1. Ones(t) \in [IOThreads -> {0, 1}]
  BY DEF Ones
<1>2. queue \in [IOThreads -> Seq(IOs)] /\ cur_io \in [IOThreads -> IOs \cup {None}]
  BY TypeNow
<1>3. /\ queue[t] \in Seq(IOs) /\ Len(queue[t]) \in Nat \ {0} /\ Head(queue[t]) = queue[t][1]
      /\ Len(Tail(queue[t])) = Len(queue[t]) - 1
      /\ \A i \in 1 .. Len(queue[t]) - 1 : Tail(queue[t])[i] = queue[t][i + 1]
      /\ Head(queue[t]) \in IOs
  BY <1>2, HeadTailProperties, EmptySeq
<1>4. ASSUME NEW u \in IOThreads, NEW i \in Places(u)'
      PROVE  i + Ones(t)[u] \in Places(u) /\ IOAt(u, i)' = IOAt(u, i + Ones(t)[u])
  <2>1. i \in 0 .. Len(queue'[u]) /\ (i = 0 => cur_io'[u] # None)
    BY DEF Places
  <2>2. CASE u # t
    <3>1. Ones(t)[u] = 0 /\ queue'[u] = queue[u] /\ cur_io'[u] = cur_io[u]
      BY <1>2, <2>2 DEF Ones
    <3>2. i + Ones(t)[u] = i /\ i \in Places(u)
      BY <2>1, <3>1 DEF Places
    <3>3. IOAt(u, i)' = IOAt(u, i)
      BY ONLY <3>1 DEF IOAt
    <3> QED BY <3>2, <3>3
  <2>3. CASE u = t
    <3>1. Ones(t)[t] = 1 /\ queue'[t] = Tail(queue[t])
      BY <1>2 DEF Ones
    <3>0. i \in 0 .. Len(queue[t]) - 1
      BY <1>3, <2>1, <2>3, <3>1
    <3>2. i + 1 \in 1 .. Len(queue[t]) /\ i + 1 \in Places(t) /\ i \in Nat
      BY <1>3, <3>0 DEF Places
    <3>3. IOAt(t, i + 1) = queue[t][i + 1]
      BY <3>2 DEF IOAt
    <3>4. CASE i = 0
      <4>1. cur_io'[t] # None
        BY <2>1, <2>3, <3>4
      <4>2. cur_io'[t] = Head(queue[t])
        BY <1>2, <4>1
      <4> QED BY <1>3, <2>3, <3>1, <3>2, <3>3, <3>4, <4>2 DEF IOAt
    <3>5. CASE i # 0
      <4>1. queue'[t][i] = queue[t][i + 1]
        <5>1. i \in 1 .. Len(queue[t]) - 1
          BY <1>3, <3>0, <3>5
        <5> QED BY <1>3, <3>1, <5>1
      <4> QED BY <2>3, <3>1, <3>2, <3>3, <3>5, <4>1 DEF IOAt
    <3> QED BY <3>4, <3>5
  <2> QED BY <2>2, <2>3
<1>5. 1 \in Places(t) /\ IOAt(t, 1) = Head(queue[t])
  BY <1>3 DEF Places, IOAt
<1> QED BY <1>1, <1>3, <1>4, <1>5, Shifted DEF Shift

\* A thread is done with its IO.
LEMMA Ended ==
    ASSUME IInv, TypeOK', NEW t \in IOThreads, cur_io' = [cur_io EXCEPT ![t] = None], queue' = queue
    PROVE  /\ WritesOnce' /\ Stays
           /\ \A u \in IOThreads : \A i \in Places(u)' :
                /\ i \in Places(u) /\ IOAt(u, i)' = IOAt(u, i) /\ (u = t => i # 0)
<1>1. Zeros \in [IOThreads -> {0, 1}]
  BY DEF Zeros
<1>2. cur_io \in [IOThreads -> IOs \cup {None}]
  BY TypeNow
<1>3. ASSUME NEW u \in IOThreads, NEW i \in Places(u)'
      PROVE  i \in Places(u) /\ IOAt(u, i)' = IOAt(u, i) /\ (u = t => i # 0) /\ i + Zeros[u] = i
  <2>1. i \in 0 .. Len(queue[u]) /\ (i = 0 => cur_io'[u] # None)
    BY DEF Places
  <2>2. i # 0 \/ cur_io'[u] = cur_io[u]
    BY <1>2, <2>1
  <2>3. i + Zeros[u] = i
    BY <2>1 DEF Zeros
  <2> QED BY <1>2, <2>1, <2>2, <2>3 DEF IOAt, Places
<1>4. Shift(Zeros)
  BY <1>3 DEF Shift
<1> QED BY <1>1, <1>3, <1>4, Shifted

\* An IO is put at the end of a queue.
LEMMA Queued ==
    ASSUME IInv, NEW u \in IOThreads, NEW io \in IOs, cur_io' = cur_io,
           queue' = [queue EXCEPT ![u] = Append(queue[u], io)]
    PROVE  /\ queue' \in [IOThreads -> Seq(IOs)]
           /\ \A t \in IOThreads : \A i \in Places(t)' :
                \/ i \in Places(t) /\ IOAt(t, i)' = IOAt(t, i)
                \/ t = u /\ i = Len(queue[u]) + 1 /\ IOAt(t, i)' = io
<1>1. queue \in [IOThreads -> Seq(IOs)] /\ queue[u] \in Seq(IOs) /\ Len(queue[u]) \in Nat
  BY TypeNow
<1>2. /\ Append(queue[u], io) \in Seq(IOs) /\ Len(Append(queue[u], io)) = Len(queue[u]) + 1
      /\ \A i \in 1 .. Len(queue[u]) : Append(queue[u], io)[i] = queue[u][i]
      /\ Append(queue[u], io)[Len(queue[u]) + 1] = io
  BY <1>1, AppendProperties
<1>3. ASSUME NEW t \in IOThreads, NEW i \in Places(t)'
      PROVE  \/ i \in Places(t) /\ IOAt(t, i)' = IOAt(t, i)
             \/ t = u /\ i = Len(queue[u]) + 1 /\ IOAt(t, i)' = io
  <2>1. i \in 0 .. Len(queue'[t]) /\ (i = 0 => cur_io[t] # None)
    BY DEF Places
  <2>2. CASE t # u
    BY <1>1, <2>1, <2>2 DEF Places, IOAt
  <2>3. CASE t = u
    <3>1. queue'[t] = Append(queue[u], io)
      BY <1>1, <2>3
    <3>2. CASE i = Len(queue[u]) + 1
      BY <1>1, <1>2, <2>3, <3>1, <3>2 DEF IOAt
    <3>3. CASE i # Len(queue[u]) + 1
      <4>1. i \in Places(t)
        BY <1>1, <1>2, <2>1, <2>3, <3>1, <3>3 DEF Places
      <4>2. i # 0 => queue'[t][i] = queue[t][i]
        BY <1>1, <1>2, <2>1, <2>3, <3>1, <3>3
      <4> QED BY <4>1, <4>2 DEF IOAt
    <3> QED BY <3>2, <3>3
  <2> QED BY <2>2, <2>3
<1>4. queue' \in [IOThreads -> Seq(IOs)]
  BY <1>1, <1>2
<1> QED BY <1>3, <1>4

-----------------------------------------------------------------------------
(* Steps that leave the life of the pages alone.                           *)

SameLife(p) ==
    /\ page'[p].version = page[p].version /\ page'[p].allocated = page[p].allocated
    /\ page'[p].written = page[p].written /\ page'[p].bucket = page[p].bucket
    /\ page'[p].active = page[p].active /\ page'[p].free = page[p].free
    /\ page'[p].wbuf = page[p].wbuf
SameBuffers == UNCHANGED <<wbuf, wbuf_stack, io_stack>>
SameEngine == UNCHANGED <<page_freelist, page_buckets, page_free, version>>
Calm == (\A p \in Pages : SameLife(p)) /\ disk' = disk /\ SameBuffers /\ SameEngine

LEMMA CalmPages ==
    ASSUME IInv, Calm, NEW p \in Pages
    PROVE  BufferOK(p)' /\ DiskOK(p)' /\ Filled(p)' = Filled(p)
<1>1. BufferOK(p) /\ DiskOK(p)
  BY DEF PagesInv
<1>2. SameLife(p) /\ disk' = disk /\ wbuf' = wbuf
  BY DEF Calm, SameBuffers
<1>3. BufferOK(p)'
  BY ONLY <1>1, <1>2 DEF BufferOK, SameLife
<1>4. DiskOK(p)'
  BY ONLY <1>1, <1>2 DEF DiskOK, SameLife
<1>5. Filled(p)' = Filled(p)
  BY ONLY <1>2 DEF Filled, SameLife
<1> QED BY <1>3, <1>4, <1>5

LEMMA CalmLists ==
    ASSUME IInv, Calm
    PROVE  Listed' /\ Buffered'
<1>1. Listed'
  BY DEF Calm, SameLife, SameEngine, Listed
<1>2. \A p \in Pages : page'[p].wbuf = page[p].wbuf
  BY DEF Calm, SameLife
<1>3. FullPages' = FullPages
  BY <1>2 DEF FullPages, Calm, SameBuffers
<1>4. Buffered'
  BY <1>2, <1>3 DEF Calm, SameBuffers, Buffered
<1> QED BY <1>1, <1>4

\* What was true of an IO or an address is still true.
Lasting ==
    /\ \A io \in IOs : io.mode = "write" /\ WriteOK(io) => WriteOK(io)'
    /\ \A a \in Addresses : Within(a) => Within(a)'

LEMMA CalmLasting ==
    ASSUME IInv, Calm
    PROVE  Lasting
<1>1. ASSUME NEW io \in IOs, io.mode = "write", WriteOK(io) PROVE WriteOK(io)'
  BY <1>1, IOFields DEF WriteOK, Calm, SameLife, SameBuffers
<1>2. ASSUME NEW a \in Addresses, Within(a) PROVE Within(a)'
  <2>1. a.page \in Pages
    BY AddressFields
  <2>2. Filled(a.page)' = Filled(a.page)
    BY <2>1, CalmPages
  <2> QED BY <1>2, <2>1, <2>2 DEF Within, Calm, SameLife, SameEngine
<1> QED BY <1>1, <1>2 DEF Lasting

LEMMA IOsKept ==
    ASSUME IInv, TypeOK', Stays, Lasting
    PROVE  IOsRight'
<1> SUFFICES ASSUME NEW t \in IOThreads, NEW i \in Places(t)'
             PROVE  /\ IOAt(t, i)'.mode = "write" => WriteOK(IOAt(t, i))'
                    /\ IOAt(t, i)'.mode = "read" => ReadOK(IOAt(t, i))'
  BY DEF IOsRight
<1>1. PICK j \in Places(t) : IOAt(t, i)' = IOAt(t, j)
  BY DEF Stays
<1>2. PICK io : io = IOAt(t, j) /\ io = IOAt(t, i)' /\ io \in IOs
  BY <1>1, PlaceTypes
<1>3. (io.mode = "write" => WriteOK(io)) /\ (io.mode = "read" => ReadOK(io))
  BY <1>2 DEF IOInv, IOsRight
<1>4. io.mode = "write" => WriteOK(io)'
  BY <1>2, <1>3 DEF Lasting
<1>5. io.mode = "read" => ReadOK(io)'
  BY <1>2, <1>3, IOFields DEF Lasting, ReadOK
<1>6. WriteOK(io)' => WriteOK(IOAt(t, i))'
  BY ONLY <1>2 DEF WriteOK
<1>7. ReadOK(io)' => ReadOK(IOAt(t, i))'
  BY ONLY <1>2 DEF ReadOK, Within, Filled
<1> QED BY <1>2, <1>4, <1>5, <1>6, <1>7

LEMMA CalmWorking ==
    ASSUME IInv, Calm, NEW t \in IOThreads, cur_io'[t] = cur_io[t], ipc'[t] = ipc[t]
    PROVE  Working(t)'
<1>1. Working(t)
  BY DEF IOInv
<1>2. cur_io[t] \in IOs \cup {None}
  BY TypeNow
<1>3. CASE ipc[t] = "idle"
  BY <1>1, <1>3 DEF Working
<1>4. CASE ipc[t] # "idle"
  <2>1. PICK p \in Pages : p = cur_io[t].page
    BY <1>1, <1>2, <1>4, IOFields DEF Working
  <2>2. SameLife(p) /\ disk' = disk
    BY DEF Calm
  <2> QED BY <1>1, <1>4, <2>1, <2>2 DEF Working, SameLife
<1> QED BY <1>3, <1>4

LEMMA CalmWriter ==
    ASSUME IInv, Calm, NEW b \in Buckets, wpc'[b] = wpc[b], wp'[b] = wp[b]
    PROVE  WriterOK(b)'
BY DEF WriterOK, Calm, SameLife, SameEngine

LEMMA CalmScan ==
    ASSUME IInv, Calm, UNCHANGED scanVars, mpc' = "scanfree" => mpc = "scanfree",
           mpc' = "scan" => mpc = "scan",
           mpc' = "scanfree" => page'[scan].obj_count = page[scan].obj_count
    PROVE  ScanOK'
BY TypeNow DEF ScanOK, Calm, SameLife, SameEngine, scanVars

\* The counters of a page.
LEMMA CalmPage ==
    ASSUME IInv, Calm, NEW p \in Pages, page'[p] = page[p] \/ ~page[p].free,
           page'[p].closed => page[p].closed \/ ~page[p].active
    PROVE  PageOK(p)'
<1>1. PageOK(p) /\ SameLife(p) /\ version' = version
  BY DEF PagesInv, Calm, SameEngine
<1> QED BY ONLY <1>1, page'[p] = page[p] \/ ~page[p].free,
                page'[p].closed => page[p].closed \/ ~page[p].active DEF PageOK, SameLife

LEMMA SameCount ==
    ASSUME IInv, NEW p \in Pages, UNCHANGED <<ipc, cur_io>>, page'[p].refcount = page[p].refcount
    PROVE  Counted(p)'
<1>1. Counted(p)
  BY DEF PagesInv
<1> QED BY <1>1 DEF Counted, Readers

LEMMA SameStock ==
    ASSUME IInv, NEW p \in Pages, live' = live, page'[p].obj_count = page[p].obj_count,
           page[p].closed => page'[p].closed, SameLife(p)
    PROVE  Stocked(p)'
<1>1. Stocked(p)
  BY DEF PagesInv
<1> QED BY <1>1 DEF Stocked, Objects, SameLife

\* Nothing but queues, writers and the maintenance thread has moved.
Quiet == UNCHANGED <<page, disk, live, cur_io, ipc>> /\ SameBuffers /\ SameEngine
Still == Quiet /\ queue' = queue

LEMMA QuietParts ==
    ASSUME IInv, Quiet
    PROVE  /\ Calm /\ PagesInv' /\ Listed' /\ Buffered' /\ Lasting /\ LiveFinite'
           /\ (\A t \in IOThreads : Working(t)') /\ \A a \in live' : Within(a)'
<1>1. Calm
  BY DEF Calm, Quiet, SameLife
<1>2. \A p \in Pages : PageOK(p)' /\ Counted(p)' /\ Stocked(p)'
  <2> TAKE p \in Pages
  <2>1. page'[p] = page[p] /\ SameLife(p) /\ UNCHANGED <<ipc, cur_io>> /\ live' = live
    BY DEF Quiet, SameLife
  <2> QED BY <1>1, <2>1, CalmPage, SameCount, SameStock
<1>3. PagesInv'
  BY <1>1, <1>2, CalmPages DEF PagesInv
<1>4. Lasting
  BY <1>1, CalmLasting
<1>5. \A t \in IOThreads : Working(t)'
  BY <1>1, CalmWorking DEF Quiet
<1>6. \A a \in live' : Within(a)'
  BY <1>4, TypeNow DEF Lasting, Quiet, IOInv
<1>7. LiveFinite'
  BY DEF Quiet, LiveFinite
<1> QED BY <1>1, <1>3, <1>4, <1>5, <1>6, <1>7, CalmLists

LEMMA StillParts ==
    ASSUME IInv, TypeOK', Still
    PROVE  Calm /\ PagesInv' /\ IOInv' /\ Listed' /\ Buffered' /\ LiveFinite'
<1>1. /\ Calm /\ PagesInv' /\ Listed' /\ Buffered' /\ Lasting /\ LiveFinite'
      /\ (\A t \in IOThreads : Working(t)') /\ \A a \in live' : Within(a)'
  BY QuietParts DEF Still
<1>2. WritesOnce' /\ Stays
  BY SamePlaces DEF Still, Quiet
<1>3. IOsRight'
  BY <1>1, <1>2, IOsKept
<1>4. IOInv'
  BY <1>1, <1>2, <1>3 DEF IOInv
<1> QED BY <1>1, <1>4

-----------------------------------------------------------------------------
(* Steps of writers and of the maintenance thread that change nothing else. *)

LEMMA RunMaint ==
    ASSUME TypeOK, extstore_run_maint
    PROVE  /\ mpc' \in {"wait", "decide", "scan", "scanfree", "evict"}
           /\ mpc' = "scanfree" <=> mpc = "scanfree"
           /\ mpc' = "scan" <=> mpc = "scan"
BY TypeNow DEF extstore_run_maint

LEMMA Step_WantWrite ==
    ASSUME IInv, NEW b \in Buckets, WantWrite(b)
    PROVE  IInv'
<1>1. /\ wpc[b] = "idle" /\ wpc' = [wpc EXCEPT ![b] = "request"]
      /\ UNCHANGED <<wp, mpc, scanVars>> /\ Still
  BY DEF WantWrite, Still, Quiet, SameBuffers, SameEngine, engineVars, bufVars, ioVars
<1>2. TypeOK'
  BY <1>1, TypeNow DEF TypeOK, Still, Quiet, SameBuffers, SameEngine, scanVars
<1>3. Calm /\ PagesInv' /\ IOInv' /\ Listed' /\ Buffered' /\ LiveFinite'
  BY <1>1, <1>2, StillParts
<1>4. ASSUME NEW c \in Buckets PROVE WriterOK(c)'
  <2>1. WriterOK(c)
    OBVIOUS
  <2>2. CASE c # b
    BY <1>1, <1>3, <2>2, CalmWriter, TypeNow
  <2>3. CASE c = b
    BY <1>1, <2>1, <2>3, TypeNow DEF WriterOK, Still, Quiet, SameEngine
  <2> QED BY <2>2, <2>3
<1>5. ScanOK'
  BY <1>1, <1>3, CalmScan DEF Still, Quiet
<1> QED BY <1>2, <1>3, <1>4, <1>5

LEMMA Step_FindFull ==
    ASSUME IInv, NEW b \in Buckets, FindFull(b)
    PROVE  IInv'
<1>1. /\ wpc[b] = "page" /\ wpc' = [wpc EXCEPT ![b] = "newpage"] /\ PageFull(wp[b])
      /\ UNCHANGED <<wp, mpc, scanVars>> /\ Still
  BY DEF FindFull, AtPage, Still, Quiet, SameBuffers, SameEngine, engineVars, bufVars, ioVars
<1>2. TypeOK'
  BY <1>1, TypeNow DEF TypeOK, Still, Quiet, SameBuffers, SameEngine, scanVars
<1>3. Calm /\ PagesInv' /\ IOInv' /\ Listed' /\ Buffered' /\ LiveFinite'
  BY <1>1, <1>2, StillParts
<1>4. ASSUME NEW c \in Buckets PROVE WriterOK(c)'
  <2>1. WriterOK(c)
    OBVIOUS
  <2>2. CASE c # b
    BY <1>1, <1>3, <2>2, CalmWriter, TypeNow
  <2>3. CASE c = b
    <3>1. wp[b] \in Pages
      BY <1>1, <2>1, <2>3, TypeNow DEF WriterOK
    <3>2. PageOK(wp[b]) /\ page[wp[b]] \in PageRecords
      BY <3>1, TypeNow DEF PagesInv
    <3>3. page[wp[b]].bucket = b => page[wp[b]].allocated = PageSize
      <4>1. CASE page[wp[b]].active
        BY <1>1, <3>2, <4>1, PageFields DEF PageFull
      <4>2. CASE ~page[wp[b]].active
        BY <3>2, <4>2, PageFields DEF PageOK, FreePage
      <4> QED BY <4>1, <4>2
    <3>4. wpc'[b] = "newpage" /\ wp' = wp /\ page' = page /\ page_buckets' = page_buckets
      BY <1>1, TypeNow DEF Still, Quiet, SameEngine
    <3> QED BY <1>1, <2>1, <2>3, <3>3, <3>4 DEF WriterOK
  <2> QED BY <2>2, <2>3
<1>5. ScanOK'
  BY <1>1, <1>3, CalmScan DEF Still, Quiet
<1> QED BY <1>2, <1>3, <1>4, <1>5

\* A writer that lets its page go.
LEMMA LetGo ==
    ASSUME IInv, NEW b \in Buckets, NEW s \in {"idle", "request"},
           wpc' = [wpc EXCEPT ![b] = s], wp' = [wp EXCEPT ![b] = None], NEW c \in Buckets,
           \A p \in Pages : page'[p].bucket = c /\ page'[p].allocated # PageSize =>
              page[p].bucket = c /\ page[p].allocated # PageSize,
           page_buckets' = page_buckets
    PROVE  WriterOK(c)'
<1>1. WriterOK(c) /\ wpc \in [Buckets -> {"idle", "request", "page", "newpage"}]
      /\ wp \in [Buckets -> Pages \cup {None}]
  BY TypeNow
<1>2. CASE c # b
  BY <1>1, <1>2 DEF WriterOK
<1>3. CASE c = b
  BY <1>1, <1>3 DEF WriterOK
<1> QED BY <1>2, <1>3

LEMMA Step_NoBuffer ==
    ASSUME IInv, NEW b \in Buckets, NoBuffer(b)
    PROVE  IInv'
<1>1. /\ wpc' = [wpc EXCEPT ![b] = "request"] /\ wp' = [wp EXCEPT ![b] = None]
      /\ UNCHANGED <<mpc, scanVars>> /\ Still
  BY DEF NoBuffer, Retry, Still, Quiet, SameBuffers, SameEngine, engineVars, bufVars, ioVars
<1>2. TypeOK'
  BY <1>1, TypeNow DEF TypeOK, Still, Quiet, SameBuffers, SameEngine, scanVars
<1>3. Calm /\ PagesInv' /\ IOInv' /\ Listed' /\ Buffered' /\ LiveFinite'
  BY <1>1, <1>2, StillParts
<1>4. \A c \in Buckets : WriterOK(c)'
  BY <1>1, LetGo DEF Still, Quiet, SameEngine
<1>5. ScanOK'
  BY <1>1, <1>3, CalmScan DEF Still, Quiet
<1> QED BY <1>2, <1>3, <1>4, <1>5

LEMMA Step_CompactorSignal ==
    ASSUME IInv, CompactorSignal
    PROVE  IInv'
<1>1. extstore_run_maint /\ UNCHANGED <<wpc, wp, scanVars>> /\ Still
  BY DEF CompactorSignal, Still, Quiet, SameBuffers, SameEngine, engineVars, bufVars, ioVars, writerVars
<1>2. TypeOK'
  BY <1>1, TypeNow, RunMaint DEF TypeOK, Still, Quiet, SameBuffers, SameEngine, scanVars
<1>3. Calm /\ PagesInv' /\ IOInv' /\ Listed' /\ Buffered' /\ LiveFinite'
  BY <1>1, <1>2, StillParts
<1>4. \A c \in Buckets : WriterOK(c)'
  BY <1>1, <1>3, CalmWriter
<1>5. ScanOK'
  BY <1>1, <1>3, CalmScan, RunMaint DEF Still, Quiet
<1> QED BY <1>2, <1>3, <1>4, <1>5

LEMMA Step_Decide ==
    ASSUME IInv, Decide
    PROVE  IInv'
<1>1. /\ do_evict' = (page_free = 0 \/ page_freelist = <<>>) /\ scan' = 1 /\ low' = None
      /\ mpc' = "scan" /\ UNCHANGED <<wpc, wp>> /\ Still
  BY DEF Decide, Still, Quiet, SameBuffers, SameEngine, engineVars, bufVars, ioVars, writerVars
<1>2. do_evict' \in BOOLEAN
  BY <1>1
<1>3. TypeOK'
  BY <1>1, <1>2, TypeNow DEF TypeOK, Still, Quiet, SameBuffers, SameEngine
<1>4. Calm /\ PagesInv' /\ IOInv' /\ Listed' /\ Buffered' /\ LiveFinite'
  BY <1>1, <1>3, StillParts
<1>5. \A c \in Buckets : WriterOK(c)'
  BY <1>1, <1>4, CalmWriter
<1>6. do_evict' => page_freelist' = <<>>
  <2>1. page_freelist' = page_freelist /\ page_freelist \in Seq(Pages)
    BY <1>1, TypeNow DEF Still, Quiet, SameEngine
  <2>2. page_free = 0 => page_freelist = <<>>
    BY <2>1, EmptySeq DEF Listed
  <2> QED BY <1>1, <2>1, <2>2
<1>7. ScanOK'
  BY <1>1, <1>6 DEF ScanOK
<1> QED BY <1>3, <1>4, <1>5, <1>7

LEMMA NextScan ==
    ASSUME TypeOK, NextPage
    PROVE  /\ scan' \in Pages /\ mpc' \in {"scan", "evict"}
           /\ mpc' = "scan" => scan' = scan + 1
<1>1. scan \in Pages
  BY TypeNow
<1> QED BY <1>1, PageAssumption DEF NextPage, Pages

LEMMA Step_ReadActive ==
    ASSUME IInv, ReadActive
    PROVE  IInv'
<1>1. /\ IF page[scan].active THEN NextPage ELSE mpc' = "scanfree" /\ scan' = scan
      /\ UNCHANGED <<do_evict, low, wpc, wp>> /\ Still
  BY DEF ReadActive, Still, Quiet, SameBuffers, SameEngine, engineVars, bufVars, ioVars, writerVars
<1>2. /\ scan' \in Pages /\ mpc' \in {"scan", "evict", "scanfree"}
      /\ mpc' = "scanfree" => scan' = scan /\ ~page[scan].active
      /\ mpc' = "scan" => scan' = scan + 1
  BY <1>1, NextScan, TypeNow
<1>3. TypeOK'
  BY <1>1, <1>2, TypeNow DEF TypeOK, Still, Quiet, SameBuffers, SameEngine
<1>4. Calm /\ PagesInv' /\ IOInv' /\ Listed' /\ Buffered' /\ LiveFinite'
  BY <1>1, <1>3, StillParts
<1>5. \A c \in Buckets : WriterOK(c)'
  BY <1>1, <1>4, CalmWriter
<1>6. ScanOK'
  <2>1. low # None => low < scan /\ low \in Nat /\ scan \in Nat
    <3>1. mpc = "scan" /\ low \in Pages \cup {None} /\ scan \in Pages
      BY TypeNow DEF ReadActive
    <3> QED BY <3>1 DEF ScanOK
  <2>2. low' # None /\ mpc' \in {"scan", "scanfree"} => low' < scan'
    BY <1>1, <1>2, <2>1
  <2> QED BY <1>1, <1>2, <2>2 DEF ScanOK, Still, Quiet, SameEngine
<1> QED BY <1>3, <1>4, <1>5, <1>6

-----------------------------------------------------------------------------
(* Reads and other callers.                                                *)

LEMMA Step_extstore_submit ==
    ASSUME IInv, NEW a \in live, extstore_submit(a)
    PROVE  IInv'
<1>1. PICK io : io = [mode |-> "read", page |-> a.page, data |-> a]
  OBVIOUS
<1>2. PICK u \in IOThreads : queue' = [queue EXCEPT ![u] = Append(queue[u], io)]
  BY <1>1, TypeNow DEF extstore_submit
<1>3. Quiet /\ UNCHANGED <<wpc, wp, mpc, scanVars>>
  BY DEF extstore_submit, Quiet, SameBuffers, SameEngine, engineVars, bufVars, writerVars
<1>4. a \in Addresses /\ Within(a) /\ io \in IOs
  BY <1>1, TypeNow, AddressFields DEF IOInv, IOs
<1>5. /\ queue' \in [IOThreads -> Seq(IOs)]
      /\ \A t \in IOThreads : \A i \in Places(t)' :
           \/ i \in Places(t) /\ IOAt(t, i)' = IOAt(t, i)
           \/ t = u /\ i = Len(queue[u]) + 1 /\ IOAt(t, i)' = io
  BY <1>2, <1>3, <1>4, Queued DEF Quiet
<1>6. TypeOK'
  BY <1>3, <1>5, TypeNow DEF TypeOK, Quiet, SameBuffers, SameEngine, scanVars
<1>7. /\ Calm /\ PagesInv' /\ Listed' /\ Buffered' /\ Lasting /\ LiveFinite'
      /\ (\A t \in IOThreads : Working(t)') /\ \A x \in live' : Within(x)'
  BY <1>3, QuietParts
<1>8. ASSUME NEW t \in IOThreads, NEW i \in Places(t)'
      PROVE  /\ IOAt(t, i)'.mode = "write" => WriteOK(IOAt(t, i))'
             /\ IOAt(t, i)'.mode = "read" => ReadOK(IOAt(t, i))'
  <2>1. PICK x : x = IOAt(t, i)'
    OBVIOUS
  <2>2. CASE i \in Places(t) /\ IOAt(t, i)' = IOAt(t, i)
    <3>1. x = IOAt(t, i) /\ x \in IOs
      BY <2>1, <2>2, PlaceTypes
    <3>2. (x.mode = "write" => WriteOK(x)) /\ (x.mode = "read" => ReadOK(x))
      BY <2>2, <3>1 DEF IOInv, IOsRight
    <3>3. (x.mode = "write" => WriteOK(x)') /\ (x.mode = "read" => ReadOK(x)')
      BY <1>7, <3>1, <3>2, IOFields DEF Lasting, ReadOK
    <3> QED BY <2>1, <3>3 DEF WriteOK, ReadOK, Within, Filled
  <2>3. CASE IOAt(t, i)' = io
    <3>1. Within(a)'
      BY <1>4, <1>7 DEF Lasting
    <3>2. ReadOK(io)' /\ io.mode = "read"
      BY <1>1, <3>1 DEF ReadOK, Within, Filled
    <3> QED BY <2>3, <3>2 DEF ReadOK, Within, Filled
  <2> QED BY <1>5, <2>2, <2>3
<1>9. WritesOnce'
  <2>1. ASSUME NEW t \in IOThreads, NEW i \in Places(t)', IOAt(t, i)'.mode = "write"
        PROVE  i \in Places(t) /\ IOAt(t, i)' = IOAt(t, i)
    <3>1. io.mode = "read"
      BY <1>1
    <3> QED BY <1>5, <2>1, <3>1
  <2> QED BY <2>1 DEF WritesOnce, IOInv
<1>10. IOInv'
  BY <1>7, <1>8, <1>9 DEF IOInv, IOsRight
<1>11. \A c \in Buckets : WriterOK(c)'
  BY <1>3, <1>7, CalmWriter
<1>12. ScanOK'
  BY <1>3, <1>7, CalmScan DEF Quiet
<1> QED BY <1>6, <1>7, <1>10, <1>11, <1>12

LEMMA Step_ReadAtOnce ==
    ASSUME IInv, NEW t \in IOThreads, ReadAtOnce(t)
    PROVE  IInv'
<1>1. /\ ipc[t] = "idle" /\ queue[t] # <<>> /\ queue' = [queue EXCEPT ![t] = Tail(queue[t])]
      /\ Quiet /\ UNCHANGED <<wpc, wp, mpc, scanVars>>
  BY TypeNow DEF ReadAtOnce, Serves, Quiet, SameBuffers, SameEngine, engineVars, bufVars, writerVars
<1>2. cur_io[t] = None
  BY <1>1 DEF IOInv, Working
<1>3. queue' \in [IOThreads -> Seq(IOs)]
  <2>1. queue[t] \in Seq(IOs)
    BY TypeNow
  <2>2. Tail(queue[t]) \in Seq(IOs)
    BY <1>1, <2>1, HeadTailProperties
  <2> QED BY <1>1, <2>2, TypeNow
<1>4. TypeOK'
  BY <1>1, <1>3, TypeNow DEF TypeOK, Quiet, SameBuffers, SameEngine, scanVars
<1>5. /\ Calm /\ PagesInv' /\ Listed' /\ Buffered' /\ Lasting /\ LiveFinite'
      /\ (\A u \in IOThreads : Working(u)') /\ \A x \in live' : Within(x)'
  BY <1>1, QuietParts
<1>6. WritesOnce' /\ Stays
  BY <1>1, <1>2, <1>4, Served DEF Quiet
<1>7. IOInv'
  BY <1>4, <1>5, <1>6, IOsKept DEF IOInv
<1>8. \A c \in Buckets : WriterOK(c)'
  BY <1>1, <1>5, CalmWriter
<1>9. ScanOK'
  BY <1>1, <1>5, CalmScan DEF Quiet
<1> QED BY <1>4, <1>5, <1>7, <1>8, <1>9

\* One page is changed, but not its life.
LEMMA Minor ==
    ASSUME IInv, NEW p \in Pages, NEW r \in PageRecords, page' = [page EXCEPT ![p] = r],
           r.version = page[p].version, r.allocated = page[p].allocated,
           r.written = page[p].written, r.bucket = page[p].bucket, r.active = page[p].active,
           r.free = page[p].free, r.wbuf = page[p].wbuf,
           disk' = disk, SameBuffers, SameEngine
    PROVE  /\ Calm /\ Lasting /\ page' \in [Pages -> PageRecords] /\ page'[p] = r
           /\ \A q \in Pages : q # p => page'[q] = page[q]
<1>1. page \in [Pages -> PageRecords]
  BY TypeNow
<1>2. /\ page' \in [Pages -> PageRecords] /\ page'[p] = r
      /\ \A q \in Pages : q # p => page'[q] = page[q]
  BY <1>1
<1>3. \A q \in Pages : SameLife(q)
  BY <1>2 DEF SameLife
<1>4. Calm
  BY <1>3 DEF Calm
<1> QED BY <1>2, <1>4, CalmLasting

LEMMA SameObjects ==
    ASSUME IInv, NEW q \in Pages, NEW a \in live, live' = live \ {a},
           NEW v, a.page # q \/ a.version # v
    PROVE  Objects(q, v)' = Objects(q, v)
BY DEF Objects

LEMMA StockIs ==
    ASSUME NEW q \in Pages, NEW v, page'[q].version = v,
           page'[q].obj_count = Cardinality(Objects(q, v)')
    PROVE  Stocked(q)'
BY DEF Stocked, Objects

\* extstore_delete, for an object whose page is open.
LEMMA DeleteObject ==
    ASSUME IInv, NEW a \in live, live' = live \ {a}, NEW p, p = a.page, ~page[p].closed,
           NEW v, v = a.version, page[p].version = v
    PROVE  /\ p \in Pages /\ ~page[p].free /\ page[p].obj_count >= 1
           /\ Cardinality(Objects(p, v)') = page[p].obj_count - 1
<1>1. a \in Addresses /\ p \in Pages /\ a.version # 0
  BY TypeNow, AddressFields
<1>2. page[p] \in PageRecords /\ PageOK(p) /\ Stocked(p)
  BY <1>1, TypeNow DEF PagesInv
<1>3. ~page[p].free
  BY <1>1, <1>2 DEF PageOK, FreePage
<1>4. PICK S : S = Objects(p, v)
  OBVIOUS
<1>5. a \in S /\ S \in SUBSET live /\ Objects(p, v)' = S \ {a}
  BY <1>4 DEF Objects
<1>6. IsFiniteSet(S)
  BY <1>5, FS_Subset DEF LiveFinite
<1>7. Cardinality(S \ {a}) = Cardinality(S) - 1 /\ Cardinality(S) \in Nat /\ Cardinality(S) # 0
  BY <1>5, <1>6, FS_RemoveElement, FS_CardinalityType, FS_EmptySet
<1>8. page[p].obj_count = Cardinality(S)
  BY <1>2, <1>3, <1>4 DEF Stocked
<1> QED BY <1>1, <1>3, <1>5, <1>7, <1>8

LEMMA Step_extstore_delete ==
    ASSUME IInv, NEW a \in live, extstore_delete(a)
    PROVE  IInv'
<1>1. PICK p, n : /\ p = a.page
                  /\ n = IF page[p].obj_count >= 1 THEN page[p].obj_count - 1 ELSE 0
  OBVIOUS
<1>2. /\ Unlocked(p) /\ live' = live \ {a}
      /\ IF ~page[p].closed /\ page[p].version = a.version
         THEN /\ page' = [page EXCEPT ![p].obj_count = n]
              /\ IF n = 0 THEN extstore_run_maint ELSE mpc' = mpc
         ELSE page' = page /\ mpc' = mpc
      /\ UNCHANGED <<disk, queue, cur_io, ipc, wpc, wp, scanVars>> /\ SameBuffers /\ SameEngine
  BY <1>1 DEF extstore_delete, SameBuffers, SameEngine, engineVars, bufVars, ioVars, writerVars
<1>3. a \in Addresses /\ p \in Pages /\ page \in [Pages -> PageRecords] /\ page[p] \in PageRecords
  BY <1>1, TypeNow, AddressFields
<1>4. PICK r : r = IF ~page[p].closed /\ page[p].version = a.version
                   THEN [page[p] EXCEPT !.obj_count = n] ELSE page[p]
  OBVIOUS
<1>5. n \in Nat
  BY <1>1, <1>3, PageFields
<1>6. /\ r \in PageRecords /\ page' = [page EXCEPT ![p] = r]
      /\ r.version = page[p].version /\ r.allocated = page[p].allocated
      /\ r.written = page[p].written /\ r.bucket = page[p].bucket /\ r.active = page[p].active
      /\ r.free = page[p].free /\ r.wbuf = page[p].wbuf
      /\ r.closed = page[p].closed /\ r.refcount = page[p].refcount
      /\ ~page[p].closed /\ page[p].version = a.version => r.obj_count = n
      /\ page[p].closed \/ page[p].version # a.version => r = page[p]
  <2>1. CASE ~page[p].closed /\ page[p].version = a.version
    <3>1. r = [page[p] EXCEPT !.obj_count = n]
      BY <1>4, <2>1
    <3>2. page' = [page EXCEPT ![p] = r]
      BY <1>2, <2>1, <3>1
    <3> QED BY <1>3, <1>5, <2>1, <3>1, <3>2 DEF PageRecords
  <2>2. CASE page[p].closed \/ page[p].version # a.version
    BY <1>2, <1>3, <1>4, <2>2
  <2> QED BY <2>1, <2>2
<1>7. /\ Calm /\ Lasting /\ page' \in [Pages -> PageRecords] /\ page'[p] = r
      /\ \A q \in Pages : q # p => page'[q] = page[q]
  BY <1>2, <1>3, <1>6, Minor
<1>8. mpc' \in {"wait", "decide", "scan", "scanfree", "evict"}
      /\ (mpc' = "scanfree" <=> mpc = "scanfree")
      /\ (mpc' = "scan" <=> mpc = "scan")
  BY <1>2, RunMaint, TypeNow
<1>9. TypeOK'
  BY <1>2, <1>7, <1>8, TypeNow DEF TypeOK, SameBuffers, SameEngine, scanVars
<1>10. ASSUME NEW q \in Pages PROVE PageOK(q)' /\ Counted(q)' /\ Stocked(q)'
  <2>1. SameLife(q)
    BY <1>7 DEF Calm
  <2>2. page'[q].refcount = page[q].refcount /\ page'[q].closed = page[q].closed
    BY <1>6, <1>7
  <2>3. Counted(q)'
    BY <1>2, <2>2, SameCount
  <2>4. CASE q # p \/ page[q].closed \/ page[q].version # a.version
    <3>1. page'[q] = page[q]
      BY <1>6, <1>7, <2>4
    <3>2. PageOK(q)'
      BY <1>7, <3>1, CalmPage
    <3>3. Stocked(q)
      BY DEF PagesInv
    <3>4. Stocked(q)'
      <4>1. CASE page[q].closed \/ page[q].free
        BY ONLY <3>1, <4>1 DEF Stocked
      <4>2. CASE ~page[q].closed /\ ~page[q].free
        <5>1. PICK v : v = page[q].version
          OBVIOUS
        <5>2. Objects(q, v)' = Objects(q, v)
          BY <1>1, <1>2, <2>4, <4>2, <5>1, SameObjects
        <5>3. page[q].obj_count = Cardinality(Objects(q, v))
          BY <3>3, <4>2, <5>1 DEF Stocked
        <5> QED BY <3>1, <5>1, <5>2, <5>3, StockIs
      <4> QED BY <4>1, <4>2
    <3> QED BY <2>3, <3>2, <3>4
  <2>5. CASE q = p /\ ~page[p].closed /\ page[p].version = a.version
    <3>0. PICK v : v = a.version
      OBVIOUS
    <3>1. /\ ~page[p].free /\ page[p].obj_count >= 1
          /\ Cardinality(Objects(p, v)') = page[p].obj_count - 1
      BY <1>1, <1>2, <2>5, <3>0, DeleteObject
    <3>2. PageOK(q)'
      BY <1>7, <2>2, <2>5, <3>1, CalmPage
    <3>3. page'[p].obj_count = page[p].obj_count - 1 /\ page'[p].version = v
      BY <1>1, <1>6, <1>7, <2>5, <3>0, <3>1
    <3>5. Stocked(q)'
      BY <2>5, <3>1, <3>3, StockIs
    <3> QED BY <2>3, <3>2, <3>5
  <2> QED BY <2>4, <2>5
<1>11. PagesInv'
  BY <1>7, <1>10, CalmPages DEF PagesInv
<1>12. IOInv'
  <2>1. WritesOnce' /\ Stays
    BY <1>2, <1>9, SamePlaces
  <2>2. IOsRight'
    BY <1>7, <1>9, <2>1, IOsKept
  <2>3. \A t \in IOThreads : Working(t)'
    BY <1>2, <1>7, CalmWorking
  <2>4. \A x \in live' : Within(x)'
    BY <1>2, <1>7, TypeNow DEF Lasting, IOInv
  <2> QED BY <2>1, <2>2, <2>3, <2>4 DEF IOInv
<1>13. Listed' /\ Buffered'
  BY <1>7, CalmLists
<1>14. \A c \in Buckets : WriterOK(c)'
  BY <1>2, <1>7, CalmWriter
<1>15. ScanOK'
  <2>1. mpc' = "scanfree" => page'[scan].obj_count = page[scan].obj_count
    BY <1>2, <1>7, <1>8, TypeNow DEF Unlocked
  <2> QED BY <1>2, <1>7, <1>8, <2>1, CalmScan
<1>16. LiveFinite'
  BY <1>2, FS_RemoveElement DEF LiveFinite
<1> QED BY <1>9, <1>11, <1>12, <1>13, <1>14, <1>15, <1>16

LEMMA Step_extstore_close_page ==
    ASSUME IInv, NEW p \in Pages, extstore_close_page(p)
    PROVE  IInv'
<1>1. PICK r : r = [page[p] EXCEPT !.closed = TRUE]
  OBVIOUS
<1>2. /\ Unlocked(p) /\ page[p].version # 0 /\ ~page[p].active
      /\ page' = [page EXCEPT ![p] = r] /\ extstore_run_maint
      /\ UNCHANGED <<disk, live, queue, cur_io, ipc, wpc, wp, scanVars>> /\ SameBuffers /\ SameEngine
  BY <1>1 DEF extstore_close_page, SameBuffers, SameEngine, engineVars, bufVars, ioVars, writerVars
<1>3. page[p] \in PageRecords /\ PageOK(p) /\ ~page[p].free
  BY <1>2, TypeNow DEF PagesInv, PageOK, FreePage
<1>4. /\ r \in PageRecords /\ r.version = page[p].version /\ r.allocated = page[p].allocated
      /\ r.written = page[p].written /\ r.bucket = page[p].bucket /\ r.active = page[p].active
      /\ r.free = page[p].free /\ r.wbuf = page[p].wbuf
      /\ r.closed /\ r.refcount = page[p].refcount /\ r.obj_count = page[p].obj_count
  BY <1>1, <1>3 DEF PageRecords
<1>5. /\ Calm /\ Lasting /\ page' \in [Pages -> PageRecords] /\ page'[p] = r
      /\ \A q \in Pages : q # p => page'[q] = page[q]
  BY <1>2, <1>4, Minor
<1>6. mpc' \in {"wait", "decide", "scan", "scanfree", "evict"}
      /\ (mpc' = "scanfree" <=> mpc = "scanfree")
      /\ (mpc' = "scan" <=> mpc = "scan")
  BY <1>2, RunMaint, TypeNow
<1>7. TypeOK'
  BY <1>2, <1>5, <1>6, TypeNow DEF TypeOK, SameBuffers, SameEngine, scanVars
<1>8. ASSUME NEW q \in Pages PROVE PageOK(q)' /\ Counted(q)' /\ Stocked(q)'
  <2>1. SameLife(q)
    BY <1>5 DEF Calm
  <2>2. /\ page'[q].refcount = page[q].refcount /\ page'[q].obj_count = page[q].obj_count
        /\ page[q].closed => page'[q].closed
    BY <1>4, <1>5
  <2>3. Counted(q)' /\ Stocked(q)'
    BY <1>2, <2>1, <2>2, SameCount, SameStock
  <2>4. PageOK(q)'
    <3>1. CASE q = p
      BY <1>2, <1>3, <1>5, <3>1, CalmPage
    <3>2. CASE q # p
      BY <1>5, <3>2, CalmPage
    <3> QED BY <3>1, <3>2
  <2> QED BY <2>3, <2>4
<1>9. PagesInv'
  BY <1>5, <1>8, CalmPages DEF PagesInv
<1>10. IOInv'
  <2>1. WritesOnce' /\ Stays
    BY <1>2, <1>7, SamePlaces
  <2>2. IOsRight'
    BY <1>5, <1>7, <2>1, IOsKept
  <2>3. \A t \in IOThreads : Working(t)'
    BY <1>2, <1>5, CalmWorking
  <2>4. \A x \in live' : Within(x)'
    BY <1>2, <1>5, TypeNow DEF Lasting, IOInv
  <2> QED BY <2>1, <2>2, <2>3, <2>4 DEF IOInv
<1>11. Listed' /\ Buffered'
  BY <1>5, CalmLists
<1>12. \A c \in Buckets : WriterOK(c)'
  BY <1>2, <1>5, CalmWriter
<1>13. ScanOK'
  <2>1. mpc' = "scanfree" => page'[scan].obj_count = page[scan].obj_count
    BY <1>2, <1>5, <1>6, TypeNow DEF Unlocked
  <2> QED BY <1>2, <1>5, <1>6, <2>1, CalmScan
<1>14. LiveFinite'
  BY <1>2 DEF LiveFinite
<1> QED BY <1>7, <1>9, <1>10, <1>11, <1>12, <1>13, <1>14

LEMMA Step_StartPread ==
    ASSUME IInv, NEW t \in IOThreads, StartPread(t)
    PROVE  IInv'
<1>1. PICK io, a, p : io = Head(queue[t]) /\ a = io.data /\ p = a.page
  OBVIOUS
<1>2. PICK r : r = [page[p] EXCEPT !.refcount = page[p].refcount + 1]
  OBVIOUS
<1>3. /\ ipc[t] = "idle" /\ queue[t] # <<>> /\ io.mode = "read"
      /\ Unlocked(p) /\ Readable(a) /\ ~InWbuf(a)
      /\ page' = [page EXCEPT ![p] = r]
      /\ queue' = [queue EXCEPT ![t] = Tail(queue[t])]
      /\ cur_io' = [cur_io EXCEPT ![t] = Head(queue[t])]
      /\ ipc' = [ipc EXCEPT ![t] = "pread"]
      /\ UNCHANGED <<disk, live, wpc, wp, mpc, scanVars>> /\ SameBuffers /\ SameEngine
  BY <1>1, <1>2, TypeNow DEF StartPread, Serves, SameBuffers, SameEngine, engineVars, bufVars, writerVars
<1>4. cur_io[t] = None
  BY <1>3 DEF IOInv, Working
<1>5. queue[t] \in Seq(IOs) /\ Tail(queue[t]) \in Seq(IOs) /\ io \in IOs
  <2>1. queue[t] \in Seq(IOs)
    BY TypeNow
  <2> QED BY <1>1, <1>3, <2>1, HeadTailProperties
<1>6. a \in Addresses /\ p \in Pages /\ io.page = p /\ page[p] \in PageRecords
  <2>1. a \in Addresses
    BY <1>1, <1>3, <1>5, IOFields
  <2>2. 1 \in Places(t) /\ IOAt(t, 1) = io
    BY <1>1, <1>3, <1>5, EmptySeq DEF Places, IOAt
  <2>3. ReadOK(io)
    BY <1>3, <2>2 DEF IOInv, IOsRight
  <2> QED BY <1>1, <2>1, <2>3, AddressFields, TypeNow DEF ReadOK
<1>7. /\ PageOK(p) /\ ~page[p].free /\ page[p].version = a.version
      /\ page[p].active => a.offset < page[p].written
  <2>1. PageOK(p)
    BY <1>6 DEF PagesInv
  <2>2. ~page[p].free /\ page[p].version = a.version
    BY <1>1, <1>3 DEF Readable
  <2>3. a.offset \in Nat /\ page[p].written \in Nat
    BY <1>6, AddressFields, PageFields
  <2>4. page[p].active => ~(a.offset >= page[p].written)
    BY <1>1, <1>3 DEF InWbuf
  <2> QED BY <2>1, <2>2, <2>3, <2>4
<1>8. a.offset < page[p].written
  BY <1>6, <1>7, AddressFields DEF PageOK
<1>9. /\ r \in PageRecords /\ r.version = page[p].version /\ r.allocated = page[p].allocated
      /\ r.written = page[p].written /\ r.bucket = page[p].bucket /\ r.active = page[p].active
      /\ r.free = page[p].free /\ r.wbuf = page[p].wbuf
      /\ r.closed = page[p].closed /\ r.refcount = page[p].refcount + 1
      /\ r.obj_count = page[p].obj_count
  <2>1. page[p].refcount + 1 \in Nat
    BY <1>6, PageFields
  <2> QED BY <1>2, <1>6, <2>1 DEF PageRecords
<1>10. /\ Calm /\ Lasting /\ page' \in [Pages -> PageRecords] /\ page'[p] = r
       /\ \A q \in Pages : q # p => page'[q] = page[q]
  BY <1>3, <1>6, <1>9, Minor
<1>11. /\ queue' \in [IOThreads -> Seq(IOs)] /\ cur_io' \in [IOThreads -> IOs \cup {None}]
       /\ ipc' \in [IOThreads -> {"idle", "pread", "wbuf_cb"}]
       /\ cur_io'[t] = io /\ ipc'[t] = "pread"
       /\ \A u \in IOThreads : u # t => cur_io'[u] = cur_io[u] /\ ipc'[u] = ipc[u]
  BY <1>1, <1>3, <1>5, TypeNow
<1>12. TypeOK'
  BY <1>3, <1>10, <1>11, TypeNow DEF TypeOK, SameBuffers, SameEngine, scanVars
<1>13. ASSUME NEW q \in Pages PROVE PageOK(q)' /\ Counted(q)' /\ Stocked(q)'
  <2>1. SameLife(q)
    BY <1>10 DEF Calm
  <2>2. page'[q].obj_count = page[q].obj_count /\ page'[q].closed = page[q].closed
    BY <1>9, <1>10
  <2>3. Stocked(q)'
    BY <1>3, <2>1, <2>2, SameStock
  <2>4. PageOK(q)'
    BY <1>7, <1>10, <2>2, CalmPage
  <2>5. Counted(q)
    BY DEF PagesInv
  <2>6. CASE q # p
    <3>1. Readers(q)' = Readers(q)
      BY <1>3, <1>6, <1>11, <2>6 DEF Readers
    <3> QED BY <1>10, <2>3, <2>4, <2>5, <2>6, <3>1 DEF Counted
  <2>7. CASE q = p
    <3>1. Readers(q)' = Readers(q) \cup {t} /\ t \notin Readers(q) /\ Readers(q) \in SUBSET IOThreads
      BY <1>3, <1>6, <1>11, <2>7 DEF Readers
    <3>2. IsFiniteSet(Readers(q))
      BY <3>1, FS_Subset
    <3>3. Cardinality(Readers(q) \cup {t}) = Cardinality(Readers(q)) + 1
      BY <3>1, <3>2, FS_AddElement
    <3> QED BY <1>9, <1>10, <2>3, <2>4, <2>5, <2>7, <3>1, <3>3 DEF Counted
  <2> QED BY <2>6, <2>7
<1>14. PagesInv'
  BY <1>10, <1>13, CalmPages DEF PagesInv
<1>15. IOInv'
  <2>1. WritesOnce' /\ Stays
    BY <1>3, <1>4, <1>12, Served
  <2>2. IOsRight'
    BY <1>10, <1>12, <2>1, IOsKept
  <2>3. ASSUME NEW u \in IOThreads PROVE Working(u)'
    <3>1. CASE u # t
      BY <1>10, <1>11, <3>1, CalmWorking
    <3>2. CASE u = t
      <4>1. page'[p].version = a.version /\ page'[p].written = page[p].written
        BY <1>7, <1>9, <1>10
      <4>2. io # None
        BY <1>5
      <4> QED BY <1>1, <1>3, <1>6, <1>8, <1>11, <3>2, <4>1, <4>2 DEF Working
    <3> QED BY <3>1, <3>2
  <2>4. \A x \in live' : Within(x)'
    BY <1>3, <1>10, TypeNow DEF Lasting, IOInv
  <2> QED BY <2>1, <2>2, <2>3, <2>4 DEF IOInv
<1>16. Listed' /\ Buffered'
  BY <1>10, CalmLists
<1>17. \A c \in Buckets : WriterOK(c)'
  BY <1>3, <1>10, CalmWriter
<1>18. ScanOK'
  BY <1>3, <1>9, <1>10, CalmScan, TypeNow
<1>19. LiveFinite'
  BY <1>3 DEF LiveFinite
<1> QED BY <1>12, <1>14, <1>15, <1>16, <1>17, <1>18, <1>19

LEMMA Step_EndPread ==
    ASSUME IInv, NEW t \in IOThreads, EndPread(t)
    PROVE  IInv'
<1>1. PICK p : p = cur_io[t].page
  OBVIOUS
<1>2. PICK r : r = [page[p] EXCEPT !.refcount = page[p].refcount - 1]
  OBVIOUS
<1>3. /\ ipc[t] = "pread" /\ page' = [page EXCEPT ![p] = r]
      /\ cur_io' = [cur_io EXCEPT ![t] = None] /\ ipc' = [ipc EXCEPT ![t] = "idle"]
      /\ UNCHANGED <<disk, queue, live, wpc, wp, mpc, scanVars>> /\ SameBuffers /\ SameEngine
  BY <1>1, <1>2 DEF EndPread, SameBuffers, SameEngine, engineVars, bufVars, writerVars
<1>4. /\ cur_io[t] \in IOs /\ p \in Pages /\ page[p] \in PageRecords /\ PageOK(p)
      /\ page[p].version = cur_io[t].data.version /\ cur_io[t].data \in Addresses
  <2>1. /\ cur_io[t] \in IOs /\ page[p].version = cur_io[t].data.version
        /\ cur_io[t].mode = "read"
    BY <1>1, <1>3, TypeNow DEF IOInv, Working
  <2> QED BY <1>1, <2>1, IOFields, TypeNow DEF PagesInv
<1>5. ~page[p].free
  BY <1>4, AddressFields DEF PageOK, FreePage
<1>6. /\ t \in Readers(p) /\ Readers(p) \in SUBSET IOThreads /\ IsFiniteSet(Readers(p))
      /\ Cardinality(Readers(p) \ {t}) = Cardinality(Readers(p)) - 1
      /\ Cardinality(Readers(p)) \in Nat \ {0} /\ page[p].refcount = Cardinality(Readers(p))
  <2>1. t \in Readers(p) /\ Readers(p) \in SUBSET IOThreads
    BY <1>1, <1>3 DEF Readers
  <2>2. IsFiniteSet(Readers(p))
    BY <2>1, FS_Subset
  <2>3. Counted(p)
    BY <1>4 DEF PagesInv
  <2> QED BY <2>1, <2>2, <2>3, FS_RemoveElement, FS_CardinalityType, FS_EmptySet DEF Counted
<1>7. /\ r \in PageRecords /\ r.version = page[p].version /\ r.allocated = page[p].allocated
      /\ r.written = page[p].written /\ r.bucket = page[p].bucket /\ r.active = page[p].active
      /\ r.free = page[p].free /\ r.wbuf = page[p].wbuf
      /\ r.closed = page[p].closed /\ r.refcount = page[p].refcount - 1
      /\ r.obj_count = page[p].obj_count
  <2>1. page[p].refcount - 1 \in Nat
    BY <1>6
  <2> QED BY <1>2, <1>4, <2>1 DEF PageRecords
<1>8. /\ Calm /\ Lasting /\ page' \in [Pages -> PageRecords] /\ page'[p] = r
      /\ \A q \in Pages : q # p => page'[q] = page[q]
  BY <1>3, <1>4, <1>7, Minor
<1>9. /\ cur_io' \in [IOThreads -> IOs \cup {None}]
      /\ ipc' \in [IOThreads -> {"idle", "pread", "wbuf_cb"}]
      /\ cur_io'[t] = None /\ ipc'[t] = "idle"
      /\ \A u \in IOThreads : u # t => cur_io'[u] = cur_io[u] /\ ipc'[u] = ipc[u]
  BY <1>3, TypeNow
<1>10. TypeOK'
  BY <1>3, <1>8, <1>9, TypeNow DEF TypeOK, SameBuffers, SameEngine, scanVars
<1>11. ASSUME NEW q \in Pages PROVE PageOK(q)' /\ Counted(q)' /\ Stocked(q)'
  <2>1. SameLife(q)
    BY <1>8 DEF Calm
  <2>2. page'[q].obj_count = page[q].obj_count /\ page'[q].closed = page[q].closed
    BY <1>7, <1>8
  <2>3. Stocked(q)'
    BY <1>3, <2>1, <2>2, SameStock
  <2>4. PageOK(q)'
    BY <1>5, <1>8, <2>2, CalmPage
  <2>5. Counted(q)
    BY DEF PagesInv
  <2>6. CASE q # p
    <3>1. Readers(q)' = Readers(q)
      BY <1>1, <1>3, <1>9, <2>6 DEF Readers
    <3> QED BY <1>8, <2>3, <2>4, <2>5, <2>6, <3>1 DEF Counted
  <2>7. CASE q = p
    <3>1. Readers(q)' = Readers(q) \ {t}
      BY <1>3, <1>9, <2>7 DEF Readers
    <3> QED BY <1>6, <1>7, <1>8, <2>3, <2>4, <2>7, <3>1 DEF Counted
  <2> QED BY <2>6, <2>7
<1>12. PagesInv'
  BY <1>8, <1>11, CalmPages DEF PagesInv
<1>13. IOInv'
  <2>1. WritesOnce' /\ Stays
    BY <1>3, <1>10, Ended
  <2>2. IOsRight'
    BY <1>8, <1>10, <2>1, IOsKept
  <2>3. ASSUME NEW u \in IOThreads PROVE Working(u)'
    <3>1. CASE u # t
      BY <1>8, <1>9, <3>1, CalmWorking
    <3>2. CASE u = t
      BY <1>9, <3>2 DEF Working
    <3> QED BY <3>1, <3>2
  <2>4. \A x \in live' : Within(x)'
    BY <1>3, <1>8, TypeNow DEF Lasting, IOInv
  <2> QED BY <2>1, <2>2, <2>3, <2>4 DEF IOInv
<1>14. Listed' /\ Buffered'
  BY <1>8, CalmLists
<1>15. \A c \in Buckets : WriterOK(c)'
  BY <1>3, <1>8, CalmWriter
<1>16. ScanOK'
  BY <1>3, <1>7, <1>8, CalmScan, TypeNow
<1>17. LiveFinite'
  BY <1>3 DEF LiveFinite
<1> QED BY <1>10, <1>12, <1>13, <1>14, <1>15, <1>16, <1>17

-----------------------------------------------------------------------------
(* Flushes.                                                                *)

\* What a pending write says of its page.
LEMMA WriteFacts ==
    ASSUME IInv, NEW io \in IOs, io.mode = "write", WriteOK(io), NEW p, p = io.page,
           NEW w, w = io.data
    PROVE  /\ p \in Pages /\ w \in Wbufs /\ page[p] \in PageRecords /\ page[p].wbuf = w
           /\ page[p].active /\ ~page[p].free /\ page[p].allocated = page[p].written + WbufSize
           /\ page[p].written + WbufSize <= PageSize /\ page[p].written \in Nat
           /\ wbuf[w] \in WbufRecords /\ wbuf[w].full /\ wbuf[w].offset = page[p].written
           /\ wbuf[w].buf \in Seq(Addresses) /\ Len(wbuf[w].buf) = WbufSize
           /\ \A i \in 1 .. WbufSize :
                wbuf[w].buf[i] = Addr(p, page[p].version, page[p].written + (i - 1))
<1>1. p \in Pages /\ w \in Wbufs
  BY IOFields
<1>2. page[p] \in PageRecords /\ wbuf[w] \in WbufRecords /\ PageOK(p) /\ BufferOK(p)
  BY <1>1, TypeNow DEF PagesInv
<1>3. page[p].wbuf = w /\ wbuf[w].full /\ w # None
  BY <1>1 DEF WriteOK
<1>4. page[p].active /\ ~page[p].free /\ page[p].allocated = page[p].written + WbufSize
  BY <1>2, <1>3 DEF PageOK
<1>5. page[p].written + WbufSize <= PageSize /\ page[p].written \in Nat
  BY <1>2, <1>4, PageFields
<1>6. /\ wbuf[w].offset = page[p].written /\ Len(wbuf[w].buf) = WbufSize
      /\ \A i \in 1 .. WbufSize :
           wbuf[w].buf[i] = Addr(p, page[p].version, page[p].written + (i - 1))
  BY <1>2, <1>3 DEF BufferOK
<1>7. wbuf[w].buf \in Seq(Addresses)
  BY <1>2 DEF WbufRecords
<1> QED BY <1>1, <1>2, <1>3, <1>4, <1>5, <1>6, <1>7

\* pwrite puts the buffer of a page to the disk, after the objects already there.
Flushed(p, f) ==
    /\ f \in [0 .. PageSize - 1 -> Addresses \cup {None}]
    /\ \A o \in 0 .. page[p].written - 1 : f[o] = disk[p][o]
    /\ \A o \in page[p].written .. page[p].written + WbufSize - 1 :
         f[o] = Addr(p, page[p].version, o)

LEMMA PwritePuts ==
    ASSUME IInv, NEW io \in IOs, io.mode = "write", WriteOK(io), NEW p, p = io.page,
           NEW w, w = wbuf[io.data],
           NEW f, f = [o \in 0 .. PageSize - 1 |->
                  IF o \in w.offset .. w.offset + WbufSize - 1
                  THEN IF o - w.offset < Len(w.buf) THEN w.buf[o - w.offset + 1] ELSE None
                  ELSE disk[p][o]]
    PROVE  Flushed(p, f)
<1>1. PICK x : x = io.data
  OBVIOUS
<1>2. /\ p \in Pages /\ x \in Wbufs /\ page[p].written + WbufSize <= PageSize
      /\ page[p].written \in Nat /\ w.offset = page[p].written
      /\ w.buf \in Seq(Addresses) /\ Len(w.buf) = WbufSize
      /\ \A i \in 1 .. WbufSize :
                w.buf[i] = Addr(p, page[p].version, page[p].written + (i - 1))
  <2>1. /\ p \in Pages /\ x \in Wbufs /\ page[p].written + WbufSize <= PageSize
        /\ page[p].written \in Nat /\ wbuf[x].offset = page[p].written
        /\ wbuf[x].buf \in Seq(Addresses) /\ Len(wbuf[x].buf) = WbufSize
        /\ \A i \in 1 .. WbufSize :
             wbuf[x].buf[i] = Addr(p, page[p].version, page[p].written + (i - 1))
    <3>1. IInv
      OBVIOUS
    <3> HIDE DEF IInv
    <3> QED BY ONLY <1>1, <3>1, io \in IOs, io.mode = "write", WriteOK(io), p = io.page, WriteFacts
  <2>2. w = wbuf[x]
    BY <1>1
  <2> QED BY ONLY <2>1, <2>2
<1>3. PICK n \in Nat : n = page[p].written
  BY <1>2
<1>4. disk[p] \in [0 .. PageSize - 1 -> Addresses \cup {None}]
  BY <1>2, TypeNow
<1>5. ASSUME NEW o \in n .. n + WbufSize - 1
      PROVE  /\ f[o] = Addr(p, page[p].version, o) /\ f[o] \in Addresses
  <2>1. o \in 0 .. PageSize - 1 /\ o - n + 1 \in 1 .. WbufSize /\ o - n < WbufSize
    <3>1. n + WbufSize <= PageSize /\ n \in Nat /\ WbufSize \in Nat /\ PageSize \in Nat
      BY <1>2, <1>3
    <3> QED BY ONLY <3>1, o \in n .. n + WbufSize - 1
  <2>2. f[o] = w.buf[o - n + 1]
    BY <1>2, <1>3, <2>1
  <2>3. w.buf[o - n + 1] = Addr(p, page[p].version, n + ((o - n + 1) - 1))
    BY <1>2, <1>3, <2>1
  <2>4. n + ((o - n + 1) - 1) = o
    BY <1>3
  <2>5. w.buf[o - n + 1] \in Addresses
    BY <1>2, <2>1, ElementOfSeq
  <2> QED BY <2>2, <2>3, <2>4, <2>5
<1>6. ASSUME NEW o \in 0 .. PageSize - 1, o \notin n .. n + WbufSize - 1
      PROVE  f[o] = disk[p][o] /\ f[o] \in Addresses \cup {None}
  BY <1>2, <1>3, <1>4, <1>6
<1>7. f \in [0 .. PageSize - 1 -> Addresses \cup {None}]
  <2>1. \A o \in 0 .. PageSize - 1 : f[o] \in Addresses \cup {None}
    BY <1>5, <1>6
  <2> QED BY <2>1
<1>8. \A o \in 0 .. n - 1 : o \in 0 .. PageSize - 1 /\ o \notin n .. n + WbufSize - 1
  BY <1>2, <1>3
<1> QED BY <1>3, <1>5, <1>6, <1>7, <1>8 DEF Flushed

LEMMA Step_Pwrite ==
    ASSUME IInv, NEW t \in IOThreads, Pwrite(t)
    PROVE  IInv'
<1>1. PICK io, p : io = Head(queue[t]) /\ p = io.page
  OBVIOUS
<1>2. PICK w : w = wbuf[io.data]
  OBVIOUS
<1>3. PICK f : f = [o \in 0 .. PageSize - 1 |->
                  IF o \in w.offset .. w.offset + WbufSize - 1
                  THEN IF o - w.offset < Len(w.buf) THEN w.buf[o - w.offset + 1] ELSE None
                  ELSE disk[p][o]]
  OBVIOUS
<1>4. /\ ipc[t] = "idle" /\ queue[t] # <<>> /\ io.mode = "write"
      /\ disk' = [disk EXCEPT ![p] = f]
  BY <1>1, <1>2, <1>3 DEF Pwrite, Serves
<1>5. /\ queue' = [queue EXCEPT ![t] = Tail(queue[t])]
      /\ cur_io' = [cur_io EXCEPT ![t] = Head(queue[t])]
      /\ ipc' = [ipc EXCEPT ![t] = "wbuf_cb"]
      /\ UNCHANGED <<page, live, wpc, wp, mpc, scanVars>> /\ SameBuffers /\ SameEngine
  BY TypeNow DEF Pwrite, SameBuffers, SameEngine, engineVars, bufVars, writerVars
<1>6. cur_io[t] = None
  BY <1>4 DEF IOInv, Working
<1>7. queue[t] \in Seq(IOs) /\ Tail(queue[t]) \in Seq(IOs) /\ io \in IOs
  <2>1. queue[t] \in Seq(IOs)
    BY TypeNow
  <2> QED BY <1>1, <1>4, <2>1, HeadTailProperties
<1>8. 1 \in Places(t) /\ IOAt(t, 1) = io /\ WriteOK(io)
  <2>1. 1 \in Places(t) /\ IOAt(t, 1) = io
    BY <1>1, <1>4, <1>7, EmptySeq DEF Places, IOAt
  <2> QED BY <1>4, <2>1 DEF IOInv, IOsRight
<1>9. Flushed(p, f) /\ p \in Pages
  BY <1>1, <1>2, <1>3, <1>4, <1>7, <1>8, PwritePuts, IOFields
<1>10. /\ disk' \in [Pages -> [0 .. PageSize - 1 -> Addresses \cup {None}]] /\ disk'[p] = f
       /\ \A q \in Pages : q # p => disk'[q] = disk[q]
  BY <1>4, <1>9, TypeNow DEF Flushed
<1>11. /\ queue' \in [IOThreads -> Seq(IOs)] /\ cur_io' \in [IOThreads -> IOs \cup {None}]
       /\ ipc' \in [IOThreads -> {"idle", "pread", "wbuf_cb"}]
       /\ cur_io'[t] = io /\ ipc'[t] = "wbuf_cb"
       /\ \A u \in IOThreads : u # t => cur_io'[u] = cur_io[u] /\ ipc'[u] = ipc[u]
  BY <1>1, <1>5, <1>7, TypeNow
<1>12. TypeOK'
  BY <1>5, <1>10, <1>11, TypeNow DEF TypeOK, SameBuffers, SameEngine, scanVars
<1>13. ASSUME NEW q \in Pages
       PROVE  PageOK(q)' /\ BufferOK(q)' /\ DiskOK(q)' /\ Counted(q)' /\ Stocked(q)'
  <2>1. PageOK(q) /\ BufferOK(q) /\ DiskOK(q) /\ Counted(q) /\ Stocked(q)
    BY DEF PagesInv
  <2>2. page' = page /\ version' = version /\ wbuf' = wbuf /\ live' = live
    BY <1>5 DEF SameBuffers, SameEngine
  <2>3. PageOK(q)' /\ BufferOK(q)' /\ Stocked(q)'
    BY ONLY <2>1, <2>2 DEF PageOK, BufferOK, Stocked, Objects
  <2>4. Readers(q)' = Readers(q)
    BY <1>4, <1>11 DEF Readers
  <2>5. Counted(q)'
    BY <2>1, <2>2, <2>4 DEF Counted
  <2>6. DiskOK(q)'
    <3>1. CASE q # p
      BY <1>10, <2>1, <2>2, <3>1 DEF DiskOK
    <3>2. CASE q = p
      BY <1>9, <1>10, <2>1, <2>2, <3>2 DEF DiskOK, Flushed
    <3> QED BY <3>1, <3>2
  <2> QED BY <2>3, <2>5, <2>6
<1>14. PagesInv'
  BY <1>13 DEF PagesInv
<1>15. Lasting
  <2>1. page' = page /\ version' = version /\ wbuf' = wbuf
    BY <1>5 DEF SameBuffers, SameEngine
  <2> QED BY ONLY <2>1 DEF Lasting, WriteOK, Within, Filled
<1>16. IOInv'
  <2>1. WritesOnce' /\ Stays
    BY <1>5, <1>4, <1>6, <1>12, Served
  <2>2. IOsRight'
    BY <1>12, <1>15, <2>1, IOsKept
  <2>3. ASSUME NEW u \in IOThreads PROVE Working(u)'
    <3>1. CASE u = t
      BY <1>1, <1>4, <1>5, <1>7, <1>9, <1>10, <1>11, <3>1 DEF Working, Flushed
    <3>2. CASE u # t
      <4>1. Working(u) /\ cur_io'[u] = cur_io[u] /\ ipc'[u] = ipc[u] /\ page' = page
        BY <1>5, <1>11, <3>2 DEF IOInv
      <4>2. CASE ipc[u] # "wbuf_cb"
        BY <4>1, <4>2 DEF Working
      <4>3. CASE ipc[u] = "wbuf_cb"
        <5>1. cur_io[u] \in IOs /\ cur_io[u].mode = "write"
          BY <4>1, <4>3, TypeNow DEF Working
        <5>2. 0 \in Places(u) /\ IOAt(u, 0) = cur_io[u]
          BY <5>1, TypeNow DEF Places, IOAt
        <5>3. cur_io[u].page # p
          BY <1>1, <1>4, <1>8, <3>2, <5>1, <5>2 DEF IOInv, WritesOnce
        <5>4. disk'[cur_io[u].page] = disk[cur_io[u].page]
          BY <1>10, <5>1, <5>3, IOFields
        <5> QED BY <4>1, <4>3, <5>4 DEF Working
      <4> QED BY <4>2, <4>3
    <3> QED BY <3>1, <3>2
  <2>4. \A x \in live' : Within(x)'
    BY <1>5, <1>15, TypeNow DEF Lasting, IOInv
  <2> QED BY <2>1, <2>2, <2>3, <2>4 DEF IOInv
<1>17. Listed' /\ Buffered'
  BY <1>5 DEF Listed, Buffered, FullPages, SameBuffers, SameEngine
<1>18. \A c \in Buckets : WriterOK(c)'
  BY <1>5 DEF WriterOK, SameEngine
<1>19. ScanOK' /\ LiveFinite'
  BY <1>5 DEF ScanOK, LiveFinite, SameEngine, scanVars
<1> QED BY <1>12, <1>14, <1>16, <1>17, <1>18, <1>19

-----------------------------------------------------------------------------
(* Lists without repetition.                                               *)

LEMMA PushOnce ==
    ASSUME NEW S, NEW s \in Seq(S), NEW x \in S, Once(s), ~In(x, s), NEW r, r = <<x>> \o s
    PROVE  /\ r \in Seq(S) /\ r # <<>> /\ Head(r) = x /\ Len(r) = Len(s) + 1
           /\ Once(r) /\ \A y : In(y, r) <=> y = x \/ In(y, s)
<1>1. <<x>> \in Seq(S) /\ Len(<<x>>) = 1 /\ <<x>>[1] = x /\ Len(s) \in Nat /\ DOMAIN s = 1 .. Len(s)
  OBVIOUS
<1>2. /\ r \in Seq(S) /\ Len(r) = 1 + Len(s) /\ DOMAIN r = 1 .. Len(s) + 1
      /\ \A i \in 1 .. Len(s) + 1 : r[i] = IF i <= 1 THEN <<x>>[i] ELSE s[i - 1]
  BY <1>1, ConcatProperties
<1>3. r[1] = x /\ \A i \in 2 .. Len(s) + 1 : r[i] = s[i - 1] /\ i - 1 \in DOMAIN s
  BY <1>1, <1>2
<1>4. \A j \in DOMAIN s : j + 1 \in 2 .. Len(s) + 1 /\ (j + 1) - 1 = j /\ s[j] = r[j + 1]
  BY <1>1, <1>3
<1>5. Once(r)
  <2> SUFFICES ASSUME NEW i \in DOMAIN r, NEW j \in DOMAIN r, r[i] = r[j] PROVE i = j
    BY DEF Once
  <2>1. CASE i = 1 /\ j # 1
    <3>1. j \in 2 .. Len(s) + 1
      BY <1>1, <1>2, <2>1
    <3> QED BY <1>3, <2>1, <3>1 DEF In
  <2>2. CASE i # 1 /\ j = 1
    <3>1. i \in 2 .. Len(s) + 1
      BY <1>1, <1>2, <2>2
    <3> QED BY <1>3, <2>2, <3>1 DEF In
  <2>3. CASE i # 1 /\ j # 1
    <3>1. i \in 2 .. Len(s) + 1 /\ j \in 2 .. Len(s) + 1
      BY <1>1, <1>2, <2>3
    <3>2. i - 1 = j - 1
      BY <1>3, <3>1 DEF Once
    <3> QED BY <3>1, <3>2
  <2> QED BY <2>1, <2>2, <2>3
<1>6. ASSUME NEW y PROVE In(y, r) <=> y = x \/ In(y, s)
  <2>1. ASSUME In(y, r), y # x PROVE In(y, s)
    <3>1. PICK i \in DOMAIN r : r[i] = y
      BY <2>1 DEF In
    <3>2. i \in 2 .. Len(s) + 1
      BY <1>1, <1>2, <1>3, <2>1, <3>1
    <3> QED BY <1>3, <3>1, <3>2 DEF In
  <2>2. ASSUME y = x PROVE In(y, r)
    <3>1. 1 \in DOMAIN r
      BY <1>1, <1>2
    <3> QED BY <1>3, <2>2, <3>1 DEF In
  <2>3. ASSUME In(y, s) PROVE In(y, r)
    <3>1. PICK j \in DOMAIN s : s[j] = y
      BY <2>3 DEF In
    <3>2. j + 1 \in DOMAIN r
      BY <1>1, <1>2
    <3> QED BY <1>4, <3>1, <3>2 DEF In
  <2> QED BY <2>1, <2>2, <2>3
<1>7. r # <<>> /\ Head(r) = x
  BY <1>1, <1>2, <1>3
<1> QED BY <1>1, <1>2, <1>5, <1>6, <1>7

LEMMA TailOnce ==
    ASSUME NEW S, NEW s \in Seq(S), s # <<>>, Once(s), NEW r, r = Tail(s)
    PROVE  /\ r \in Seq(S) /\ Len(r) = Len(s) - 1 /\ Head(s) \in S /\ In(Head(s), s)
           /\ Once(r) /\ \A y : In(y, r) <=> In(y, s) /\ y # Head(s)
<1>1. /\ Len(s) \in Nat \ {0} /\ DOMAIN s = 1 .. Len(s) /\ Head(s) = s[1] /\ Head(s) \in S
      /\ r \in Seq(S) /\ Len(r) = Len(s) - 1 /\ DOMAIN r = 1 .. Len(s) - 1
      /\ \A i \in 1 .. Len(s) - 1 : r[i] = s[i + 1]
  BY HeadTailProperties, EmptySeq
<1>2. 1 \in DOMAIN s /\ \A i \in DOMAIN r : i + 1 \in DOMAIN s /\ i + 1 # 1 /\ r[i] = s[i + 1]
  BY <1>1
<1>3. Once(r)
  <2> SUFFICES ASSUME NEW i \in DOMAIN r, NEW j \in DOMAIN r, r[i] = r[j] PROVE i = j
    BY DEF Once
  <2>1. i + 1 = j + 1
    BY <1>2 DEF Once
  <2> QED BY <1>1, <2>1
<1>4. ASSUME NEW y PROVE In(y, r) <=> In(y, s) /\ y # Head(s)
  <2>1. ASSUME In(y, r) PROVE In(y, s) /\ y # Head(s)
    <3>1. PICK i \in DOMAIN r : r[i] = y
      BY <2>1 DEF In
    <3>2. y # s[1]
      BY <1>2, <3>1 DEF Once
    <3> QED BY <1>1, <1>2, <3>1, <3>2 DEF In
  <2>2. ASSUME In(y, s), y # Head(s) PROVE In(y, r)
    <3>1. PICK i \in DOMAIN s : s[i] = y
      BY <2>2 DEF In
    <3>2. i - 1 \in DOMAIN r /\ (i - 1) + 1 = i
      BY <1>1, <2>2, <3>1
    <3>3. r[i - 1] = y
      BY <1>2, <3>1, <3>2
    <3> QED BY <3>2, <3>3 DEF In
  <2> QED BY <2>1, <2>2
<1> QED BY <1>1, <1>2, <1>3, <1>4 DEF In

\* _free_page takes a page out of the list of its bucket.
LEMMA UnlinkOnce ==
    ASSUME NEW S, NEW s \in Seq(S), Once(s), NEW p, NEW r, r = Unlinked(s, p)
    PROVE  /\ r \in Seq(S) /\ Once(r) /\ \A y : In(y, r) <=> In(y, s) /\ y # p
           /\ s # <<>> /\ Head(s) # p => r # <<>> /\ Head(r) = Head(s)
<1>1. Len(s) \in Nat /\ DOMAIN s = 1 .. Len(s)
  OBVIOUS
<1>2. CASE ~In(p, s)
  BY <1>2 DEF In, Unlinked
<1>3. CASE In(p, s)
  <2>1. PICK k \in DOMAIN s : s[k] = p
    BY <1>3 DEF In
  <2>2. \A j \in 1 .. k - 1 : s[j] # p
    <3> SUFFICES ASSUME NEW j \in 1 .. k - 1, s[j] = p PROVE FALSE
      OBVIOUS
    <3>1. j \in DOMAIN s /\ j # k
      BY <1>1, <2>1
    <3> QED BY <2>1, <3>1 DEF Once
  <2>3. \A i \in DOMAIN s : s[i] = p => i = k
    BY <2>1 DEF Once
  <2>4. (CHOOSE i \in DOMAIN s : s[i] = p /\ \A j \in 1 .. i - 1 : s[j] # p) = k
    BY <2>1, <2>2, <2>3
  <2>5. r = SubSeq(s, 1, k - 1) \o SubSeq(s, k + 1, Len(s))
    BY <1>3, <2>4 DEF Unlinked, In
  <2>6. k \in 1 .. Len(s)
    BY <1>1, <2>1
  <2>7. PICK u, v : u = SubSeq(s, 1, k - 1) /\ v = SubSeq(s, k + 1, Len(s))
    OBVIOUS
  <2>8. /\ u \in Seq(S) /\ Len(u) = k - 1 /\ \A i \in 1 .. k - 1 : u[i] = s[i]
    <3>1. \A i \in 1 .. k - 1 : i \in 1 .. Len(s)
      BY <1>1, <2>6
    <3> QED BY <1>1, <2>6, <2>7, <3>1, SubSeqProperties
  <2>9. /\ v \in Seq(S) /\ Len(v) = Len(s) - k /\ \A i \in 1 .. Len(s) - k : v[i] = s[k + i]
    <3>1. \A i \in (k + 1) .. Len(s) : i \in 1 .. Len(s)
      BY <1>1, <2>6
    <3>2. /\ v \in Seq(S) /\ Len(v) = (IF k + 1 <= Len(s) THEN Len(s) - (k + 1) + 1 ELSE 0)
          /\ \A i \in 1 .. Len(s) - (k + 1) + 1 : v[i] = s[(k + 1) + i - 1]
      BY <1>1, <2>6, <2>7, <3>1, SubSeqProperties
    <3>3. Len(s) - (k + 1) + 1 = Len(s) - k /\ (~(k + 1 <= Len(s)) => Len(s) - k = 0)
      BY <1>1, <2>6
    <3>4. Len(v) = Len(s) - k
      BY <3>2, <3>3
    <3>5. ASSUME NEW i \in 1 .. Len(s) - k PROVE v[i] = s[k + i]
      <4>1. (k + 1) + i - 1 = k + i
        BY <1>1, <2>6
      <4> QED BY <3>2, <3>3, <4>1
    <3> QED BY <3>2, <3>4, <3>5
  <2>10. /\ r \in Seq(S) /\ Len(r) = Len(s) - 1 /\ DOMAIN r = 1 .. Len(s) - 1
         /\ \A i \in 1 .. Len(s) - 1 : r[i] = IF i < k THEN s[i] ELSE s[i + 1]
    <3>1. /\ r \in Seq(S) /\ Len(r) = (k - 1) + (Len(s) - k)
          /\ \A i \in 1 .. (k - 1) + (Len(s) - k) :
               r[i] = IF i <= k - 1 THEN u[i] ELSE v[i - (k - 1)]
      <4>1. r = u \o v /\ u \in Seq(S) /\ v \in Seq(S) /\ Len(u) = k - 1 /\ Len(v) = Len(s) - k
        BY <2>5, <2>7, <2>8, <2>9
      <4>2. /\ r \in Seq(S) /\ Len(r) = Len(u) + Len(v)
            /\ \A i \in 1 .. Len(u) + Len(v) : r[i] = IF i <= Len(u) THEN u[i] ELSE v[i - Len(u)]
        BY ONLY <4>1, ConcatProperties
      <4> QED BY <4>1, <4>2
    <3>2. (k - 1) + (Len(s) - k) = Len(s) - 1
      BY <1>1, <2>6
    <3>3. ASSUME NEW i \in 1 .. Len(s) - 1 PROVE r[i] = IF i < k THEN s[i] ELSE s[i + 1]
      <4>1. CASE i < k
        <5>1. i \in 1 .. k - 1 /\ i <= k - 1
          BY <1>1, <2>6, <4>1
        <5> QED BY <2>8, <3>1, <3>2, <4>1, <5>1
      <4>2. CASE ~(i < k)
        <5>1. i - (k - 1) \in 1 .. Len(s) - k /\ k + (i - (k - 1)) = i + 1 /\ ~(i <= k - 1)
          BY <1>1, <2>6, <4>2
        <5>2. v[i - (k - 1)] = s[k + (i - (k - 1))]
          BY <2>9, <5>1
        <5>3. r[i] = v[i - (k - 1)]
          BY <3>1, <3>2, <5>1
        <5> QED BY <4>2, <5>1, <5>2, <5>3
      <4> QED BY <4>1, <4>2
    <3>4. Len(s) - 1 \in Nat /\ Len(r) = Len(s) - 1
      BY <1>1, <2>6, <3>1, <3>2
    <3> QED BY <3>1, <3>3, <3>4
  <2>11. Once(r)
    <3> SUFFICES ASSUME NEW i \in DOMAIN r, NEW j \in DOMAIN r, r[i] = r[j] PROVE i = j
      BY DEF Once
    <3>1. PICK m \in DOMAIN s : r[i] = s[m] /\ m = IF i < k THEN i ELSE i + 1
      BY <1>1, <2>6, <2>10
    <3>2. PICK n \in DOMAIN s : r[j] = s[n] /\ n = IF j < k THEN j ELSE j + 1
      BY <1>1, <2>6, <2>10
    <3>3. m = n
      BY <3>1, <3>2 DEF Once
    <3> QED BY <1>1, <2>6, <2>10, <3>1, <3>2, <3>3
  <2>12. ASSUME NEW y PROVE In(y, r) <=> In(y, s) /\ y # p
    <3>1. ASSUME In(y, r) PROVE In(y, s) /\ y # p
      <4>1. PICK i \in DOMAIN r : r[i] = y
        BY <3>1 DEF In
      <4>2. PICK m \in DOMAIN s : r[i] = s[m] /\ m # k
        <5>1. i \in 1 .. Len(s) - 1 /\ r[i] = IF i < k THEN s[i] ELSE s[i + 1]
          BY <2>10
        <5>2. CASE i < k
          <6>1. i \in DOMAIN s /\ i # k
            BY <1>1, <2>6, <5>1, <5>2
          <6> QED BY <5>1, <5>2, <6>1
        <5>3. CASE ~(i < k)
          <6>1. i + 1 \in DOMAIN s /\ i + 1 # k
            BY <1>1, <2>6, <5>1, <5>3
          <6> QED BY <5>1, <5>3, <6>1
        <5> QED BY <5>2, <5>3
      <4> QED BY <2>3, <4>1, <4>2 DEF In
    <3>2. ASSUME In(y, s), y # p PROVE In(y, r)
      <4>1. PICK m \in DOMAIN s : s[m] = y /\ m # k
        BY <2>1, <3>2 DEF In
      <4>2. CASE m < k
        <5>1. m \in 1 .. Len(s) - 1
          BY <1>1, <2>6, <4>2
        <5> QED BY <2>10, <4>1, <4>2, <5>1 DEF In
      <4>3. CASE ~(m < k)
        <5>1. m - 1 \in 1 .. Len(s) - 1 /\ ~(m - 1 < k) /\ (m - 1) + 1 = m
          BY <1>1, <2>6, <4>1, <4>3
        <5>2. r[m - 1] = s[(m - 1) + 1]
          BY <2>10, <5>1
        <5> QED BY <2>10, <4>1, <5>1, <5>2 DEF In
      <4> QED BY <4>2, <4>3
    <3> QED BY <3>1, <3>2
  <2>13. ASSUME s # <<>>, Head(s) # p PROVE r # <<>> /\ Head(r) = Head(s)
    <3>1. k # 1 /\ Head(s) = s[1]
      BY <2>1, <2>13
    <3>2. 1 \in 1 .. Len(s) - 1 /\ 1 < k
      BY <1>1, <2>6, <3>1
    <3>3. r[1] = s[1] /\ Len(r) # 0
      BY <1>1, <2>6, <2>10, <3>2
    <3> QED BY <2>10, <3>1, <3>3
  <2> QED BY <2>10, <2>11, <2>12, <2>13
<1> QED BY <1>2, <1>3

-----------------------------------------------------------------------------
(* A buffer is sent to the disk.                                           *)

\* There are no more buffers in use than there are buffers, so that an IO is
\* left for one that is not yet on its way.
LEMMA IOLeft ==
    ASSUME IInv, NEW p \in Pages, page[p].wbuf # None, p \notin FullPages
    PROVE  /\ IsFiniteSet(FullPages) /\ Cardinality(FullPages) \in Nat
           /\ Cardinality(FullPages \cup {p}) = Cardinality(FullPages) + 1
           /\ io_stack - 1 \in 0 .. WbufCount
<1>1. PICK S : S = {q \in Pages : page[q].wbuf # None}
  OBVIOUS
<1>2. PICK f : f = [q \in S |-> page[q].wbuf]
  OBVIOUS
<1>3. f \in [S -> Wbufs]
  <2>1. \A q \in S : page[q].wbuf \in Wbufs
    BY <1>1, TypeNow, PageFields
  <2> QED BY <1>2, <2>1
<1>4. \A q, r \in S : f[q] = f[r] => q = r
  BY <1>1, <1>2 DEF Buffered
<1>5. f \in Injection(S, Wbufs)
  BY <1>3, <1>4 DEF Injection, IsInjective
<1>6. IsFiniteSet(S) /\ Cardinality(S) <= WbufCount
  BY <1>5, FS_Injection
<1>7. FullPages \in SUBSET S /\ FullPages \cup {p} \in SUBSET S
  BY <1>1 DEF FullPages
<1>8. /\ IsFiniteSet(FullPages) /\ Cardinality(FullPages \cup {p}) <= Cardinality(S)
      /\ Cardinality(FullPages \cup {p}) = Cardinality(FullPages) + 1
  BY <1>6, <1>7, FS_Subset, FS_AddElement
<1>9. Cardinality(FullPages) \in Nat /\ Cardinality(S) \in Nat
  BY <1>6, <1>8, FS_CardinalityType
<1>10. io_stack = WbufCount - Cardinality(FullPages)
  BY DEF Buffered
<1> QED BY <1>6, <1>8, <1>9, <1>10

LEMMA Step_submit_wbuf ==
    ASSUME IInv, NEW b \in Buckets, _submit_wbuf(b)
    PROVE  IInv'
<1>1. PICK p, w : p = wp[b] /\ w = page[p].wbuf
  OBVIOUS
<1>2. PICK h, io : /\ h = [wbuf[w] EXCEPT !.full = TRUE]
                   /\ io = [mode |-> "write", page |-> p, data |-> w]
  OBVIOUS
<1>3. /\ wpc[b] = "page" /\ w # None /\ ~HasRoom(p) /\ ~wbuf[w].full
      /\ io_stack' = io_stack - 1 /\ wbuf' = [wbuf EXCEPT ![w] = h]
      /\ wpc' = [wpc EXCEPT ![b] = "request"] /\ wp' = [wp EXCEPT ![b] = None]
      /\ UNCHANGED <<page, disk, wbuf_stack, cur_io, ipc, live, mpc, scanVars>> /\ SameEngine
  BY <1>1, <1>2 DEF _submit_wbuf, AtPage, Retry, SameEngine, engineVars
<1>4. PICK u \in IOThreads : queue' = [queue EXCEPT ![u] = Append(queue[u], io)]
  BY <1>1, <1>2, TypeNow DEF _submit_wbuf
<1>5. p \in Pages /\ page[p] \in PageRecords
  <2>1. WriterOK(b)
    OBVIOUS
  <2> QED BY <1>1, <1>3, <2>1, TypeNow DEF WriterOK
<1>6. w \in Wbufs /\ wbuf[w] \in WbufRecords /\ Len(wbuf[w].buf) <= WbufSize
  BY <1>1, <1>3, <1>5, PageFields, TypeNow
<1>7. Len(wbuf[w].buf) = WbufSize
  <2>1. wbuf[w].buf \in Seq(Addresses)
    BY <1>6 DEF WbufRecords
  <2> QED BY <1>1, <1>3, <1>6, <2>1 DEF HasRoom
<1>8. h \in WbufRecords /\ h.offset = wbuf[w].offset /\ h.buf = wbuf[w].buf /\ h.full
  BY <1>2, <1>6 DEF WbufRecords
<1>9. /\ wbuf' \in [Wbufs -> WbufRecords] /\ wbuf'[w].full
      /\ \A x \in Wbufs : /\ wbuf'[x].offset = wbuf[x].offset /\ wbuf'[x].buf = wbuf[x].buf
                          /\ x # w => wbuf'[x].full = wbuf[x].full
                          /\ wbuf[x].full => wbuf'[x].full
  BY <1>3, <1>6, <1>8, TypeNow
<1>10. io \in IOs /\ io.mode = "write" /\ io.page = p /\ io.data = w
  BY <1>2, <1>5, <1>6 DEF IOs
<1>11. /\ queue' \in [IOThreads -> Seq(IOs)]
       /\ \A t \in IOThreads : \A i \in Places(t)' :
            \/ i \in Places(t) /\ IOAt(t, i)' = IOAt(t, i)
            \/ t = u /\ i = Len(queue[u]) + 1 /\ IOAt(t, i)' = io
  BY <1>3, <1>4, <1>10, Queued
<1>12. p \notin FullPages /\ page[p].wbuf # None
  BY <1>1, <1>3 DEF FullPages
<1>13. /\ Cardinality(FullPages \cup {p}) = Cardinality(FullPages) + 1
       /\ Cardinality(FullPages) \in Nat /\ io_stack - 1 \in 0 .. WbufCount
  BY <1>5, <1>12, IOLeft
<1>14. /\ wpc' \in [Buckets -> {"idle", "request", "page", "newpage"}]
       /\ wp' \in [Buckets -> Pages \cup {None}]
  BY <1>3, TypeNow
<1>15. TypeOK'
  BY <1>3, <1>9, <1>11, <1>13, <1>14, TypeNow DEF TypeOK, SameEngine, scanVars
<1>16. ASSUME NEW q \in Pages PROVE BufferOK(q)' /\ Filled(q)' = Filled(q)
  <2>1. PICK x : x = page[q].wbuf /\ x \in Wbufs \cup {None}
    BY TypeNow, PageFields
  <2>2. BufferOK(q) /\ page' = page
    BY <1>3 DEF PagesInv
  <2>3. CASE x = None
    BY <2>1, <2>2, <2>3 DEF BufferOK, Filled
  <2>4. CASE x # None
    <3>1. /\ wbuf'[x].offset = wbuf[x].offset /\ wbuf'[x].buf = wbuf[x].buf
          /\ wbuf'[x].full => wbuf[x].full \/ Len(wbuf[x].buf) = WbufSize
      BY <1>7, <1>9, <2>1, <2>4
    <3> QED BY ONLY <2>1, <2>2, <3>1 DEF BufferOK, Filled
  <2> QED BY <2>3, <2>4
<1>17. PagesInv'
  <2>1. ASSUME NEW q \in Pages PROVE PageOK(q)' /\ DiskOK(q)' /\ Counted(q)' /\ Stocked(q)'
    <3>1. PageOK(q) /\ DiskOK(q) /\ Counted(q) /\ Stocked(q)
      BY DEF PagesInv
    <3>2. UNCHANGED <<page, disk, version, cur_io, ipc, live>>
      BY <1>3 DEF SameEngine
    <3> QED BY ONLY <3>1, <3>2 DEF PageOK, DiskOK, Counted, Readers, Stocked, Objects
  <2> QED BY <1>16, <2>1 DEF PagesInv
<1>18. Lasting
  <2>1. ASSUME NEW x \in IOs, x.mode = "write", WriteOK(x) PROVE WriteOK(x)'
    BY <1>3, <1>9, <2>1, IOFields DEF WriteOK
  <2>2. ASSUME NEW a \in Addresses, Within(a) PROVE Within(a)'
    BY <1>3, <1>16, <2>2, AddressFields DEF Within, SameEngine
  <2> QED BY <2>1, <2>2 DEF Lasting
<1>19. IOsRight'
  <2> SUFFICES ASSUME NEW t \in IOThreads, NEW i \in Places(t)'
               PROVE  /\ IOAt(t, i)'.mode = "write" => WriteOK(IOAt(t, i))'
                      /\ IOAt(t, i)'.mode = "read" => ReadOK(IOAt(t, i))'
    BY DEF IOsRight
  <2>1. PICK x : x = IOAt(t, i)'
    OBVIOUS
  <2>2. CASE i \in Places(t) /\ IOAt(t, i)' = IOAt(t, i)
    <3>1. x = IOAt(t, i) /\ x \in IOs
      BY <2>1, <2>2, PlaceTypes
    <3>2. (x.mode = "write" => WriteOK(x)) /\ (x.mode = "read" => ReadOK(x))
      BY <2>2, <3>1 DEF IOInv, IOsRight
    <3>3. (x.mode = "write" => WriteOK(x)') /\ (x.mode = "read" => ReadOK(x)')
      BY <1>18, <3>1, <3>2, IOFields DEF Lasting, ReadOK
    <3> QED BY <2>1, <3>3 DEF WriteOK, ReadOK, Within, Filled
  <2>3. CASE IOAt(t, i)' = io
    BY <1>1, <1>3, <1>9, <1>10, <2>3 DEF WriteOK
  <2> QED BY <1>11, <2>2, <2>3
<1>20. WritesOnce'
  <2>1. ASSUME NEW t \in IOThreads, NEW i \in Places(t), IOAt(t, i).mode = "write"
        PROVE  IOAt(t, i).page # p
    <3>1. PICK x : x = IOAt(t, i)
      OBVIOUS
    <3>2. WriteOK(x)
      BY <2>1, <3>1 DEF IOInv, IOsRight
    <3> QED BY <1>1, <1>3, <3>1, <3>2 DEF WriteOK
  <2> SUFFICES ASSUME NEW t \in IOThreads, NEW v \in IOThreads,
                      NEW i \in Places(t)', NEW j \in Places(v)',
                      IOAt(t, i)'.mode = "write", IOAt(v, j)'.mode = "write",
                      IOAt(t, i)'.page = IOAt(v, j)'.page
               PROVE  t = v /\ i = j
    BY DEF WritesOnce
  <2>2. CASE i \in Places(t) /\ IOAt(t, i)' = IOAt(t, i)
    <3>1. IOAt(v, j)' # io
      BY <1>10, <2>1, <2>2
    <3>2. j \in Places(v) /\ IOAt(v, j)' = IOAt(v, j)
      BY <1>11, <3>1
    <3> QED BY <2>2, <3>2 DEF IOInv, WritesOnce
  <2>3. CASE t = u /\ i = Len(queue[u]) + 1 /\ IOAt(t, i)' = io
    <3>1. ~(j \in Places(v) /\ IOAt(v, j)' = IOAt(v, j))
      BY <1>10, <2>1, <2>3
    <3> QED BY <1>11, <2>3, <3>1
  <2> QED BY <1>11, <2>2, <2>3
<1>21. IOInv'
  <2>1. \A t \in IOThreads : Working(t)'
    BY <1>3 DEF IOInv, Working
  <2>2. \A a \in live' : Within(a)'
    BY <1>3, <1>18, TypeNow DEF Lasting, IOInv
  <2> QED BY <1>19, <1>20, <2>1, <2>2 DEF IOInv
<1>22. Listed'
  BY <1>3 DEF Listed, SameEngine
<1>23. Buffered'
  <2>1. FullPages' = FullPages \cup {p}
    <3>1. ASSUME NEW q \in Pages PROVE q \in FullPages' <=> q \in FullPages \cup {p}
      <4>1. CASE q = p
        BY <1>1, <1>3, <1>9, <4>1 DEF FullPages
      <4>2. CASE q # p
        <5>1. page[q].wbuf # w /\ page[q].wbuf \in Wbufs \cup {None}
          BY <1>1, <1>3, <1>5, <4>2, TypeNow, PageFields DEF Buffered
        <5> QED BY <1>3, <1>9, <4>2, <5>1 DEF FullPages
      <4> QED BY <4>1, <4>2
    <3> QED BY <1>5, <3>1 DEF FullPages
  <2>2. io_stack' = WbufCount - Cardinality(FullPages')
    BY <1>3, <1>13, <2>1 DEF Buffered
  <2> QED BY <1>3, <2>2 DEF Buffered
<1>24. \A c \in Buckets : WriterOK(c)'
  BY <1>3, LetGo DEF SameEngine
<1>25. ScanOK' /\ LiveFinite'
  BY <1>3 DEF ScanOK, LiveFinite, SameEngine, scanVars
<1> QED BY <1>15, <1>17, <1>21, <1>22, <1>23, <1>24, <1>25

LEMMA Step_wbuf_cb ==
    ASSUME IInv, NEW t \in IOThreads, _wbuf_cb(t)
    PROVE  IInv'
<1>1. PICK io, p, w : io = cur_io[t] /\ p = io.page /\ w = io.data
  OBVIOUS
<1>2. PICK n, r : /\ n = page[p].written + WbufSize
                  /\ r = [page[p] EXCEPT !.written = n, !.wbuf = None,
                                         !.active = IF n = PageSize THEN FALSE ELSE page[p].active]
  OBVIOUS
<1>3. /\ ipc[t] = "wbuf_cb" /\ Unlocked(p)
      /\ page' = [page EXCEPT ![p].written = n, ![p].wbuf = None,
                              ![p].active = IF n = PageSize THEN FALSE ELSE @]
      /\ wbuf' = [wbuf EXCEPT ![w] = EmptyWbuf] /\ wbuf_stack' = <<w>> \o wbuf_stack
      /\ io_stack' = io_stack + 1
      /\ cur_io' = [cur_io EXCEPT ![t] = None] /\ ipc' = [ipc EXCEPT ![t] = "idle"]
      /\ UNCHANGED <<disk, queue, live, wpc, wp, mpc, scanVars>> /\ SameEngine
  BY <1>1, <1>2 DEF _wbuf_cb, SameEngine, engineVars, writerVars
<1>4. io \in IOs /\ io.mode = "write" /\ 0 \in Places(t) /\ IOAt(t, 0) = io /\ WriteOK(io)
  <2>1. io \in IOs /\ io.mode = "write"
    BY <1>1, <1>3, TypeNow DEF IOInv, Working
  <2>2. 0 \in Places(t) /\ IOAt(t, 0) = io
    BY <1>1, <2>1, TypeNow DEF Places, IOAt
  <2> QED BY <2>1, <2>2 DEF IOInv, IOsRight
<1>5. /\ p \in Pages /\ w \in Wbufs /\ page[p] \in PageRecords /\ page[p].wbuf = w
      /\ page[p].active /\ ~page[p].free /\ page[p].allocated = n
      /\ n <= PageSize /\ page[p].written \in Nat /\ n \in Nat
      /\ wbuf[w].full /\ Len(wbuf[w].buf) = WbufSize
  <2>1. IInv
    OBVIOUS
  <2> HIDE DEF IInv
  <2>2. /\ p \in Pages /\ w \in Wbufs /\ page[p] \in PageRecords /\ page[p].wbuf = w
        /\ page[p].active /\ ~page[p].free /\ page[p].allocated = page[p].written + WbufSize
        /\ page[p].written + WbufSize <= PageSize /\ page[p].written \in Nat
        /\ wbuf[w].full /\ Len(wbuf[w].buf) = WbufSize
    BY ONLY <1>1, <1>4, <2>1, WriteFacts
  <2> QED BY ONLY <1>2, <2>2, Constants
<1>6. PageOK(p) /\ Working(t)
  BY <1>5 DEF PagesInv, IOInv
<1>7. /\ r \in PageRecords /\ r.version = page[p].version /\ r.allocated = n
      /\ r.written = n /\ r.bucket = page[p].bucket
      /\ r.active = (IF n = PageSize THEN FALSE ELSE page[p].active)
      /\ r.free = page[p].free /\ r.wbuf = None
      /\ r.closed = page[p].closed /\ r.refcount = page[p].refcount
      /\ r.obj_count = page[p].obj_count
  <2>1. n \in 0 .. PageSize
    BY <1>5
  <2> QED BY <1>2, <1>5, <2>1 DEF PageRecords
<1>8. /\ page' \in [Pages -> PageRecords] /\ page'[p] = r
      /\ \A q \in Pages : q # p => page'[q] = page[q]
  <2>1. page \in [Pages -> PageRecords]
    BY TypeNow
  <2>2. page' = [page EXCEPT ![p] = r]
    BY <1>2, <1>3, <1>5, <2>1
  <2> QED BY <1>5, <1>7, <2>1, <2>2
<1>9. \A q \in Pages : q # p => page[q].wbuf # w
  BY <1>5 DEF Buffered
<1>10. /\ wbuf' \in [Wbufs -> WbufRecords] /\ wbuf'[w] = EmptyWbuf
       /\ \A x \in Wbufs : x # w => wbuf'[x] = wbuf[x]
  <2>1. PageSize - WbufSize \in Nat
    BY PageFits
  <2>2. EmptyWbuf \in WbufRecords
    BY <2>1 DEF EmptyWbuf, WbufRecords
  <2> QED BY <1>3, <1>5, <2>2, TypeNow
<1>11. /\ cur_io' \in [IOThreads -> IOs \cup {None}]
       /\ ipc' \in [IOThreads -> {"idle", "pread", "wbuf_cb"}]
       /\ cur_io'[t] = None /\ ipc'[t] = "idle"
       /\ \A u \in IOThreads : u # t => cur_io'[u] = cur_io[u] /\ ipc'[u] = ipc[u]
  BY <1>3, TypeNow
<1>12. /\ wbuf_stack' \in Seq(Wbufs) /\ Once(wbuf_stack')
       /\ \A y : In(y, wbuf_stack') <=> y = w \/ In(y, wbuf_stack)
  <2>1. wbuf_stack \in Seq(Wbufs) /\ Once(wbuf_stack) /\ ~In(w, wbuf_stack)
    BY <1>5, TypeNow DEF Buffered
  <2>2. PICK s : s = wbuf_stack' /\ s = <<w>> \o wbuf_stack
    BY <1>3
  <2>0. w \in Wbufs /\ s = <<w>> \o wbuf_stack
    BY <1>5, <2>2
  <2>3. /\ s \in Seq(Wbufs) /\ Once(s) /\ \A y : In(y, s) <=> y = w \/ In(y, wbuf_stack)
    BY ONLY <2>0, <2>1, PushOnce
  <2> QED BY ONLY <2>2, <2>3 DEF Once, In
<1>13. FullPages' = FullPages \ {p} /\ p \in FullPages
  <2>1. ASSUME NEW q \in Pages PROVE q \in FullPages' <=> q \in FullPages \ {p}
    <3>1. CASE q = p
      BY <1>7, <1>8, <3>1 DEF FullPages
    <3>2. CASE q # p
      <4>1. page'[q] = page[q] /\ page[q].wbuf # w /\ page[q].wbuf \in Wbufs \cup {None}
        BY <1>8, <1>9, <3>2, TypeNow, PageFields
      <4> QED BY <1>10, <3>2, <4>1 DEF FullPages
    <3> QED BY <3>1, <3>2
  <2> QED BY <1>5, <2>1 DEF FullPages
<1>14. /\ io_stack' = WbufCount - Cardinality(FullPages \ {p}) /\ io_stack' \in 0 .. WbufCount
  <2>1. FullPages \in SUBSET Pages
    BY DEF FullPages
  <2>2. IsFiniteSet(FullPages)
    BY <2>1, FS_Subset
  <2>3. /\ Cardinality(FullPages \ {p}) = Cardinality(FullPages) - 1
        /\ Cardinality(FullPages) \in Nat /\ Cardinality(FullPages \ {p}) \in Nat
    BY <1>13, <2>2, FS_RemoveElement, FS_CardinalityType
  <2>4. io_stack = WbufCount - Cardinality(FullPages) /\ io_stack \in 0 .. WbufCount
    BY TypeNow DEF Buffered
  <2> QED BY <1>3, <2>3, <2>4
<1>15. TypeOK'
  <2>1. \A x \in Wbufs : Len(wbuf'[x].buf) <= WbufSize
    <3>1. wbuf'[w].buf = <<>> /\ Len(<<>>) = 0 /\ WbufSize \in Nat
      BY <1>10 DEF EmptyWbuf
    <3>2. \A x \in Wbufs : Len(wbuf[x].buf) <= WbufSize
      BY TypeNow
    <3> QED BY ONLY <1>10, <3>1, <3>2
  <2> QED BY <1>3, <1>8, <1>10, <1>11, <1>12, <1>14, <2>1, TypeNow DEF TypeOK, SameEngine, scanVars
<1>16. ASSUME NEW q \in Pages, q # p
       PROVE  /\ PageOK(q)' /\ BufferOK(q)' /\ DiskOK(q)' /\ Stocked(q)' /\ Filled(q)' = Filled(q)
  <2>1. PageOK(q) /\ BufferOK(q) /\ DiskOK(q) /\ Stocked(q)
    BY DEF PagesInv
  <2>2. page'[q] = page[q] /\ page[q].wbuf # w /\ page[q].wbuf \in Wbufs \cup {None}
    BY <1>8, <1>9, <1>16, TypeNow, PageFields
  <2>3. UNCHANGED <<disk, version, live>>
    BY <1>3 DEF SameEngine
  <2>4. PageOK(q)' /\ DiskOK(q)' /\ Stocked(q)'
    BY ONLY <2>1, <2>2, <2>3 DEF PageOK, DiskOK, Stocked, Objects
  <2>5. page[q].wbuf # None => wbuf'[page[q].wbuf] = wbuf[page[q].wbuf]
    BY <1>10, <2>2
  <2>6. BufferOK(q)' /\ Filled(q)' = Filled(q)
    BY ONLY <2>1, <2>2, <2>5 DEF BufferOK, Filled
  <2> QED BY <2>4, <2>6
<1>17. /\ PageOK(p)' /\ BufferOK(p)' /\ DiskOK(p)' /\ Stocked(p)' /\ Filled(p)' = Filled(p)
  <2>1. page[p].written % WbufSize = 0 /\ page[p].written < PageSize /\ ~page[p].closed
    BY <1>5, <1>6 DEF PageOK
  <2>2. n % WbufSize = 0
    BY <1>2, <1>5, <2>1, Aligned
  <2>3. /\ page[p].version \in 1 .. version - 1 /\ page[p].bucket \in Buckets
        /\ version' = version
    BY <1>3, <1>5, <1>6 DEF PageOK, SameEngine
  <2>4. PageOK(p)'
    <3>1. /\ ~r.free /\ r.version \in 1 .. version' - 1 /\ r.bucket \in Buckets
          /\ ~r.closed /\ r.written = n /\ r.allocated = n /\ r.wbuf = None /\ n % WbufSize = 0
          /\ r.active => n # PageSize
          /\ ~r.active => n = PageSize
      BY <1>5, <1>7, <2>1, <2>2, <2>3
    <3>2. r.active => n < PageSize
      BY <1>5, <3>1
    <3> QED BY ONLY <1>8, <3>1, <3>2 DEF PageOK
  <2>5. BufferOK(p)'
    BY <1>7, <1>8 DEF BufferOK
  <2>6. DiskOK(p)'
    <3>1. DiskOK(p)
      BY <1>5 DEF PagesInv
    <3>2. /\ page'[p].version = page[p].version /\ page'[p].written = n /\ disk' = disk
      BY <1>3, <1>7, <1>8
    <3>3. PICK m \in Nat : m = page[p].written /\ n = m + WbufSize
      BY <1>2, <1>5
    <3>4. \A o \in 0 .. m - 1 : disk[p][o] = Addr(p, page[p].version, o)
      BY <1>5, <3>1, <3>3 DEF DiskOK
    <3>5. \A o \in m .. m + WbufSize - 1 : disk[p][o] = Addr(p, page[p].version, o)
      BY <1>1, <1>3, <1>6, <3>3 DEF Working
    <3>6. \A o \in 0 .. n - 1 : o \in 0 .. m - 1 \/ o \in m .. m + WbufSize - 1
      BY <3>3
    <3>7. \A o \in 0 .. n - 1 : disk[p][o] = Addr(p, page[p].version, o)
      BY <3>4, <3>5, <3>6
    <3> QED BY ONLY <3>2, <3>7 DEF DiskOK
  <2>7. Stocked(p)'
    <3>1. Stocked(p)
      BY <1>5 DEF PagesInv
    <3>2. /\ page'[p].version = page[p].version /\ page'[p].free = page[p].free
          /\ page'[p].closed = page[p].closed /\ page'[p].obj_count = page[p].obj_count
          /\ live' = live
      BY <1>3, <1>7, <1>8
    <3> QED BY ONLY <3>1, <3>2 DEF Stocked, Objects
  <2>8. Filled(p)' = n /\ Filled(p) = n
    BY <1>2, <1>5, <1>7, <1>8 DEF Filled
  <2> QED BY <2>4, <2>5, <2>6, <2>7, <2>8
<1>18. ASSUME NEW q \in Pages PROVE Counted(q)'
  <2>1. Counted(q) /\ page'[q].refcount = page[q].refcount
    BY <1>7, <1>8 DEF PagesInv
  <2>2. Readers(q)' = Readers(q)
    BY <1>3, <1>11 DEF Readers
  <2> QED BY <2>1, <2>2 DEF Counted
<1>19. PagesInv'
  BY <1>16, <1>17, <1>18 DEF PagesInv
<1>20. ASSUME NEW a \in Addresses, Within(a) PROVE Within(a)'
  <2>1. a.page \in Pages /\ Filled(a.page)' = Filled(a.page)
    BY <1>16, <1>17, AddressFields
  <2>2. page'[a.page].version = page[a.page].version /\ version' = version
    BY <1>3, <1>7, <1>8, <2>1 DEF SameEngine
  <2> QED BY <1>20, <2>1, <2>2 DEF Within
<1>21. /\ WritesOnce' /\ \A u \in IOThreads : \A i \in Places(u)' :
             i \in Places(u) /\ IOAt(u, i)' = IOAt(u, i) /\ (u = t => i # 0)
  BY <1>3, <1>15, Ended
<1>22. ASSUME NEW u \in IOThreads, NEW i \in Places(u), IOAt(u, i).mode = "write", ~(u = t /\ i = 0)
       PROVE  IOAt(u, i).page # p
  BY <1>1, <1>4, <1>22 DEF IOInv, WritesOnce
<1>23. IOsRight'
  <2> SUFFICES ASSUME NEW u \in IOThreads, NEW i \in Places(u)'
               PROVE  /\ IOAt(u, i)'.mode = "write" => WriteOK(IOAt(u, i))'
                      /\ IOAt(u, i)'.mode = "read" => ReadOK(IOAt(u, i))'
    BY DEF IOsRight
  <2>1. PICK x : x = IOAt(u, i)'
    OBVIOUS
  <2>2. i \in Places(u) /\ x = IOAt(u, i) /\ ~(u = t /\ i = 0) /\ x \in IOs
    BY <1>21, <2>1, PlaceTypes
  <2>3. (x.mode = "write" => WriteOK(x)) /\ (x.mode = "read" => ReadOK(x))
    BY <2>2 DEF IOInv, IOsRight
  <2>4. x.mode = "write" => WriteOK(x)'
    <3> SUFFICES ASSUME x.mode = "write" PROVE WriteOK(x)'
      OBVIOUS
    <3>1. x.page # p /\ x.page \in Pages /\ x.data \in Wbufs
      BY <1>22, <2>2, IOFields
    <3>2. page'[x.page] = page[x.page] /\ x.data # w
      BY <1>8, <1>9, <2>3, <3>1 DEF WriteOK
    <3> QED BY <1>10, <2>3, <3>1, <3>2 DEF WriteOK
  <2>5. x.mode = "read" => ReadOK(x)'
    BY <1>20, <2>2, <2>3, IOFields DEF ReadOK
  <2> QED BY <2>1, <2>4, <2>5 DEF WriteOK, ReadOK, Within, Filled
<1>24. ASSUME NEW u \in IOThreads PROVE Working(u)'
  <2>1. CASE u = t
    BY <1>11, <2>1 DEF Working
  <2>2. CASE u # t
    <3>1. Working(u) /\ cur_io'[u] = cur_io[u] /\ ipc'[u] = ipc[u] /\ disk' = disk
      BY <1>3, <1>11, <2>2 DEF IOInv
    <3>2. CASE ipc[u] = "idle"
      BY <3>1, <3>2 DEF Working
    <3>3. CASE ipc[u] = "pread"
      <4>1. PICK x : x = cur_io[u] /\ x \in IOs /\ x.mode = "read"
        BY <3>1, <3>3, TypeNow DEF Working
      <4>2. x.page \in Pages /\ x.data \in Addresses
        BY <4>1, IOFields
      <4>3. x.data.offset \in Nat /\ page[x.page].written \in Nat
        <5>1. page[x.page] \in PageRecords
          BY <4>2, TypeNow
        <5> QED BY <4>2, <5>1, AddressFields, PageFields
      <4>4. page'[x.page].version = page[x.page].version /\ page[x.page].written <= page'[x.page].written
            /\ page'[x.page].written \in Nat
        <5>1. CASE x.page = p
          <6>1. n \in Nat /\ page[p].written <= n
            BY ONLY <1>2, <1>5, Constants
          <6> QED BY ONLY <1>7, <1>8, <5>1, <6>1
        <5>2. CASE x.page # p
          <6>1. page'[x.page] = page[x.page]
            BY ONLY <1>8, <4>2, <5>2
          <6> QED BY ONLY <4>3, <6>1
        <5> QED BY <5>1, <5>2
      <4>5. /\ page[x.page].version = x.data.version /\ x.data.offset < page[x.page].written
        BY <3>1, <3>3, <4>1 DEF Working
      <4>6. x.data.offset < page'[x.page].written
        BY <4>3, <4>4, <4>5
      <4>7. x # None
        BY <4>1
      <4> QED BY <3>1, <3>3, <4>1, <4>4, <4>5, <4>6, <4>7 DEF Working
    <3>4. CASE ipc[u] = "wbuf_cb"
      <4>1. cur_io[u] \in IOs /\ cur_io[u].mode = "write"
        BY <3>1, <3>4, TypeNow DEF Working
      <4>2. 0 \in Places(u) /\ IOAt(u, 0) = cur_io[u]
        BY <4>1, TypeNow DEF Places, IOAt
      <4>3. page'[cur_io[u].page] = page[cur_io[u].page]
        BY <1>8, <1>22, <2>2, <4>1, <4>2, IOFields
      <4> QED BY <3>1, <3>4, <4>3 DEF Working
    <3> QED BY <3>2, <3>3, <3>4, TypeNow
  <2> QED BY <2>1, <2>2
<1>25. IOInv'
  <2>1. \A a \in live' : Within(a)'
    BY <1>3, <1>20, TypeNow DEF IOInv
  <2> QED BY <1>21, <1>23, <1>24, <2>1 DEF IOInv
<1>26. \A q \in Pages : /\ page'[q].free = page[q].free /\ page'[q].bucket = page[q].bucket
                        /\ page'[q].allocated = page[q].allocated
                        /\ page'[q].active => page[q].active
  BY <1>5, <1>7, <1>8
<1>27. Listed'
  <2>1. Listed /\ UNCHANGED <<page_freelist, page_buckets, page_free>>
    BY <1>3 DEF SameEngine
  <2> QED BY ONLY <1>26, <2>1 DEF Listed, Once, In
<1>28. Buffered'
  <2>1. \A q, s \in Pages : page'[q].wbuf = page'[s].wbuf /\ page'[q].wbuf # None => q = s
    BY <1>7, <1>8 DEF Buffered
  <2>2. ASSUME NEW x \in Wbufs PROVE In(x, wbuf_stack') <=> \A q \in Pages : page'[q].wbuf # x
    <3>1. CASE x = w
      BY <1>7, <1>8, <1>9, <1>12, <3>1
    <3>2. CASE x # w
      <4>1. \A q \in Pages : page'[q].wbuf = x <=> page[q].wbuf = x
        BY <1>5, <1>7, <1>8, <3>2
      <4> QED BY <1>12, <3>2, <4>1 DEF Buffered
    <3> QED BY <3>1, <3>2
  <2>3. \A x \in Wbufs : In(x, wbuf_stack)' <=> \A q \in Pages : page'[q].wbuf # x
    BY <2>2 DEF In
  <2>4. Once(wbuf_stack)'
    BY <1>12 DEF Once
  <2> QED BY <1>13, <1>14, <2>1, <2>3, <2>4 DEF Buffered
<1>29. \A c \in Buckets : WriterOK(c)'
  <2> TAKE c \in Buckets
  <2>1. WriterOK(c) /\ UNCHANGED <<page_buckets, wpc, wp>>
    BY <1>3 DEF SameEngine
  <2> QED BY ONLY <1>26, <2>1 DEF WriterOK
<1>30. ScanOK'
  <2>1. mpc = "scanfree" => scan # p /\ page'[scan] = page[scan]
    BY <1>3, <1>8, TypeNow DEF Unlocked
  <2>2. low # None => page'[low].free = page[low].free /\ (page'[low].active => page[low].active)
    BY <1>26, TypeNow
  <2> QED BY <1>3, <2>1, <2>2 DEF ScanOK, SameEngine, scanVars
<1>31. LiveFinite'
  BY <1>3 DEF LiveFinite
<1> QED BY <1>15, <1>19, <1>25, <1>27, <1>28, <1>29, <1>30, <1>31
-----------------------------------------------------------------------------
(* An object is appended.                                                  *)

\* Where it goes: buffer w of page p, in state h; r and s are the page and
\* the stack after the step.
Target(p, w, h, r, s) ==
    /\ p \in Pages /\ page[p] \in PageRecords /\ page[p].active /\ ~page[p].free /\ ~page[p].closed
    /\ page[p].version \in 1 .. version - 1 /\ page[p].bucket \in Buckets
    /\ w \in Wbufs /\ page[p].wbuf \in {None, w} /\ (page[p].wbuf # None => ~wbuf[w].full)
    /\ \A q \in Pages : q # p => page[q].wbuf # w
    /\ h \in WbufRecords /\ ~h.full /\ h.offset = page[p].written
    /\ h.buf \in Seq(Addresses) /\ Len(h.buf) < WbufSize
    /\ \A i \in 1 .. Len(h.buf) : h.buf[i] = Addr(p, page[p].version, page[p].written + (i - 1))
    /\ page[p].written + WbufSize <= PageSize /\ page[p].written < PageSize
    /\ page[p].written % WbufSize = 0
    /\ Filled(p) = page[p].written + Len(h.buf)
    /\ s \in Seq(Wbufs) /\ Once(s) /\ \A y : In(y, s) <=> In(y, wbuf_stack) /\ y # w
    /\ r \in PageRecords /\ r.wbuf = w /\ r.obj_count = page[p].obj_count + 1
    /\ r.allocated = page[p].written + WbufSize
    /\ r.allocated # PageSize => page[p].allocated # PageSize
    /\ r.version = page[p].version /\ r.written = page[p].written /\ r.bucket = page[p].bucket
    /\ r.active = page[p].active /\ r.free = page[p].free /\ r.closed = page[p].closed
    /\ r.refcount = page[p].refcount

LEMMA FreshTarget ==
    ASSUME IInv, NEW p \in Pages, ~PageFull(p), page[p].wbuf = None, wbuf_stack # <<>>,
           NEW w, w = Head(wbuf_stack), NEW h, h = [EmptyWbuf EXCEPT !.offset = page[p].allocated],
           NEW r, r = [page[p] EXCEPT !.wbuf = w, !.obj_count = page[p].obj_count + 1,
                                      !.allocated = page[p].allocated + WbufSize],
           NEW s, s = Tail(wbuf_stack)
    PROVE  Target(p, w, h, r, s)
<1>1. page[p] \in PageRecords /\ PageOK(p) /\ BufferOK(p)
  BY TypeNow DEF PagesInv
<1>2. page[p].active /\ page[p].allocated < PageSize
  <2>1. page[p].allocated \in Nat
    BY <1>1, PageFields
  <2> QED BY <2>1 DEF PageFull
<1>3. /\ ~page[p].free /\ ~page[p].closed /\ page[p].allocated = page[p].written
      /\ page[p].version \in 1 .. version - 1 /\ page[p].bucket \in Buckets
      /\ page[p].written % WbufSize = 0
  BY <1>1, <1>2 DEF PageOK
<1>4. PICK m \in Nat : m = page[p].written /\ m = page[p].allocated
  BY <1>1, <1>3, PageFields
<1>5. m + WbufSize <= PageSize /\ m < PageSize
  BY <1>2, <1>3, <1>4, Aligned
<1>6. /\ s \in Seq(Wbufs) /\ Once(s) /\ w \in Wbufs /\ In(w, wbuf_stack)
      /\ \A y : In(y, s) <=> In(y, wbuf_stack) /\ y # w
  <2>1. wbuf_stack \in Seq(Wbufs) /\ Once(wbuf_stack)
    BY TypeNow DEF Buffered
  <2> QED BY ONLY <2>1, wbuf_stack # <<>>, w = Head(wbuf_stack), s = Tail(wbuf_stack), TailOnce
<1>7. \A q \in Pages : page[q].wbuf # w
  BY <1>6 DEF Buffered
<1>8. /\ h \in WbufRecords /\ ~h.full /\ h.offset = m /\ h.buf = <<>>
  <2>1. m \in 0 .. PageSize - WbufSize
    BY <1>4, <1>5
  <2>2. h = [offset |-> m, full |-> FALSE, buf |-> <<>>]
    BY ONLY <1>4, h = [EmptyWbuf EXCEPT !.offset = page[p].allocated] DEF EmptyWbuf
  <2>3. <<>> \in Seq(Addresses)
    OBVIOUS
  <2> QED BY ONLY <2>1, <2>2, <2>3 DEF WbufRecords
<1>9. /\ r \in PageRecords /\ r.wbuf = w /\ r.obj_count = page[p].obj_count + 1
      /\ r.allocated = m + WbufSize /\ r.version = page[p].version
      /\ r.written = page[p].written /\ r.bucket = page[p].bucket
      /\ r.active = page[p].active /\ r.free = page[p].free /\ r.closed = page[p].closed
      /\ r.refcount = page[p].refcount
  <2>1. page[p].obj_count + 1 \in Nat /\ m + WbufSize \in 0 .. PageSize
    BY <1>1, <1>4, <1>5, PageFields
  <2> QED BY <1>1, <1>4, <1>6, <2>1 DEF PageRecords
<1>10. page[p].allocated # PageSize
  BY <1>4, <1>5
<1>11. Filled(p) = page[p].written + Len(h.buf)
  BY <1>4, <1>8 DEF Filled
<1>12. <<>> \in Seq(Addresses) /\ Len(<<>>) = 0 /\ 0 < WbufSize
  OBVIOUS
<1>13. 1 .. 0 = {}
  OBVIOUS
<1>14. p \in Pages /\ page[p].wbuf = None
  OBVIOUS
<1> HIDE DEF IInv
<1> QED BY ONLY <1>1, <1>2, <1>3, <1>4, <1>5, <1>6, <1>7, <1>8, <1>9, <1>10, <1>11, <1>12, <1>13,
                <1>14 DEF Target

LEMMA RoomTarget ==
    ASSUME IInv, NEW p \in Pages, ~PageFull(p), HasRoom(p),
           NEW w, w = page[p].wbuf, NEW h, h = wbuf[w],
           NEW r, r = [page[p] EXCEPT !.wbuf = w, !.obj_count = page[p].obj_count + 1]
    PROVE  Target(p, w, h, r, wbuf_stack)
<1>1. page[p] \in PageRecords /\ PageOK(p) /\ BufferOK(p)
  BY TypeNow DEF PagesInv
<1>2. w \in Wbufs /\ w # None /\ ~h.full /\ Len(h.buf) < WbufSize /\ page[p].wbuf = w
  BY <1>1, PageFields DEF HasRoom
<1>3. /\ page[p].active /\ page[p].allocated = page[p].written + WbufSize
      /\ ~page[p].free /\ ~page[p].closed /\ page[p].written < PageSize
      /\ page[p].version \in 1 .. version - 1 /\ page[p].bucket \in Buckets
      /\ page[p].written % WbufSize = 0
  BY <1>1, <1>2 DEF PageOK
<1>4. PICK m \in Nat : m = page[p].written
  BY <1>1, PageFields
<1>5. m + WbufSize <= PageSize
  BY <1>1, <1>3, <1>4, PageFields
<1>6. wbuf_stack \in Seq(Wbufs) /\ Once(wbuf_stack) /\ ~In(w, wbuf_stack)
  BY <1>2, TypeNow DEF Buffered
<1>7. \A q \in Pages : q # p => page[q].wbuf # w
  BY <1>2 DEF Buffered
<1>8. h \in WbufRecords /\ h.buf \in Seq(Addresses) /\ h = wbuf[w]
  BY <1>2, TypeNow DEF WbufRecords
<1>9. /\ h.offset = page[p].written
      /\ \A i \in 1 .. Len(h.buf) : h.buf[i] = Addr(p, page[p].version, page[p].written + (i - 1))
  BY <1>1, <1>2, <1>8 DEF BufferOK
<1>10. /\ r \in PageRecords /\ r.wbuf = w /\ r.obj_count = page[p].obj_count + 1
       /\ r.allocated = page[p].allocated /\ r.version = page[p].version
       /\ r.written = page[p].written /\ r.bucket = page[p].bucket
       /\ r.active = page[p].active /\ r.free = page[p].free /\ r.closed = page[p].closed
       /\ r.refcount = page[p].refcount
  <2>1. page[p].obj_count + 1 \in Nat
    BY <1>1, PageFields
  <2> QED BY <1>1, <1>2, <2>1 DEF PageRecords
<1>11. Filled(p) = page[p].written + Len(h.buf)
  BY <1>2, <1>8 DEF Filled
<1>12. p \in Pages
  OBVIOUS
<1>13. \A y : In(y, wbuf_stack) <=> In(y, wbuf_stack) /\ y # w
  BY <1>6
<1> HIDE DEF IInv
<1> QED BY ONLY <1>1, <1>2, <1>3, <1>4, <1>5, <1>6, <1>7, <1>8, <1>9, <1>10, <1>11, <1>12, <1>13 DEF Target

LEMMA Append_facts ==
    ASSUME IInv, NEW b \in Buckets, extstore_write(b)
    PROVE  \E p, w, h, r, s, a :
             /\ p = wp[b] /\ Target(p, w, h, r, s)
             /\ a = Addr(p, page[p].version, page[p].written + Len(h.buf))
             /\ wbuf' = [wbuf EXCEPT ![w] = [h EXCEPT !.buf = Append(h.buf, a)]]
             /\ live' = live \cup {a} /\ wbuf_stack' = s /\ page' = [page EXCEPT ![p] = r]
<1>1. PICK p : p = wp[b]
  OBVIOUS
<1>2. wpc[b] = "page" /\ ~PageFull(p)
  BY <1>1 DEF extstore_write, AtPage
<1>3. p \in Pages /\ page \in [Pages -> PageRecords] /\ page[p] \in PageRecords
  <2>1. WriterOK(b)
    OBVIOUS
  <2> QED BY <1>1, <1>2, <2>1, TypeNow DEF WriterOK
<1>4. CASE page[p].wbuf = None
  <2>1. PICK w, h : /\ w = Head(wbuf_stack) /\ h = [EmptyWbuf EXCEPT !.offset = page[p].allocated]
    OBVIOUS
  <2>2. PICK r, s : /\ r = [page[p] EXCEPT !.wbuf = w, !.obj_count = page[p].obj_count + 1,
                                           !.allocated = page[p].allocated + WbufSize]
                    /\ s = Tail(wbuf_stack)
    OBVIOUS
  <2>3. PICK a : a = [page |-> p, version |-> page[p].version, offset |-> h.offset + Len(h.buf)]
    OBVIOUS
  <2>4. /\ wbuf_stack # <<>> /\ wbuf_stack' = s
        /\ wbuf' = [wbuf EXCEPT ![w] = [h EXCEPT !.buf = Append(h.buf, a)]]
        /\ live' = live \cup {a}
        /\ page' = [page EXCEPT ![p].wbuf = w, ![p].obj_count = @ + 1,
                                ![p].allocated = @ + WbufSize]
    BY <1>1, <1>4, <2>1, <2>2, <2>3 DEF extstore_write, Append_object, HasRoom
  <2>5. page' = [page EXCEPT ![p] = r]
    BY <1>3, <2>2, <2>4
  <2>6. Target(p, w, h, r, s)
    BY <1>2, <1>3, <1>4, <2>1, <2>2, <2>4, FreshTarget
  <2>7. a = Addr(p, page[p].version, page[p].written + Len(h.buf))
    BY <2>3, <2>6 DEF Target, Addr
  <2> QED BY <1>1, <2>4, <2>5, <2>6, <2>7
<1>5. CASE page[p].wbuf # None
  <2>1. PICK w, h : w = page[p].wbuf /\ h = wbuf[w]
    OBVIOUS
  <2>2. PICK r : r = [page[p] EXCEPT !.wbuf = w, !.obj_count = page[p].obj_count + 1]
    OBVIOUS
  <2>3. PICK a : a = [page |-> p, version |-> page[p].version, offset |-> h.offset + Len(h.buf)]
    OBVIOUS
  <2>4. /\ HasRoom(p) /\ wbuf_stack' = wbuf_stack
        /\ wbuf' = [wbuf EXCEPT ![w] = [h EXCEPT !.buf = Append(h.buf, a)]]
        /\ live' = live \cup {a}
        /\ page' = [page EXCEPT ![p].wbuf = w, ![p].obj_count = @ + 1, ![p].allocated = @]
    BY <1>1, <1>5, <2>1, <2>3 DEF extstore_write, Append_object
  <2>5. page' = [page EXCEPT ![p] = r]
    <3>1. r = [page[p] EXCEPT !.wbuf = w, !.obj_count = page[p].obj_count + 1,
                              !.allocated = page[p].allocated]
      BY <1>3, <2>2 DEF PageRecords
    <3> QED BY <1>3, <2>4, <3>1
  <2>6. Target(p, w, h, r, wbuf_stack)
    BY <1>2, <1>3, <2>1, <2>2, <2>4, RoomTarget
  <2>7. a = Addr(p, page[p].version, page[p].written + Len(h.buf))
    BY <2>3, <2>6 DEF Target, Addr
  <2> QED BY <1>1, <2>4, <2>5, <2>6, <2>7
<1> QED BY <1>4, <1>5

LEMMA Step_extstore_write ==
    ASSUME IInv, NEW b \in Buckets, extstore_write(b)
    PROVE  IInv'
<1>1. PICK p, w, h, r, s, a :
             /\ p = wp[b] /\ Target(p, w, h, r, s)
             /\ a = Addr(p, page[p].version, page[p].written + Len(h.buf))
             /\ wbuf' = [wbuf EXCEPT ![w] = [h EXCEPT !.buf = Append(h.buf, a)]]
             /\ live' = live \cup {a} /\ wbuf_stack' = s /\ page' = [page EXCEPT ![p] = r]
  BY Append_facts
<1>2. /\ Unlocked(p) /\ wpc' = [wpc EXCEPT ![b] = "idle"] /\ wp' = [wp EXCEPT ![b] = None]
      /\ UNCHANGED <<disk, io_stack, queue, cur_io, ipc, mpc, scanVars>> /\ SameEngine
  BY <1>1 DEF extstore_write, AtPage, Append_object, SameEngine, engineVars, ioVars
<1>3. PICK m \in Nat, k \in Nat : /\ m = page[p].written /\ k = Len(h.buf) /\ k < WbufSize
                                  /\ m + WbufSize <= PageSize /\ Filled(p) = m + k
  <2>1. /\ page[p] \in PageRecords /\ h.buf \in Seq(Addresses) /\ Len(h.buf) < WbufSize
        /\ page[p].written + WbufSize <= PageSize /\ Filled(p) = page[p].written + Len(h.buf)
    BY ONLY <1>1 DEF Target
  <2>2. page[p].written \in Nat /\ Len(h.buf) \in Nat
    BY <2>1, PageFields
  <2> QED BY ONLY <2>1, <2>2
<1>4. PICK v : v = page[p].version /\ v \in 1 .. MaxVersion /\ v \in 1 .. version - 1
  <2>1. page[p] \in PageRecords /\ page[p].version \in 1 .. version - 1
    BY ONLY <1>1 DEF Target
  <2>2. page[p].version \in 0 .. MaxVersion
    BY <2>1, PageFields
  <2>3. page[p].version \in 1 .. MaxVersion
    BY <2>1, <2>2, TypeNow
  <2> QED BY ONLY <2>1, <2>3
<1>5. /\ a = Addr(p, v, m + k) /\ a \in Addresses /\ a.page = p /\ a.version = v /\ a.offset = m + k
  <2>1. m + k \in 0 .. PageSize - 1 /\ p \in Pages
    BY <1>1, <1>3 DEF Target
  <2>2. a = Addr(p, v, m + k)
    BY <1>1, <1>3, <1>4
  <2> QED BY ONLY <1>4, <2>1, <2>2 DEF Addr, Addresses
<1>6. a \notin live
  <2> SUFFICES ASSUME a \in live PROVE FALSE
    OBVIOUS
  <2>1. Within(a)
    BY DEF IOInv
  <2> QED BY ONLY <1>3, <1>4, <1>5, <2>1 DEF Within
<1>7. PICK g : /\ g = [h EXCEPT !.buf = Append(h.buf, a)]
               /\ g \in WbufRecords /\ ~g.full /\ g.offset = m /\ Len(g.buf) = k + 1
               /\ \A i \in 1 .. k + 1 : g.buf[i] = Addr(p, v, m + (i - 1))
  <2>1. PICK g : g = [h EXCEPT !.buf = Append(h.buf, a)]
    OBVIOUS
  <2>2. PICK z : z = Append(h.buf, a)
    OBVIOUS
  <2>3. h.buf \in Seq(Addresses) /\ h \in WbufRecords /\ ~h.full /\ h.offset = m
        /\ \A i \in 1 .. k : h.buf[i] = Addr(p, v, m + (i - 1))
    BY <1>1, <1>3, <1>4 DEF Target
  <2>4. /\ z \in Seq(Addresses) /\ Len(z) = k + 1 /\ z[k + 1] = a
        /\ \A i \in 1 .. k : z[i] = h.buf[i]
    BY ONLY <1>3, <1>5, <2>2, <2>3, AppendProperties
  <2>5. g \in WbufRecords /\ ~g.full /\ g.offset = m /\ g.buf = z
    BY ONLY <2>1, <2>2, <2>3, <2>4 DEF WbufRecords
  <2>6. ASSUME NEW i \in 1 .. k + 1 PROVE z[i] = Addr(p, v, m + (i - 1))
    <3>1. CASE i = k + 1
      <4>1. m + (i - 1) = m + k
        BY ONLY <1>3, <3>1
      <4> QED BY <1>5, <2>4, <3>1, <4>1
    <3>2. CASE i # k + 1
      <4>1. i \in 1 .. k
        BY ONLY <1>3, <3>2, i \in 1 .. k + 1
      <4> QED BY <2>3, <2>4, <4>1
    <3> QED BY <3>1, <3>2
  <2> QED BY ONLY <2>1, <2>4, <2>5, <2>6
<1>8. /\ p \in Pages /\ w \in Wbufs /\ page[p].wbuf \in {None, w}
      /\ page[p].wbuf # None => ~wbuf[w].full
      /\ \A q \in Pages : q # p => page[q].wbuf # w
      /\ s \in Seq(Wbufs) /\ Once(s) /\ \A y : In(y, s) <=> In(y, wbuf_stack) /\ y # w
      /\ r \in PageRecords /\ r.wbuf = w /\ r.obj_count = page[p].obj_count + 1
      /\ r.allocated = m + WbufSize /\ (r.allocated # PageSize => page[p].allocated # PageSize)
      /\ r.version = v /\ r.written = m /\ r.bucket = page[p].bucket
      /\ r.active = page[p].active /\ r.free = page[p].free /\ r.closed = page[p].closed
      /\ r.refcount = page[p].refcount
  BY <1>1, <1>3, <1>4 DEF Target
<1>9. /\ page' \in [Pages -> PageRecords] /\ page'[p] = r
      /\ \A q \in Pages : q # p => page'[q] = page[q]
  BY <1>1, <1>8, TypeNow
<1>10. /\ wbuf' \in [Wbufs -> WbufRecords] /\ wbuf'[w] = g
       /\ \A x \in Wbufs : x # w => wbuf'[x] = wbuf[x]
  BY <1>1, <1>7, <1>8, TypeNow
<1>11. TypeOK'
  <2>1. \A x \in Wbufs : Len(wbuf'[x].buf) <= WbufSize
    <3>1. \A x \in Wbufs : Len(wbuf[x].buf) <= WbufSize
      BY TypeNow
    <3>2. k + 1 <= WbufSize
      BY <1>3
    <3> QED BY ONLY <1>7, <1>10, <3>1, <3>2
  <2>2. live' \subseteq Addresses
    BY <1>1, <1>5, TypeNow
  <2>3. /\ wpc' \in [Buckets -> {"idle", "request", "page", "newpage"}]
        /\ wp' \in [Buckets -> Pages \cup {None}]
    BY <1>2, TypeNow
  <2>4. wbuf_stack' \in Seq(Wbufs)
    BY <1>1, <1>8
  <2> QED BY <1>2, <1>9, <1>10, <2>1, <2>2, <2>3, <2>4, TypeNow DEF TypeOK, SameEngine, scanVars
<1>12. ASSUME NEW q \in Pages, q # p
       PROVE  /\ PageOK(q)' /\ BufferOK(q)' /\ DiskOK(q)' /\ Stocked(q)' /\ Filled(q)' = Filled(q)
  <2>1. PageOK(q) /\ BufferOK(q) /\ DiskOK(q) /\ Stocked(q)
    BY DEF PagesInv
  <2>2. page'[q] = page[q] /\ page[q].wbuf # w /\ page[q].wbuf \in Wbufs \cup {None}
    BY <1>8, <1>9, <1>12, TypeNow, PageFields
  <2>3. UNCHANGED <<disk, version>>
    BY <1>2 DEF SameEngine
  <2>4. PageOK(q)' /\ DiskOK(q)'
    BY ONLY <2>1, <2>2, <2>3 DEF PageOK, DiskOK
  <2>5. page[q].wbuf # None => wbuf'[page[q].wbuf] = wbuf[page[q].wbuf]
    BY <1>10, <2>2
  <2>6. BufferOK(q)' /\ Filled(q)' = Filled(q)
    BY ONLY <2>1, <2>2, <2>5 DEF BufferOK, Filled
  <2>7. \A x : Objects(q, x)' = Objects(q, x)
    BY ONLY <1>1, <1>5, <1>12 DEF Objects
  <2>8. Stocked(q)'
    <3>1. PICK x : x = page[q].version
      OBVIOUS
    <3>2. Objects(q, x)' = Objects(q, x) /\ page'[q] = page[q]
      BY <2>2, <2>7
    <3>3. ~page[q].free /\ ~page[q].closed => page[q].obj_count = Cardinality(Objects(q, x))
      BY <2>1, <3>1 DEF Stocked
    <3>4. CASE page[q].free \/ page[q].closed
      BY ONLY <3>2, <3>4 DEF Stocked
    <3>5. CASE ~page[q].free /\ ~page[q].closed
      BY <3>1, <3>2, <3>3, <3>5, StockIs
    <3> QED BY <3>4, <3>5
  <2> QED BY <2>4, <2>6, <2>8
<1>13. PageOK(p)' /\ BufferOK(p)' /\ DiskOK(p)' /\ Stocked(p)' /\ Filled(p)' = m + (k + 1)
  <2>1. PageOK(p) /\ DiskOK(p) /\ Stocked(p) /\ version' = version /\ disk' = disk
    BY <1>2, <1>8 DEF PagesInv, SameEngine
  <2>2. /\ page[p].active /\ ~page[p].free /\ ~page[p].closed /\ page[p].bucket \in Buckets
        /\ m < PageSize /\ m % WbufSize = 0
    BY <1>1, <1>3 DEF Target
  <2>3. PageOK(p)'
    <3>1. w # None
      BY <1>8
    <3> QED BY ONLY <1>4, <1>8, <1>9, <2>1, <2>2, <3>1 DEF PageOK
  <2>4. BufferOK(p)' /\ Filled(p)' = m + (k + 1)
    <3>1. w # None
      BY <1>8
    <3> QED BY ONLY <1>7, <1>8, <1>9, <1>10, <3>1 DEF BufferOK, Filled
  <2>5. DiskOK(p)'
    BY ONLY <1>3, <1>4, <1>8, <1>9, <2>1 DEF DiskOK
  <2>6. Stocked(p)'
    <3>1. PICK S : S = Objects(p, v) /\ Objects(p, v)' = S \cup {a} /\ a \notin S /\ S \in SUBSET live
      BY <1>1, <1>5, <1>6 DEF Objects
    <3>2. IsFiniteSet(S)
      BY <3>1, FS_Subset DEF LiveFinite
    <3>3. Cardinality(S \cup {a}) = Cardinality(S) + 1
      BY <3>1, <3>2, FS_AddElement
    <3>4. page[p].obj_count = Cardinality(S)
      BY <1>4, <2>1, <2>2, <3>1 DEF Stocked
    <3>5. page'[p].version = v /\ page'[p].obj_count = Cardinality(Objects(p, v)')
      BY ONLY <1>8, <1>9, <3>1, <3>3, <3>4
    <3> QED BY ONLY <1>8, <3>5, StockIs
  <2> QED BY <2>3, <2>4, <2>5, <2>6
<1>14. \A q \in Pages : /\ page'[q].version = page[q].version /\ page'[q].written = page[q].written
                        /\ page'[q].bucket = page[q].bucket /\ page'[q].free = page[q].free
                        /\ page'[q].active = page[q].active /\ page'[q].refcount = page[q].refcount
  BY <1>3, <1>4, <1>8, <1>9
<1>15. PagesInv'
  <2>1. \A q \in Pages : Counted(q)'
    BY <1>2, <1>14, SameCount
  <2> QED BY <1>12, <1>13, <2>1 DEF PagesInv
<1>16. Lasting
  <2>1. ASSUME NEW io \in IOs, io.mode = "write", WriteOK(io) PROVE WriteOK(io)'
    <3>1. io.page \in Pages /\ io.data \in Wbufs /\ page[io.page].wbuf = io.data /\ wbuf[io.data].full
      BY <2>1, IOFields DEF WriteOK
    <3>2. io.page # p /\ io.data # w
      BY <1>8, <3>1
    <3> QED BY <1>9, <1>10, <3>1, <3>2 DEF WriteOK
  <2>2. ASSUME NEW x \in Addresses, Within(x) PROVE Within(x)'
    <3>1. x.page \in Pages /\ x.offset \in Nat /\ version' = version
      BY <1>2, AddressFields DEF SameEngine
    <3>2. CASE x.page # p
      BY <1>12, <1>14, <2>2, <3>1, <3>2 DEF Within
    <3>3. CASE x.page = p
      <4>1. Filled(p)' = m + (k + 1) /\ page'[p].version = page[p].version
        BY <1>8, <1>13, <1>14
      <4> QED BY ONLY <1>3, <2>2, <3>1, <3>3, <4>1 DEF Within
    <3> QED BY <3>2, <3>3
  <2> QED BY <2>1, <2>2 DEF Lasting
<1>17. IOInv'
  <2>1. WritesOnce' /\ Stays
    BY <1>2, <1>11, SamePlaces
  <2>2. IOsRight'
    BY <1>11, <1>16, <2>1, IOsKept
  <2>3. ASSUME NEW t \in IOThreads PROVE Working(t)'
    <3>1. Working(t) /\ cur_io'[t] = cur_io[t] /\ ipc'[t] = ipc[t] /\ disk' = disk
      BY <1>2 DEF IOInv
    <3>2. CASE ipc[t] = "idle"
      BY <3>1, <3>2 DEF Working
    <3>3. CASE ipc[t] # "idle"
      <4>1. PICK q \in Pages : q = cur_io[t].page
        BY <3>1, <3>3, TypeNow, IOFields DEF Working
      <4>2. page'[q].version = page[q].version /\ page'[q].written = page[q].written
        BY <1>14
      <4> QED BY <3>1, <3>3, <4>1, <4>2 DEF Working
    <3> QED BY <3>2, <3>3
  <2>4. ASSUME NEW x \in live' PROVE Within(x)'
    <3>1. CASE x \in live
      BY <1>16, <3>1, TypeNow DEF Lasting, IOInv
    <3>2. CASE x = a
      <4>1. version' = version /\ version \in Nat
        BY <1>2, TypeNow DEF SameEngine
      <4> QED BY ONLY <1>3, <1>4, <1>5, <1>13, <3>2, <4>1 DEF Within
    <3> QED BY <1>1, <3>1, <3>2
  <2> QED BY <2>1, <2>2, <2>3, <2>4 DEF IOInv
<1>18. Listed'
  <2>1. Listed /\ UNCHANGED <<page_freelist, page_buckets, page_free>>
    BY <1>2 DEF SameEngine
  <2> QED BY ONLY <1>14, <2>1 DEF Listed, Once, In
<1>19. Buffered'
  <2>1. \A q, y \in Pages : page'[q].wbuf = page'[y].wbuf /\ page'[q].wbuf # None => q = y
    BY <1>8, <1>9 DEF Buffered
  <2>2. ASSUME NEW x \in Wbufs PROVE In(x, s) <=> \A q \in Pages : page'[q].wbuf # x
    <3>1. CASE x = w
      BY <1>8, <1>9, <3>1
    <3>2. CASE x # w
      <4>1. \A q \in Pages : page'[q].wbuf = x <=> page[q].wbuf = x
        BY <1>8, <1>9, <3>2
      <4>2. In(x, wbuf_stack) <=> \A q \in Pages : page[q].wbuf # x
        BY DEF Buffered
      <4> QED BY ONLY <1>8, <3>2, <4>1, <4>2
    <3> QED BY <3>1, <3>2
  <2>3. /\ \A x \in Wbufs : In(x, wbuf_stack)' <=> \A q \in Pages : page'[q].wbuf # x
        /\ Once(wbuf_stack)'
    BY ONLY <1>1, <1>8, <2>2 DEF In, Once
  <2>4. FullPages' = FullPages
    <3>1. ASSUME NEW q \in Pages PROVE q \in FullPages' <=> q \in FullPages
      <4>1. CASE q = p
        BY <1>7, <1>8, <1>9, <1>10, <4>1 DEF FullPages
      <4>2. CASE q # p
        <5>1. page'[q] = page[q] /\ page[q].wbuf # w /\ page[q].wbuf \in Wbufs \cup {None}
          BY <1>8, <1>9, <4>2, TypeNow, PageFields
        <5> QED BY <1>10, <5>1 DEF FullPages
      <4> QED BY <4>1, <4>2
    <3> QED BY <3>1 DEF FullPages
  <2> QED BY <1>2, <2>1, <2>3, <2>4 DEF Buffered
<1>20. \A c \in Buckets : WriterOK(c)'
  <2> TAKE c \in Buckets
  <2>1. \A q \in Pages : page'[q].bucket = c /\ page'[q].allocated # PageSize =>
              page[q].bucket = c /\ page[q].allocated # PageSize
    BY <1>8, <1>9
  <2> QED BY <1>2, <2>1, LetGo DEF SameEngine
<1>21. ScanOK'
  <2>1. mpc = "scanfree" => scan # p /\ page'[scan] = page[scan]
    BY <1>2, <1>9, TypeNow DEF Unlocked
  <2>2. low # None => page'[low].free = page[low].free /\ page'[low].active = page[low].active
    BY <1>14, TypeNow
  <2> QED BY <1>2, <2>1, <2>2 DEF ScanOK, SameEngine, scanVars
<1>22. LiveFinite'
  BY <1>1, FS_AddElement DEF LiveFinite
<1> QED BY <1>11, <1>15, <1>17, <1>18, <1>19, <1>20, <1>21, <1>22
-----------------------------------------------------------------------------
(* A page is given out.                                                    *)

Given(b) == [FreePage EXCEPT !.active = TRUE, !.free = FALSE, !.closed = FALSE,
                             !.version = version, !.bucket = b]
Allocates(b, p) ==
    /\ page_freelist # <<>> /\ p = Head(page_freelist) /\ version <= MaxVersion
    /\ page' = [page EXCEPT ![p] = Given(b)]
    /\ page_buckets' = [page_buckets EXCEPT ![b] = <<p>> \o page_buckets[b]]
    /\ page_freelist' = Tail(page_freelist)
    /\ version' = version + 1 /\ page_free' = page_free - 1
    /\ UNCHANGED <<disk, queue, cur_io, ipc, live, mpc, scanVars>> /\ SameBuffers

LEMMA GivenFields ==
    ASSUME NEW b \in Buckets
    PROVE  /\ Given(b).version = version /\ Given(b).refcount = 0 /\ Given(b).allocated = 0
           /\ Given(b).written = 0 /\ Given(b).obj_count = 0 /\ Given(b).bucket = b
           /\ Given(b).active /\ ~Given(b).closed /\ ~Given(b).free /\ Given(b).wbuf = None
           /\ version \in 0 .. MaxVersion => Given(b) \in PageRecords
<1>1. FreePage \in PageRecords
  BY DEF FreePage, PageRecords
<1>2. /\ FreePage.refcount = 0 /\ FreePage.allocated = 0 /\ FreePage.written = 0
      /\ FreePage.obj_count = 0 /\ FreePage.wbuf = None
  BY DEF FreePage
<1> QED BY <1>1, <1>2 DEF Given, PageRecords

LEMMA FreeHead ==
    ASSUME IInv, page_freelist # <<>>, NEW p, p = Head(page_freelist)
    PROVE  p \in Pages /\ In(p, page_freelist) /\ page[p].free /\ page[p] = FreePage
<1>1. page_freelist \in Seq(Pages) /\ Once(page_freelist)
  BY TypeNow DEF Listed
<1>2. p \in Pages /\ In(p, page_freelist)
  BY ONLY <1>1, page_freelist # <<>>, p = Head(page_freelist), TailOnce
<1>3. page[p].free /\ PageOK(p)
  BY <1>2 DEF Listed, PagesInv
<1> QED BY <1>2, <1>3 DEF PageOK

LEMMA AllocateCases ==
    ASSUME IInv, NEW b \in Buckets, _allocate_page(b),
           UNCHANGED <<disk, bufVars, ioVars, live, scanVars>>
    PROVE  (\E p : Allocates(b, p)) \/ (Still /\ extstore_run_maint /\ scanVars' = scanVars)
<1>1. SameBuffers /\ UNCHANGED <<disk, queue, cur_io, ipc, live, scanVars>>
  BY DEF SameBuffers, bufVars, ioVars
<1>2. CASE page_free > 0 /\ page_freelist # <<>>
  <2>1. PICK p : p = Head(page_freelist)
    OBVIOUS
  <2>2. /\ page' = [page EXCEPT ![p].active = TRUE, ![p].free = FALSE, ![p].closed = FALSE,
                                ![p].version = version, ![p].bucket = b]
        /\ page_buckets' = [page_buckets EXCEPT ![b] = <<p>> \o page_buckets[b]]
        /\ page_freelist' = Tail(page_freelist) /\ version <= MaxVersion
        /\ version' = version + 1 /\ page_free' = page_free - 1 /\ mpc' = mpc
    BY <1>2, <2>1, TypeNow DEF _allocate_page
  <2>3. page[p] = FreePage /\ page \in [Pages -> PageRecords] /\ p \in Pages
    BY <1>2, <2>1, FreeHead, TypeNow
  <2>5. page' = [page EXCEPT ![p] = Given(b)]
    BY ONLY <2>2, <2>3 DEF Given
  <2> QED BY <1>1, <1>2, <2>1, <2>2, <2>5 DEF Allocates
<1>3. CASE ~(page_free > 0 /\ page_freelist # <<>>)
  BY <1>1, <1>3 DEF _allocate_page, Still, Quiet, SameEngine, engineVars
<1> QED BY <1>2, <1>3

LEMMA AllocatedLists ==
    ASSUME IInv, NEW b \in Buckets, NEW p, Allocates(b, p)
    PROVE  /\ page' \in [Pages -> PageRecords] /\ page'[p] = Given(b)
           /\ \A q \in Pages : q # p => page'[q] = page[q]
           /\ page_freelist' \in Seq(Pages) /\ page_buckets' \in [Buckets -> Seq(Pages)]
           /\ page_free' \in Nat /\ version' \in 1 .. MaxVersion + 1
           /\ page_buckets'[b] # <<>> /\ Head(page_buckets'[b]) = p
           /\ \A c \in Buckets : c # b => page_buckets'[c] = page_buckets[c]
           /\ Listed'
<1>1. p \in Pages /\ page[p].free /\ page[p] = FreePage /\ In(p, page_freelist)
  BY FreeHead DEF Allocates
<1>2. Given(b) \in PageRecords
  <2>1. version \in 0 .. MaxVersion
    BY TypeNow DEF Allocates
  <2> QED BY <2>1, GivenFields
<1>3. /\ page' \in [Pages -> PageRecords] /\ page'[p] = Given(b)
      /\ \A q \in Pages : q # p => page'[q] = page[q]
  <2>1. page \in [Pages -> PageRecords] /\ page' = [page EXCEPT ![p] = Given(b)]
    BY TypeNow DEF Allocates
  <2> QED BY ONLY <1>1, <1>2, <2>1
<1>4. /\ page_freelist' \in Seq(Pages) /\ Len(page_freelist') = Len(page_freelist) - 1
      /\ Once(page_freelist') /\ \A y : In(y, page_freelist') <=> In(y, page_freelist) /\ y # p
  <2>1. page_freelist \in Seq(Pages) /\ Once(page_freelist) /\ page_freelist # <<>>
        /\ p = Head(page_freelist)
    BY TypeNow DEF Listed, Allocates
  <2>2. PICK s : s = page_freelist' /\ s = Tail(page_freelist)
    BY DEF Allocates
  <2>3. /\ s \in Seq(Pages) /\ Len(s) = Len(page_freelist) - 1 /\ Once(s)
        /\ \A y : In(y, s) <=> In(y, page_freelist) /\ y # p
    BY ONLY <2>1, <2>2, TailOnce
  <2> QED BY ONLY <2>2, <2>3 DEF Once, In
<1>5. page_free' = Len(page_freelist') /\ page_free' \in Nat
  <2>1. page_free = Len(page_freelist) /\ page_free' = page_free - 1 /\ Len(page_freelist') \in Nat
    BY <1>4 DEF Listed, Allocates
  <2> QED BY ONLY <1>4, <2>1
<1>6. PICK s : /\ s = <<p>> \o page_buckets[b] /\ s \in Seq(Pages) /\ s # <<>> /\ Head(s) = p /\ Once(s)
               /\ \A y : In(y, s) <=> y = p \/ In(y, page_buckets[b])
  <2>1. PICK z : z = page_buckets[b] /\ z \in Seq(Pages) /\ Once(z)
    BY TypeNow DEF Listed
  <2>2. ~In(p, z)
    BY <1>1, <2>1 DEF Listed, FreePage
  <2>3. PICK s : s = <<p>> \o z
    OBVIOUS
  <2>4. p \in Pages
    BY <1>1
  <2>5. s \in Seq(Pages) /\ Once(s)
    BY ONLY <2>1, <2>2, <2>3, <2>4, PushOnce
  <2>7. \A y : In(y, s) <=> y = p \/ In(y, z)
    <3>1. z \in Seq(Pages) /\ p \in Pages /\ Once(z) /\ ~In(p, z) /\ s = <<p>> \o z
      BY <2>1, <2>2, <2>3, <2>4
    <3> QED BY ONLY <3>1, PushOnce, Zenon
  <2>6. s # <<>> /\ Head(s) = p
    BY ONLY <2>1, <2>2, <2>3, <2>4, PushOnce
  <2> QED BY ONLY <2>1, <2>3, <2>5, <2>6, <2>7
<1>7. /\ page_buckets' \in [Buckets -> Seq(Pages)] /\ page_buckets'[b] = s
      /\ \A c \in Buckets : c # b => page_buckets'[c] = page_buckets[c]
  <2>1. page_buckets \in [Buckets -> Seq(Pages)] /\ page_buckets' = [page_buckets EXCEPT ![b] = s]
    BY <1>6, TypeNow DEF Allocates
  <2>2. s \in Seq(Pages)
    BY <1>6
  <2> QED BY ONLY <2>1, <2>2, b \in Buckets
<1>8. version' \in 1 .. MaxVersion + 1
  <2>1. version \in 1 .. MaxVersion + 1 /\ version <= MaxVersion /\ version' = version + 1
    BY TypeNow DEF Allocates
  <2> QED BY ONLY <2>1, Constants
<1>9. Listed'
  <2>1. Listed
    OBVIOUS
  <2>2. \A c \in Buckets : Once(page_buckets'[c])
    BY ONLY <1>6, <1>7, <2>1 DEF Listed
  <2>3. ASSUME NEW q \in Pages
        PROVE  /\ In(q, page_freelist') <=> page'[q].free
               /\ \A c \in Buckets : In(q, page_buckets'[c]) <=> page'[q].bucket = c
    <3>1. CASE q = p
      <4>1. page'[q].bucket = b /\ ~page'[q].free
        BY <1>3, <3>1, GivenFields
      <4>2. ASSUME NEW c \in Buckets, c # b PROVE ~In(q, page_buckets'[c])
        <5>1. ~In(p, page_buckets[c])
          BY <1>1 DEF Listed, FreePage
        <5> QED BY <1>7, <3>1, <4>2, <5>1
      <4> QED BY <1>4, <1>6, <1>7, <3>1, <4>1, <4>2
    <3>2. CASE q # p
      <4>1. /\ In(q, page_freelist) <=> page[q].free
            /\ \A c \in Buckets : In(q, page_buckets[c]) <=> page[q].bucket = c
        BY <2>1 DEF Listed
      <4>2. page'[q] = page[q] /\ (In(q, page_freelist') <=> In(q, page_freelist))
        BY <1>3, <1>4, <3>2
      <4>3. ASSUME NEW c \in Buckets PROVE In(q, page_buckets'[c]) <=> In(q, page_buckets[c])
        <5>1. CASE c = b
          BY ONLY <1>6, <1>7, <3>2, <5>1
        <5>2. CASE c # b
          BY <1>7, <5>2
        <5> QED BY <5>1, <5>2
      <4> QED BY ONLY <4>1, <4>2, <4>3
    <3> QED BY <3>1, <3>2
  <2> QED BY ONLY <1>4, <1>5, <2>2, <2>3 DEF Listed, Once, In
<1> QED BY <1>3, <1>4, <1>5, <1>6, <1>7, <1>8, <1>9

\* Everything but the writers.
LEMMA AllocatedParts ==
    ASSUME IInv, TypeOK', NEW b \in Buckets, NEW p, Allocates(b, p)
    PROVE  PagesInv' /\ IOInv' /\ Listed' /\ Buffered' /\ ScanOK' /\ LiveFinite'
<1>1. p \in Pages /\ page[p].free /\ page[p] = FreePage
  BY FreeHead DEF Allocates
<1>2. /\ page'[p] = Given(b) /\ Listed' /\ \A q \in Pages : q # p => page'[q] = page[q]
  BY AllocatedLists
<1>3. /\ version \in Nat \ {0} /\ version' = version + 1 /\ SameBuffers
      /\ UNCHANGED <<disk, queue, cur_io, ipc, live, mpc, scanVars>>
  BY TypeNow DEF Allocates
<1>4. \A q \in Pages : page'[q].wbuf = page[q].wbuf /\ page'[q].refcount = page[q].refcount
  BY <1>1, <1>2, GivenFields DEF FreePage
<1>5. ASSUME NEW q \in Pages
      PROVE  PageOK(q)' /\ BufferOK(q)' /\ DiskOK(q)' /\ Stocked(q)'
  <2>1. PageOK(q) /\ BufferOK(q) /\ DiskOK(q) /\ Stocked(q)
    BY DEF PagesInv
  <2>2. CASE q # p
    <3>1. page'[q] = page[q] /\ UNCHANGED <<disk, live, wbuf>>
      BY <1>2, <1>3, <2>2 DEF SameBuffers
    <3>2. BufferOK(q)' /\ DiskOK(q)' /\ Stocked(q)'
      BY ONLY <2>1, <3>1 DEF BufferOK, DiskOK, Stocked, Objects
    <3>3. \A v \in 1 .. version - 1 : v \in 1 .. version' - 1
      BY <1>3
    <3>4. PageOK(q)'
      BY ONLY <2>1, <3>1, <3>3 DEF PageOK
    <3> QED BY <3>2, <3>4
  <2>3. CASE q = p
    <3>1. version \in 1 .. version' - 1 /\ 0 < PageSize /\ 0 % WbufSize = 0
      BY <1>3
    <3>2. PageOK(q)'
      BY ONLY <1>2, <2>3, <3>1, b \in Buckets, GivenFields DEF PageOK
    <3>3. BufferOK(q)'
      BY ONLY <1>2, <2>3, GivenFields DEF BufferOK
    <3>4. DiskOK(q)'
      <4>1. page'[q].written = 0 /\ 0 .. 0 - 1 = {}
        BY <1>2, <2>3, GivenFields
      <4> QED BY ONLY <4>1 DEF DiskOK
    <3>5. Stocked(q)'
      <4>1. PICK v : v = version
        OBVIOUS
      <4>2. \A a \in live : a.version < v
        BY <4>1 DEF IOInv, Within
      <4>3. Objects(q, v)' = {}
        BY <1>3, <4>1, <4>2 DEF Objects
      <4>4. page'[q].version = v /\ page'[q].obj_count = Cardinality(Objects(q, v)')
        BY <1>2, <2>3, <4>1, <4>3, FS_EmptySet, GivenFields
      <4> QED BY ONLY <4>4, q \in Pages, StockIs
    <3> QED BY <3>2, <3>3, <3>4, <3>5
  <2> QED BY <2>2, <2>3
<1>6. PagesInv'
  <2>1. \A q \in Pages : Counted(q)'
    BY <1>3, <1>4, SameCount
  <2> QED BY <1>5, <2>1 DEF PagesInv
<1>7. Lasting
  <2>1. ASSUME NEW io \in IOs, io.mode = "write", WriteOK(io) PROVE WriteOK(io)'
    BY <1>3, <1>4, <2>1, IOFields DEF WriteOK, SameBuffers
  <2>2. ASSUME NEW a \in Addresses, Within(a) PROVE Within(a)'
    <3>1. a.page \in Pages /\ a.version \in Nat /\ a.version < version
      BY <2>2, AddressFields DEF Within
    <3>2. a.version < version' /\ a.version # version
      BY ONLY <1>3, <3>1
    <3>3. CASE a.page = p
      BY <1>2, <3>2, <3>3, GivenFields DEF Within
    <3>4. CASE a.page # p
      <4>1. page'[a.page] = page[a.page] /\ wbuf' = wbuf
        BY <1>2, <1>3, <3>1, <3>4 DEF SameBuffers
      <4> QED BY ONLY <2>2, <3>2, <4>1 DEF Within, Filled
    <3> QED BY <3>3, <3>4
  <2> QED BY <2>1, <2>2 DEF Lasting
<1>8. IOInv'
  <2>1. WritesOnce' /\ Stays
    BY <1>3, SamePlaces
  <2>2. IOsRight'
    BY <1>7, <2>1, IOsKept
  <2>3. ASSUME NEW t \in IOThreads PROVE Working(t)'
    <3>1. Working(t) /\ cur_io' = cur_io /\ ipc' = ipc /\ disk' = disk
      BY <1>3 DEF IOInv
    <3>2. CASE ipc[t] = "idle"
      BY <3>1, <3>2 DEF Working
    <3>3. CASE ipc[t] # "idle"
      <4>1. PICK io : io = cur_io[t] /\ io \in IOs
        BY <3>1, <3>3, TypeNow DEF Working
      <4>2. io.page # p
        <5>1. CASE ipc[t] = "pread"
          <6>1. io.mode = "read" /\ page[io.page].version = io.data.version
            BY <3>1, <4>1, <5>1 DEF Working
          <6>2. io.data.version # 0
            BY <4>1, <6>1, IOFields, AddressFields
          <6> QED BY <1>1, <6>1, <6>2 DEF FreePage
        <5>2. CASE ipc[t] = "wbuf_cb"
          <6>1. io.mode = "write" /\ 0 \in Places(t) /\ IOAt(t, 0) = io
            BY <3>1, <4>1, <5>2, TypeNow DEF Working, Places, IOAt
          <6>2. WriteOK(io) /\ io.data \in Wbufs
            BY <4>1, <6>1, IOFields DEF IOInv, IOsRight
          <6> QED BY <1>1, <6>2 DEF WriteOK, FreePage
        <5> QED BY <3>3, <5>1, <5>2, TypeNow
      <4>3. page'[io.page] = page[io.page]
        BY <1>2, <4>1, <4>2, IOFields
      <4> QED BY ONLY <3>1, <4>1, <4>3 DEF Working
    <3> QED BY <3>2, <3>3
  <2>4. \A x \in live' : Within(x)'
    BY <1>3, <1>7, TypeNow DEF Lasting, IOInv
  <2> QED BY <2>1, <2>2, <2>3, <2>4 DEF IOInv
<1>9. Buffered'
  <2>1. FullPages' = FullPages
    BY <1>3, <1>4 DEF FullPages, SameBuffers
  <2>2. Buffered /\ UNCHANGED <<wbuf_stack, io_stack>>
    BY <1>3 DEF SameBuffers
  <2> QED BY ONLY <1>4, <2>1, <2>2 DEF Buffered, Once, In
<1>10. ScanOK'
  <2>1. ~do_evict
    BY DEF ScanOK, Allocates
  <2>2. low # None => low # p /\ page'[low] = page[low]
    BY <1>1, <1>2, TypeNow DEF ScanOK
  <2>3. scan = p \/ page'[scan] = page[scan]
    BY <1>2, TypeNow
  <2>4. page'[p].allocated = 0 /\ page'[p].obj_count = 0
    BY <1>2, GivenFields
  <2> QED BY <1>3, <2>1, <2>2, <2>3, <2>4 DEF ScanOK, scanVars
<1>11. LiveFinite'
  BY <1>3 DEF LiveFinite
<1> QED BY <1>2, <1>6, <1>8, <1>9, <1>10, <1>11

\* The writers, when the pages of the bucket had no room.
LEMMA AllocatedWriters ==
    ASSUME IInv, NEW b \in Buckets, NEW p, Allocates(b, p), p \in Pages,
           \A q \in Pages : page[q].bucket = b => page[q].allocated = PageSize,
           wpc' \in [Buckets -> {"idle", "request", "page", "newpage"}],
           \A c \in Buckets : c # b => wpc'[c] = wpc[c] /\ wp'[c] = wp[c],
           \/ wpc'[b] = "request" /\ wp'[b] = None
           \/ wpc'[b] = "page" /\ wp'[b] = p,
           NEW c \in Buckets
    PROVE  WriterOK(c)'
<1>1. /\ page'[p] = Given(b) /\ \A q \in Pages : q # p => page'[q] = page[q]
  BY AllocatedLists
<1>2. /\ page_buckets'[b] # <<>> /\ Head(page_buckets'[b]) = p
      /\ \A d \in Buckets : d # b => page_buckets'[d] = page_buckets[d]
  BY AllocatedLists
<1>3. page'[p].bucket = b
  BY <1>1, GivenFields
<1>4. WriterOK(c) /\ p # None
  OBVIOUS
<1>5. CASE c # b
  <2>1. wpc'[c] = wpc[c] /\ wp'[c] = wp[c] /\ page_buckets'[c] = page_buckets[c]
    BY <1>2, <1>5
  <2>2. \A q \in Pages : page'[q].bucket = c => page'[q] = page[q]
    BY <1>1, <1>3, <1>5
  <2> QED BY ONLY <1>4, <2>1, <2>2 DEF WriterOK
<1>6. CASE c = b
  <2>1. \A q \in Pages : page'[q].bucket = b /\ page'[q].allocated # PageSize => q = p
    BY <1>1
  <2> QED BY <1>2, <1>4, <1>6, <2>1 DEF WriterOK
<1> QED BY <1>5, <1>6

LEMMA Step_PickPage ==
    ASSUME IInv, NEW b \in Buckets, PickPage(b)
    PROVE  IInv'
<1>1. wpc[b] = "request" /\ UNCHANGED <<disk, bufVars, ioVars, live, scanVars>>
  BY DEF PickPage
<1>2. wpc \in [Buckets -> {"idle", "request", "page", "newpage"}] /\ wp \in [Buckets -> Pages \cup {None}]
      /\ page_buckets \in [Buckets -> Seq(Pages)] /\ page_buckets[b] \in Seq(Pages)
  BY TypeNow
<1>3. CASE page_buckets[b] # <<>>
  <2>1. PICK p : p = Head(page_buckets[b])
    OBVIOUS
  <2>2. /\ Still /\ UNCHANGED <<mpc, scanVars>>
        /\ wp' = [wp EXCEPT ![b] = p] /\ wpc' = [wpc EXCEPT ![b] = "page"]
    BY <1>1, <1>3, <2>1 DEF PickPage, Still, Quiet, SameBuffers, SameEngine, engineVars, bufVars, ioVars
  <2>3. p \in Pages
    BY ONLY <1>2, <1>3, <2>1, HeadTailProperties
  <2>4. TypeOK'
    BY <2>2, <2>3, TypeNow DEF TypeOK, Still, Quiet, SameBuffers, SameEngine, scanVars
  <2>5. Calm /\ PagesInv' /\ IOInv' /\ Listed' /\ Buffered' /\ LiveFinite'
    BY <2>2, <2>4, StillParts
  <2>6. ASSUME NEW c \in Buckets PROVE WriterOK(c)'
    <3>1. WriterOK(c)
      OBVIOUS
    <3>2. CASE c # b
      BY <1>2, <2>2, <2>5, <3>2, CalmWriter
    <3>3. CASE c = b
      <4>1. /\ wpc'[b] = "page" /\ wp'[b] = p /\ p # None
            /\ page' = page /\ page_buckets' = page_buckets
        BY <1>2, <2>2, <2>3 DEF Still, Quiet, SameEngine
      <4> QED BY ONLY <1>1, <1>3, <2>1, <3>1, <3>3, <4>1 DEF WriterOK
    <3> QED BY <3>2, <3>3
  <2>7. ScanOK'
    BY <2>2, <2>5, CalmScan DEF Still, Quiet
  <2> QED BY <2>4, <2>5, <2>6, <2>7
<1>4. CASE page_buckets[b] = <<>>
  <2>1. _allocate_page(b)
    BY <1>4 DEF PickPage
  <2>2. CASE \E p : Allocates(b, p)
    <3>1. PICK p : Allocates(b, p)
      BY <2>2
    <3>2. p \in Pages
      BY <3>1, FreeHead DEF Allocates
    <3>3. /\ page' \in [Pages -> PageRecords]
          /\ page_freelist' \in Seq(Pages) /\ page_buckets' \in [Buckets -> Seq(Pages)]
          /\ page_free' \in Nat /\ version' \in 1 .. MaxVersion + 1
          /\ page_buckets'[b] # <<>> /\ Head(page_buckets'[b]) = p
      BY <3>1, AllocatedLists
    <3>4. /\ wp' = [wp EXCEPT ![b] = p] /\ wpc' = [wpc EXCEPT ![b] = "page"]
      BY <3>3 DEF PickPage
    <3>5. /\ wp' \in [Buckets -> Pages \cup {None}]
          /\ wpc' \in [Buckets -> {"idle", "request", "page", "newpage"}]
          /\ wpc'[b] = "page" /\ wp'[b] = p
          /\ \A c \in Buckets : c # b => wpc'[c] = wpc[c] /\ wp'[c] = wp[c]
      BY ONLY <1>2, <3>2, <3>4, b \in Buckets
    <3>6. TypeOK'
      BY <3>1, <3>3, <3>5, TypeNow DEF TypeOK, Allocates, SameBuffers, scanVars
    <3>7. PagesInv' /\ IOInv' /\ Listed' /\ Buffered' /\ ScanOK' /\ LiveFinite'
      BY <3>1, <3>6, AllocatedParts
    <3>8. \A q \in Pages : page[q].bucket = b => page[q].allocated = PageSize
      BY <1>4 DEF Listed, In
    <3>9. \A c \in Buckets : WriterOK(c)'
      BY <3>1, <3>2, <3>5, <3>8, AllocatedWriters
    <3> QED BY <3>6, <3>7, <3>9
  <2>3. CASE Still /\ extstore_run_maint /\ scanVars' = scanVars
    <3>1. UNCHANGED <<wpc, wp>>
      BY <1>4, <2>3 DEF PickPage, Still, Quiet, SameEngine, writerVars
    <3>2. TypeOK'
      BY <2>3, <3>1, TypeNow, RunMaint DEF TypeOK, Still, Quiet, SameBuffers, SameEngine, scanVars
    <3>3. Calm /\ PagesInv' /\ IOInv' /\ Listed' /\ Buffered' /\ LiveFinite'
      BY <2>3, <3>2, StillParts
    <3>4. \A c \in Buckets : WriterOK(c)'
      BY <3>1, <3>3, CalmWriter
    <3>5. ScanOK'
      BY <2>3, <3>3, CalmScan, RunMaint DEF Still, Quiet
    <3> QED BY <3>2, <3>3, <3>4, <3>5
  <2> QED BY <1>1, <2>1, <2>2, <2>3, AllocateCases
<1> QED BY <1>3, <1>4

LEMMA Step_NewPage ==
    ASSUME IInv, NEW b \in Buckets, NewPage(b)
    PROVE  IInv'
<1>1. /\ wpc[b] = "newpage" /\ UNCHANGED <<disk, bufVars, ioVars, live, scanVars>>
      /\ wpc' = [wpc EXCEPT ![b] = "request"] /\ wp' = [wp EXCEPT ![b] = None] /\ _allocate_page(b)
  BY DEF NewPage
<1>2. wpc \in [Buckets -> {"idle", "request", "page", "newpage"}] /\ wp \in [Buckets -> Pages \cup {None}]
  BY TypeNow
<1>3. /\ wp' \in [Buckets -> Pages \cup {None}]
      /\ wpc' \in [Buckets -> {"idle", "request", "page", "newpage"}]
      /\ wpc'[b] = "request" /\ wp'[b] = None
      /\ \A c \in Buckets : c # b => wpc'[c] = wpc[c] /\ wp'[c] = wp[c]
  BY ONLY <1>1, <1>2, b \in Buckets
<1>4. CASE \E p : Allocates(b, p)
  <2>1. PICK p : Allocates(b, p)
    BY <1>4
  <2>2. p \in Pages
    BY <2>1, FreeHead DEF Allocates
  <2>3. /\ page' \in [Pages -> PageRecords]
        /\ page_freelist' \in Seq(Pages) /\ page_buckets' \in [Buckets -> Seq(Pages)]
        /\ page_free' \in Nat /\ version' \in 1 .. MaxVersion + 1
    BY <2>1, AllocatedLists
  <2>4. TypeOK'
    BY <1>3, <2>1, <2>3, TypeNow DEF TypeOK, Allocates, SameBuffers, scanVars
  <2>5. PagesInv' /\ IOInv' /\ Listed' /\ Buffered' /\ ScanOK' /\ LiveFinite'
    BY <2>1, <2>4, AllocatedParts
  <2>6. \A q \in Pages : page[q].bucket = b => page[q].allocated = PageSize
    <3>1. WriterOK(b)
      OBVIOUS
    <3> QED BY ONLY <1>1, <3>1 DEF WriterOK
  <2>7. \A c \in Buckets : WriterOK(c)'
    BY <1>3, <2>1, <2>2, <2>6, AllocatedWriters
  <2> QED BY <2>4, <2>5, <2>7
<1>5. CASE Still /\ extstore_run_maint /\ scanVars' = scanVars
  <2>1. TypeOK'
    BY <1>3, <1>5, TypeNow, RunMaint DEF TypeOK, Still, Quiet, SameBuffers, SameEngine, scanVars
  <2>2. Calm /\ PagesInv' /\ IOInv' /\ Listed' /\ Buffered' /\ LiveFinite'
    BY <1>5, <2>1, StillParts
  <2>3. \A c \in Buckets : WriterOK(c)'
    BY <1>1, <1>5, LetGo DEF Still, Quiet, SameEngine
  <2>4. ScanOK'
    BY <1>5, <2>2, CalmScan, RunMaint DEF Still, Quiet
  <2> QED BY <2>1, <2>2, <2>3, <2>4
<1> QED BY <1>1, <1>4, <1>5, AllocateCases
-----------------------------------------------------------------------------
(* A page is freed.                                                        *)

Frees(p) ==
    /\ p \in Pages /\ ~page[p].free /\ page[p].refcount = 0 /\ page[p].wbuf = None
    /\ _free_page(p)
    /\ UNCHANGED <<disk, queue, cur_io, ipc, live, wpc, wp>> /\ SameBuffers

LEMMA FreedPage ==
    ASSUME IInv, NEW p, Frees(p)
    PROVE  /\ page' \in [Pages -> PageRecords] /\ page'[p] = FreePage
           /\ \A q \in Pages : q # p => page'[q] = page[q]
<1>1. page \in [Pages -> PageRecords] /\ p \in Pages /\ FreePage \in PageRecords
  BY TypeNow DEF Frees, FreePage, PageRecords
<1>2. FreePage.refcount = 0 /\ FreePage.wbuf = None
  BY DEF FreePage
<1>3. page[p].refcount = FreePage.refcount /\ page[p].wbuf = FreePage.wbuf
  BY <1>2 DEF Frees
<1>4. [FreePage EXCEPT !.refcount = page[p].refcount, !.wbuf = page[p].wbuf] = FreePage
  BY ONLY <1>1, <1>3 DEF PageRecords
<1>5. page' = [page EXCEPT ![p] = FreePage]
  BY <1>4 DEF Frees, _free_page
<1> QED BY ONLY <1>1, <1>5

LEMMA FreedLists ==
    ASSUME IInv, NEW p, Frees(p)
    PROVE  /\ page_freelist' \in Seq(Pages) /\ page_buckets' \in [Buckets -> Seq(Pages)]
           /\ page_free' \in Nat /\ version' = version /\ Listed'
           /\ \A c \in Buckets : page_buckets[c] # <<>> /\ Head(page_buckets[c]) # p =>
                page_buckets'[c] # <<>> /\ Head(page_buckets'[c]) = Head(page_buckets[c])
<1>1. p \in Pages /\ ~page[p].free /\ PageOK(p) /\ Listed
  BY DEF Frees, PagesInv
<1>2. /\ page'[p] = FreePage /\ \A q \in Pages : q # p => page'[q] = page[q]
  BY FreedPage
<1>3. PICK s : /\ s = page_freelist' /\ s \in Seq(Pages) /\ Len(s) = Len(page_freelist) + 1 /\ Once(s)
               /\ \A y : In(y, s) <=> y = p \/ In(y, page_freelist)
  <2>1. page_freelist \in Seq(Pages) /\ Once(page_freelist) /\ ~In(p, page_freelist)
    BY <1>1, TypeNow DEF Listed
  <2>2. PICK s : s = page_freelist' /\ s = <<p>> \o page_freelist
    BY DEF Frees, _free_page
  <2>3. p \in Pages /\ s = <<p>> \o page_freelist
    BY <1>1, <2>2
  <2>4. s \in Seq(Pages) /\ Len(s) = Len(page_freelist) + 1 /\ Once(s)
    BY ONLY <2>1, <2>3, PushOnce
  <2>5. \A y : In(y, s) <=> y = p \/ In(y, page_freelist)
    BY ONLY <2>1, <2>3, PushOnce, Zenon
  <2> QED BY ONLY <2>2, <2>4, <2>5
<1>4. /\ page_free' = Len(s) /\ page_free' \in Nat /\ version' = version
  <2>1. page_free = Len(page_freelist) /\ page_free' = page_free + 1 /\ version' = version
    BY <1>1 DEF Listed, Frees, _free_page
  <2>2. Len(s) \in Nat
    BY <1>3
  <2> QED BY ONLY <1>3, <2>1, <2>2
<1>5. ASSUME NEW c \in Buckets
      PROVE  /\ page_buckets'[c] \in Seq(Pages) /\ Once(page_buckets'[c])
             /\ \A y : In(y, page_buckets'[c]) <=> In(y, page_buckets[c]) /\ y # p
             /\ page_buckets[c] # <<>> /\ Head(page_buckets[c]) # p =>
                  page_buckets'[c] # <<>> /\ Head(page_buckets'[c]) = Head(page_buckets[c])
  <2>1. PICK z, u : /\ z = page_buckets'[c] /\ u = page_buckets[c]
                    /\ z = IF c = page[p].bucket THEN Unlinked(u, p) ELSE u
    BY DEF Frees, _free_page
  <2>2. u \in Seq(Pages) /\ Once(u) /\ (In(p, u) <=> page[p].bucket = c)
    BY <1>1, <2>1, TypeNow DEF Listed
  <2>3. /\ z \in Seq(Pages) /\ Once(z) /\ (\A y : In(y, z) <=> In(y, u) /\ y # p)
        /\ u # <<>> /\ Head(u) # p => z # <<>> /\ Head(z) = Head(u)
    <3>1. CASE c = page[p].bucket
      <4>1. z = Unlinked(u, p)
        BY <2>1, <3>1
      <4> QED BY ONLY <2>2, <4>1, UnlinkOnce
    <3>2. CASE c # page[p].bucket
      <4>1. z = u /\ ~In(p, u)
        BY <2>1, <2>2, <3>2
      <4> QED BY ONLY <2>2, <4>1
    <3> QED BY <3>1, <3>2
  <2> QED BY ONLY <2>1, <2>3 DEF Once, In
<1>6. page_buckets' \in [Buckets -> Seq(Pages)]
  <2>1. PICK z : z = page_buckets'
    OBVIOUS
  <2>2. z = [b \in Buckets |-> IF b = page[p].bucket THEN Unlinked(page_buckets[b], p)
                               ELSE page_buckets[b]]
    BY <2>1 DEF Frees, _free_page
  <2>3. \A c \in Buckets : z[c] \in Seq(Pages)
    BY <1>5, <2>1
  <2> QED BY ONLY <2>1, <2>2, <2>3
<1>7. Listed'
  <2>1. ASSUME NEW q \in Pages
        PROVE  /\ In(q, s) <=> page'[q].free
               /\ \A c \in Buckets : In(q, page_buckets'[c]) <=> page'[q].bucket = c
    <3>1. CASE q = p
      <4>1. page'[q].free /\ page'[q].bucket = None
        BY <1>2, <3>1 DEF FreePage
      <4> QED BY <1>3, <1>5, <3>1, <4>1
    <3>2. CASE q # p
      <4>1. /\ In(q, page_freelist) <=> page[q].free
            /\ \A c \in Buckets : In(q, page_buckets[c]) <=> page[q].bucket = c
        BY <1>1 DEF Listed
      <4>2. page'[q] = page[q]
        BY <1>2, <3>2
      <4> QED BY ONLY <1>3, <1>5, <3>2, <4>1, <4>2
    <3> QED BY <3>1, <3>2
  <2> QED BY ONLY <1>3, <1>4, <1>5, <2>1 DEF Listed, Once, In
<1> QED BY <1>3, <1>4, <1>5, <1>6, <1>7

\* Everything but the maintenance thread.
LEMMA FreedParts ==
    ASSUME IInv, TypeOK', NEW p, Frees(p)
    PROVE  /\ PagesInv' /\ IOInv' /\ Listed' /\ Buffered' /\ LiveFinite'
           /\ \A c \in Buckets : WriterOK(c)'
<1>1. p \in Pages /\ ~page[p].free /\ page[p].refcount = 0 /\ page[p].wbuf = None
      /\ UNCHANGED <<disk, queue, cur_io, ipc, live, wpc, wp>> /\ SameBuffers
  BY DEF Frees
<1>2. /\ page'[p] = FreePage /\ \A q \in Pages : q # p => page'[q] = page[q]
  BY FreedPage
<1>3. version' = version /\ Listed'
  BY FreedLists
<1>4. \A q \in Pages : page'[q].wbuf = page[q].wbuf /\ page'[q].refcount = page[q].refcount
  BY <1>1, <1>2 DEF FreePage
<1>5. ASSUME NEW q \in Pages
      PROVE  PageOK(q)' /\ BufferOK(q)' /\ DiskOK(q)' /\ Stocked(q)'
  <2>1. PageOK(q) /\ BufferOK(q) /\ DiskOK(q) /\ Stocked(q)
    BY DEF PagesInv
  <2>2. CASE q # p
    <3>1. page'[q] = page[q] /\ UNCHANGED <<disk, live, wbuf, version>>
      BY <1>1, <1>2, <1>3, <2>2 DEF SameBuffers
    <3> QED BY ONLY <2>1, <3>1 DEF PageOK, BufferOK, DiskOK, Stocked, Objects
  <2>3. CASE q = p
    <3>1. /\ page'[q].free /\ page'[q] = FreePage /\ page'[q].wbuf = None /\ ~page'[q].active
          /\ page'[q].allocated = 0 /\ page'[q].written = 0 /\ 0 % WbufSize = 0
      BY <1>2, <2>3 DEF FreePage
    <3> QED BY ONLY <3>1 DEF PageOK, BufferOK, DiskOK, Stocked
  <2> QED BY <2>2, <2>3
<1>6. PagesInv'
  <2>1. \A q \in Pages : Counted(q)'
    BY <1>1, <1>4, SameCount
  <2> QED BY <1>5, <2>1 DEF PagesInv
<1>7. Lasting
  <2>1. ASSUME NEW io \in IOs, io.mode = "write", WriteOK(io) PROVE WriteOK(io)'
    BY <1>1, <1>4, <2>1, IOFields DEF WriteOK, SameBuffers
  <2>2. ASSUME NEW a \in Addresses, Within(a) PROVE Within(a)'
    <3>1. a.page \in Pages /\ a.version # 0
      BY AddressFields
    <3>2. CASE a.page = p
      BY <1>2, <1>3, <2>2, <3>1, <3>2 DEF Within, FreePage
    <3>3. CASE a.page # p
      <4>1. page'[a.page] = page[a.page] /\ wbuf' = wbuf
        BY <1>1, <1>2, <3>1, <3>3 DEF SameBuffers
      <4> QED BY ONLY <1>3, <2>2, <4>1 DEF Within, Filled
    <3> QED BY <3>2, <3>3
  <2> QED BY <2>1, <2>2 DEF Lasting
<1>8. Readers(p) = {}
  <2>1. Counted(p)
    BY <1>1 DEF PagesInv
  <2>2. Readers(p) \in SUBSET IOThreads
    BY DEF Readers
  <2>3. IsFiniteSet(Readers(p))
    BY <2>2, FS_Subset
  <2> QED BY <1>1, <2>1, <2>3, FS_EmptySet DEF Counted
<1>9. IOInv'
  <2>1. WritesOnce' /\ Stays
    BY <1>1, SamePlaces
  <2>2. IOsRight'
    BY <1>7, <2>1, IOsKept
  <2>3. ASSUME NEW t \in IOThreads PROVE Working(t)'
    <3>1. Working(t) /\ cur_io' = cur_io /\ ipc' = ipc /\ disk' = disk
      BY <1>1 DEF IOInv
    <3>2. CASE ipc[t] = "idle"
      BY <3>1, <3>2 DEF Working
    <3>3. CASE ipc[t] # "idle"
      <4>1. PICK io : io = cur_io[t] /\ io \in IOs
        BY <3>1, <3>3, TypeNow DEF Working
      <4>2. io.page # p
        <5>1. CASE ipc[t] = "pread"
          BY <1>8, <4>1, <5>1 DEF Readers
        <5>2. CASE ipc[t] = "wbuf_cb"
          <6>1. io.mode = "write" /\ 0 \in Places(t) /\ IOAt(t, 0) = io
            BY <3>1, <4>1, <5>2, TypeNow DEF Working, Places, IOAt
          <6>2. WriteOK(io) /\ io.data \in Wbufs
            BY <4>1, <6>1, IOFields DEF IOInv, IOsRight
          <6> QED BY <1>1, <6>2 DEF WriteOK
        <5> QED BY <3>3, <5>1, <5>2, TypeNow
      <4>3. page'[io.page] = page[io.page]
        BY <1>2, <4>1, <4>2, IOFields
      <4> QED BY ONLY <3>1, <4>1, <4>3 DEF Working
    <3> QED BY <3>2, <3>3
  <2>4. \A x \in live' : Within(x)'
    BY <1>1, <1>7, TypeNow DEF Lasting, IOInv
  <2> QED BY <2>1, <2>2, <2>3, <2>4 DEF IOInv
<1>10. Buffered'
  <2>1. FullPages' = FullPages
    BY <1>1, <1>4 DEF FullPages, SameBuffers
  <2>2. Buffered /\ UNCHANGED <<wbuf_stack, io_stack>>
    BY <1>1 DEF SameBuffers
  <2> QED BY ONLY <1>4, <2>1, <2>2 DEF Buffered, Once, In
<1>11. ASSUME NEW c \in Buckets PROVE WriterOK(c)'
  <2>1. WriterOK(c) /\ UNCHANGED <<wpc, wp>>
    BY <1>1
  <2>2. page_buckets[c] # <<>> /\ Head(page_buckets[c]) # p =>
                page_buckets'[c] # <<>> /\ Head(page_buckets'[c]) = Head(page_buckets[c])
    BY FreedLists
  <2>3. \A q \in Pages : page'[q].bucket = c => q # p /\ page'[q] = page[q]
    BY <1>2 DEF FreePage
  <2> QED BY ONLY <2>1, <2>2, <2>3 DEF WriterOK
<1>12. LiveFinite'
  BY <1>1 DEF LiveFinite
<1> QED BY <1>3, <1>6, <1>9, <1>10, <1>11, <1>12

LEMMA Step_ScanPage ==
    ASSUME IInv, ScanPage
    PROVE  IInv'
<1>1. PICK candidate, reclaim :
        /\ candidate <=> ~page[scan].free /\ page[scan].obj_count > 0 /\ ~page[scan].closed
        /\ reclaim <=> ~page[scan].free /\ (page[scan].obj_count = 0 \/ page[scan].closed)
                       /\ page[scan].refcount = 0
        /\ candidate \in BOOLEAN /\ reclaim \in BOOLEAN
        /\ low' = IF candidate /\ Lower(scan, low) THEN scan ELSE low
        /\ do_evict' = (do_evict /\ ~reclaim)
        /\ IF reclaim THEN _free_page(scan) ELSE UNCHANGED <<page, engineVars>>
  BY DEF ScanPage
<1>2. /\ mpc = "scanfree" /\ NextPage
      /\ UNCHANGED <<disk, queue, cur_io, ipc, live, wpc, wp>> /\ SameBuffers
  BY DEF ScanPage, SameBuffers, bufVars, ioVars, writerVars
<1>3. /\ scan \in Pages /\ page[scan] \in PageRecords /\ PageOK(scan)
      /\ do_evict \in BOOLEAN /\ low \in Pages \cup {None}
  BY TypeNow DEF PagesInv
<1>4. scan' \in Pages /\ mpc' \in {"scan", "evict"} /\ (mpc' = "scan" => scan' = scan + 1)
  BY <1>2, NextScan
<1>5. /\ low # None => low < scan /\ low # scan /\ ~page[low].active /\ ~page[low].free
      /\ page[scan].active => page[scan].allocated = 0 /\ page[scan].obj_count = 0
      /\ do_evict => page_freelist = <<>>
  BY <1>2, <1>3 DEF ScanOK
<1>6. candidate => ~page[scan].active /\ ~page[scan].free /\ ~reclaim
  <2>1. page[scan].obj_count \in Nat
    BY <1>3, PageFields
  <2> QED BY ONLY <1>1, <1>5, <2>1
<1>7. low' \in Pages \cup {None} /\ do_evict' \in BOOLEAN
  BY <1>1, <1>3
<1>8. low' # None /\ mpc' \in {"scan", "scanfree"} => low' < scan'
  <2>1. low' = scan \/ low' = low
    BY <1>1
  <2> QED BY ONLY <1>3, <1>4, <1>5, <2>1, Constants
<1>9. CASE reclaim
  <2>1. page[scan].wbuf = None
    <3>1. page[scan].active => page[scan].allocated = 0
      BY <1>5
    <3>2. page[scan].written \in Nat
      BY <1>3, PageFields
    <3> QED BY ONLY <1>3, <3>1, <3>2, Constants DEF PageOK
  <2>2. Frees(scan)
    BY <1>1, <1>2, <1>3, <1>9, <2>1 DEF Frees
  <2>3. /\ page' \in [Pages -> PageRecords] /\ \A q \in Pages : q # scan => page'[q] = page[q]
    BY <2>2, FreedPage
  <2>4. /\ page_freelist' \in Seq(Pages) /\ page_buckets' \in [Buckets -> Seq(Pages)]
        /\ page_free' \in Nat /\ version' = version
    BY <2>2, FreedLists
  <2>5. TypeOK'
    BY <1>2, <1>4, <1>7, <2>3, <2>4, TypeNow DEF TypeOK, SameBuffers
  <2>6. /\ PagesInv' /\ IOInv' /\ Listed' /\ Buffered' /\ LiveFinite'
        /\ \A c \in Buckets : WriterOK(c)'
    BY <2>2, <2>5, FreedParts
  <2>7. ScanOK'
    <3>1. low' = low /\ ~do_evict'
      BY <1>1, <1>6, <1>9
    <3>2. low # None => page'[low] = page[low]
      BY <1>3, <1>5, <2>3
    <3> QED BY ONLY <1>4, <1>5, <1>8, <3>1, <3>2 DEF ScanOK
  <2> QED BY <2>5, <2>6, <2>7
<1>10. CASE ~reclaim
  <2>1. Still /\ UNCHANGED <<wpc, wp>>
    BY <1>1, <1>2, <1>10 DEF Still, Quiet, SameEngine, engineVars
  <2>2. TypeOK'
    BY <1>4, <1>7, <2>1, TypeNow DEF TypeOK, Still, Quiet, SameBuffers, SameEngine
  <2>3. Calm /\ PagesInv' /\ IOInv' /\ Listed' /\ Buffered' /\ LiveFinite'
    BY <2>1, <2>2, StillParts
  <2>4. \A c \in Buckets : WriterOK(c)'
    BY <2>1, <2>3, CalmWriter
  <2>5. ScanOK'
    <3>1. page' = page /\ page_freelist' = page_freelist /\ (do_evict' => do_evict)
      BY <1>1, <2>1 DEF Still, Quiet, SameEngine
    <3>2. low' # None => ~page[low'].active /\ ~page[low'].free
      BY ONLY <1>1, <1>5, <1>6
    <3> QED BY ONLY <1>4, <1>5, <1>8, <3>1, <3>2 DEF ScanOK
  <2> QED BY <2>2, <2>3, <2>4, <2>5
<1> QED BY <1>1, <1>9, <1>10

LEMMA Step_Evict ==
    ASSUME IInv, Evict
    PROVE  IInv'
<1>1. /\ mpc' = "wait" /\ low' = None /\ do_evict' = FALSE /\ scan' = scan
      /\ UNCHANGED <<disk, queue, cur_io, ipc, live, wpc, wp>> /\ SameBuffers
  BY DEF Evict, SameBuffers, bufVars, ioVars, writerVars
<1>2. ScanOK'
  BY <1>1 DEF ScanOK
<1>3. CASE do_evict /\ low # None /\ ~page[low].closed
  <2>1. /\ low \in Pages /\ page[low] \in PageRecords /\ PageOK(low)
        /\ ~page[low].active /\ ~page[low].free
    BY <1>3, TypeNow DEF PagesInv, ScanOK
  <2>2. CASE page[low].refcount = 0
    <3>1. _free_page(low)
      BY <1>3, <2>2 DEF Evict
    <3>2. page[low].wbuf = None
      BY <2>1 DEF PageOK
    <3>3. Frees(low)
      BY <1>1, <2>1, <2>2, <3>1, <3>2 DEF Frees
    <3>4. page' \in [Pages -> PageRecords]
      BY <3>3, FreedPage
    <3>5. /\ page_freelist' \in Seq(Pages) /\ page_buckets' \in [Buckets -> Seq(Pages)]
          /\ page_free' \in Nat /\ version' = version
      BY <3>3, FreedLists
    <3>6. TypeOK'
      BY <1>1, <3>4, <3>5, TypeNow DEF TypeOK, SameBuffers
    <3>7. /\ PagesInv' /\ IOInv' /\ Listed' /\ Buffered' /\ LiveFinite'
          /\ \A c \in Buckets : WriterOK(c)'
      BY <3>3, <3>6, FreedParts
    <3> QED BY <1>2, <3>6, <3>7
  <2>3. CASE page[low].refcount # 0
    <3>1. PICK p, r : p = low /\ r = [page[p] EXCEPT !.closed = TRUE]
      OBVIOUS
    <3>2. page' = [page EXCEPT ![p] = r] /\ SameEngine
      BY <1>3, <2>3, <3>1 DEF Evict, SameEngine, engineVars
    <3>3. /\ p \in Pages /\ r \in PageRecords
          /\ r.version = page[p].version /\ r.allocated = page[p].allocated
          /\ r.written = page[p].written /\ r.bucket = page[p].bucket /\ r.active = page[p].active
          /\ r.free = page[p].free /\ r.wbuf = page[p].wbuf
          /\ r.closed /\ r.refcount = page[p].refcount /\ r.obj_count = page[p].obj_count
      BY <2>1, <3>1 DEF PageRecords
    <3>4. /\ Calm /\ Lasting /\ page' \in [Pages -> PageRecords] /\ page'[p] = r
          /\ \A q \in Pages : q # p => page'[q] = page[q]
      BY <1>1, <3>2, <3>3, Minor
    <3>5. TypeOK'
      BY <1>1, <3>2, <3>4, TypeNow DEF TypeOK, SameBuffers, SameEngine
    <3>6. ASSUME NEW q \in Pages PROVE PageOK(q)' /\ Counted(q)' /\ Stocked(q)'
      <4>1. SameLife(q)
        BY <3>4 DEF Calm
      <4>2. /\ page'[q].refcount = page[q].refcount /\ page'[q].obj_count = page[q].obj_count
            /\ page[q].closed => page'[q].closed
        BY <3>3, <3>4
      <4>3. Counted(q)' /\ Stocked(q)'
        BY <1>1, <4>1, <4>2, SameCount, SameStock
      <4>4. PageOK(q)'
        <5>1. CASE q = p
          BY <2>1, <3>1, <3>4, <5>1, CalmPage
        <5>2. CASE q # p
          BY <3>4, <5>2, CalmPage
        <5> QED BY <5>1, <5>2
      <4> QED BY <4>3, <4>4
    <3>7. PagesInv'
      BY <3>4, <3>6, CalmPages DEF PagesInv
    <3>8. IOInv'
      <4>1. WritesOnce' /\ Stays
        BY <1>1, <3>5, SamePlaces
      <4>2. IOsRight'
        BY <3>4, <3>5, <4>1, IOsKept
      <4>3. \A t \in IOThreads : Working(t)'
        BY <1>1, <3>4, CalmWorking
      <4>4. \A x \in live' : Within(x)'
        BY <1>1, <3>4, TypeNow DEF Lasting, IOInv
      <4> QED BY <4>1, <4>2, <4>3, <4>4 DEF IOInv
    <3>9. Listed' /\ Buffered'
      BY <3>4, CalmLists
    <3>10. \A c \in Buckets : WriterOK(c)'
      BY <1>1, <3>4, CalmWriter
    <3>11. LiveFinite'
      BY <1>1 DEF LiveFinite
    <3> QED BY <1>2, <3>5, <3>7, <3>8, <3>9, <3>10, <3>11
  <2> QED BY <2>2, <2>3
<1>4. CASE ~(do_evict /\ low # None /\ ~page[low].closed)
  <2>1. Still
    BY <1>1, <1>4 DEF Evict, Still, Quiet, SameEngine, engineVars
  <2>2. TypeOK'
    BY <1>1, <2>1, TypeNow DEF TypeOK, Still, Quiet, SameBuffers, SameEngine
  <2>3. Calm /\ PagesInv' /\ IOInv' /\ Listed' /\ Buffered' /\ LiveFinite'
    BY <2>1, <2>2, StillParts
  <2>4. \A c \in Buckets : WriterOK(c)'
    BY <1>1, <2>3, CalmWriter
  <2> QED BY <1>2, <2>2, <2>3, <2>4
<1> QED BY <1>3, <1>4
-----------------------------------------------------------------------------
(* The invariant.                                                          *)

\* The lists that extstore_init fills.
LEMMA Counting ==
    ASSUME NEW n \in Nat, NEW s, s = [i \in 1 .. n |-> i]
    PROVE  s \in Seq(1 .. n) /\ Len(s) = n /\ Once(s) /\ \A x \in 1 .. n : In(x, s)
<1>1. s \in Seq(1 .. n) /\ Len(s) = n /\ DOMAIN s = 1 .. n
  OBVIOUS
<1>2. Once(s)
  BY <1>1 DEF Once
<1>3. \A x \in 1 .. n : In(x, s)
  BY <1>1 DEF In
<1> QED BY <1>1, <1>2, <1>3

LEMMA InitIInv == Init => IInv
<1> SUFFICES ASSUME Init PROVE IInv
  OBVIOUS
<1>1. /\ page = [p \in Pages |-> FreePage] /\ wbuf = [w \in Wbufs |-> EmptyWbuf]
      /\ disk = [p \in Pages |-> [o \in 0 .. PageSize - 1 |-> None]]
      /\ page_freelist = [i \in Pages |-> i] /\ page_buckets = [b \in Buckets |-> <<>>]
      /\ page_free = PageCount - 1 /\ version = 1
      /\ wbuf_stack = [i \in 1 .. WbufCount |-> i] /\ io_stack = WbufCount
      /\ queue = [t \in IOThreads |-> <<>>] /\ cur_io = [t \in IOThreads |-> None]
      /\ ipc = [t \in IOThreads |-> "idle"] /\ live = {}
      /\ wpc = [b \in Buckets |-> "idle"] /\ wp = [b \in Buckets |-> None]
      /\ mpc = "wait" /\ scan = 1 /\ do_evict = FALSE /\ low = None
  BY DEF Init
<1>2. PageCount - 1 \in Nat
  BY PageAssumption
<1>3. /\ page_freelist \in Seq(Pages) /\ Len(page_freelist) = PageCount - 1 /\ Once(page_freelist)
      /\ \A x \in Pages : In(x, page_freelist)
  <2>1. page_freelist = [i \in 1 .. PageCount - 1 |-> i]
    BY <1>1 DEF Pages
  <2> QED BY ONLY <1>2, <2>1, Counting DEF Pages
<1>4. wbuf_stack \in Seq(Wbufs) /\ Once(wbuf_stack) /\ \A x \in Wbufs : In(x, wbuf_stack)
  <2>1. wbuf_stack = [i \in 1 .. WbufCount |-> i] /\ WbufCount \in Nat
    BY <1>1
  <2> QED BY ONLY <2>1, Counting DEF Wbufs
<1>5. FreePage \in PageRecords
  BY DEF FreePage, PageRecords
<1>6. EmptyWbuf \in WbufRecords /\ Len(EmptyWbuf.buf) = 0
  <2>1. PageSize - WbufSize \in Nat
    BY PageFits
  <2> QED BY <2>1 DEF EmptyWbuf, WbufRecords
<1>7. TypeOK
  <2>1. page \in [Pages -> PageRecords]
    BY <1>1, <1>5
  <2>2. wbuf \in [Wbufs -> WbufRecords] /\ \A w \in Wbufs : Len(wbuf[w].buf) <= WbufSize
    BY <1>1, <1>6
  <2>3. disk \in [Pages -> [0 .. PageSize - 1 -> Addresses \cup {None}]]
    BY <1>1
  <2>4. page_buckets \in [Buckets -> Seq(Pages)] /\ queue \in [IOThreads -> Seq(IOs)]
    <3>1. <<>> \in Seq(Pages) /\ <<>> \in Seq(IOs)
      BY EmptySeq
    <3> QED BY ONLY <1>1, <3>1
  <2>5. /\ page_free \in Nat /\ version \in 1 .. MaxVersion + 1 /\ io_stack \in 0 .. WbufCount
    BY <1>1, <1>2
  <2>6. /\ cur_io \in [IOThreads -> IOs \cup {None}]
        /\ ipc \in [IOThreads -> {"idle", "pread", "wbuf_cb"}] /\ live \subseteq Addresses
        /\ wpc \in [Buckets -> {"idle", "request", "page", "newpage"}]
        /\ wp \in [Buckets -> Pages \cup {None}]
        /\ mpc \in {"wait", "decide", "scan", "scanfree", "evict"}
        /\ scan \in Pages /\ do_evict \in BOOLEAN /\ low \in Pages \cup {None}
    BY <1>1
  <2> QED BY ONLY <1>3, <1>4, <2>1, <2>2, <2>3, <2>4, <2>5, <2>6 DEF TypeOK
<1>8. \A p \in Pages : /\ page[p] = FreePage /\ page[p].free /\ ~page[p].active /\ page[p].wbuf = None
                       /\ page[p].refcount = 0 /\ page[p].bucket = None
                       /\ page[p].allocated = 0 /\ page[p].written = 0
  BY <1>1 DEF FreePage
<1>9. PagesInv
  <2>1. ASSUME NEW p \in Pages PROVE PageOK(p) /\ BufferOK(p) /\ DiskOK(p) /\ Stocked(p)
    <3>1. 0 % WbufSize = 0
      OBVIOUS
    <3> QED BY ONLY <1>8, <3>1, p \in Pages DEF PageOK, BufferOK, DiskOK, Stocked
  <2>2. ASSUME NEW p \in Pages PROVE Counted(p)
    <3>1. Readers(p) = {}
      BY <1>1 DEF Readers
    <3> QED BY <1>8, <3>1, FS_EmptySet DEF Counted
  <2> QED BY <2>1, <2>2 DEF PagesInv
<1>10. IOInv
  <2>1. ASSUME NEW t \in IOThreads PROVE Places(t) = {} /\ Working(t)
    <3>1. queue[t] = <<>> /\ cur_io[t] = None /\ ipc[t] = "idle"
      BY <1>1
    <3>2. Places(t) = {}
      <4>1. Len(queue[t]) = 0
        BY <3>1
      <4> QED BY <3>1, <4>1 DEF Places
    <3> QED BY <3>1, <3>2 DEF Working
  <2> QED BY <1>1, <2>1 DEF IOInv, IOsRight, WritesOnce
<1>11. Listed
  <2>1. \A b \in Buckets : Once(page_buckets[b]) /\ \A p \in Pages : ~In(p, page_buckets[b])
    <3>1. \A b \in Buckets : page_buckets[b] = <<>>
      BY <1>1
    <3> QED BY <3>1 DEF Once, In
  <2> QED BY <1>1, <1>3, <1>8, <2>1 DEF Listed
<1>12. Buffered
  <2>1. FullPages = {}
    BY <1>8 DEF FullPages
  <2> QED BY <1>1, <1>4, <1>8, <2>1, FS_EmptySet DEF Buffered
<1>13. \A b \in Buckets : WriterOK(b)
  BY <1>1, <1>8 DEF WriterOK
<1>14. ScanOK /\ LiveFinite
  BY <1>1, FS_EmptySet DEF ScanOK, LiveFinite
<1> QED BY <1>7, <1>9, <1>10, <1>11, <1>12, <1>13, <1>14

LEMMA StutterIInv == IInv /\ UNCHANGED vars => IInv'
<1> SUFFICES ASSUME IInv, UNCHANGED vars PROVE IInv'
  OBVIOUS
<1>1. /\ Still /\ UNCHANGED <<wpc, wp, mpc, scanVars>>
  BY DEF vars, Still, Quiet, SameBuffers, SameEngine, engineVars, bufVars, ioVars, writerVars
<1>2. TypeOK'
  BY <1>1, TypeNow DEF TypeOK, Still, Quiet, SameBuffers, SameEngine, scanVars
<1>3. Calm /\ PagesInv' /\ IOInv' /\ Listed' /\ Buffered' /\ LiveFinite'
  BY <1>1, <1>2, StillParts
<1>4. \A c \in Buckets : WriterOK(c)'
  BY <1>1, <1>3, CalmWriter
<1>5. ScanOK'
  BY <1>1, <1>3, CalmScan DEF Still, Quiet
<1> QED BY <1>2, <1>3, <1>4, <1>5

HIDE DEF IInv

LEMMA StepIInv == IInv /\ [Next]_vars => IInv'
<1> SUFFICES ASSUME IInv, [Next]_vars PROVE IInv'
  OBVIOUS
<1>1. ASSUME NEW b \in Buckets, WantWrite(b) \/ Request(b) PROVE IInv'
  BY <1>1, Step_WantWrite, Step_PickPage, Step_FindFull, Step_NewPage, Step_submit_wbuf,
     Step_NoBuffer, Step_extstore_write DEF Request
<1>2. ASSUME NEW a \in live, extstore_submit(a) \/ extstore_delete(a) PROVE IInv'
  BY <1>2, Step_extstore_submit, Step_extstore_delete
<1>3. ASSUME NEW p \in Pages, extstore_close_page(p) PROVE IInv'
  BY <1>3, Step_extstore_close_page
<1>4. ASSUME NEW t \in IOThreads, IOThread(t) PROVE IInv'
  BY <1>4, Step_ReadAtOnce, Step_StartPread, Step_EndPread, Step_Pwrite, Step_wbuf_cb DEF IOThread
<1>5. ASSUME Maint PROVE IInv'
  BY <1>5, Step_Decide, Step_ReadActive, Step_ScanPage, Step_Evict DEF Maint
<1>6. CASE CompactorSignal
  BY <1>6, Step_CompactorSignal
<1>7. CASE UNCHANGED vars
  BY <1>7, StutterIInv
<1> QED BY <1>1, <1>2, <1>3, <1>4, <1>5, <1>6, <1>7 DEF Next

\* Writers, IO threads, the maintenance thread and the callers keep the
\* inductive invariant, whatever the order of their steps.
THEOREM Invariance == Spec => []IInv
<1> QED BY InitIInv, StepIInv, PTL DEF Spec
-----------------------------------------------------------------------------
(* What follows from it.                                                   *)

LEMMA AddrOf ==
    ASSUME NEW a \in Addresses
    PROVE  a = Addr(a.page, a.version, a.offset)
BY DEF Addresses, Addr

\* A pending IO has a place.
LEMMA PendingPlace ==
    ASSUME IInv, NEW t \in IOThreads, NEW io \in Pending(t)
    PROVE  /\ io \in IOs /\ (io.mode = "write" => WriteOK(io))
           /\ (io.mode = "read" => ReadOK(io))
<1>1. queue[t] \in Seq(IOs) /\ cur_io[t] \in IOs \cup {None} /\ TypeOK
  BY TypeNow DEF IInv
<1>2. PICK i \in Places(t) : IOAt(t, i) = io
  <2>1. CASE io = cur_io[t] /\ cur_io[t] # None
    <3>1. 0 \in Places(t)
      BY <1>1, <2>1 DEF Places
    <3> QED BY <2>1, <3>1 DEF IOAt
  <2>2. CASE \E i \in DOMAIN queue[t] : io = queue[t][i]
    <3>1. PICK i \in DOMAIN queue[t] : io = queue[t][i]
      BY <2>2
    <3>2. i \in 1 .. Len(queue[t]) /\ i # 0 /\ i \in 0 .. Len(queue[t])
      BY <1>1
    <3>3. i \in Places(t)
      BY <3>2 DEF Places
    <3> QED BY <3>1, <3>2, <3>3 DEF IOAt
  <2> QED BY <2>1, <2>2 DEF Pending
<1> QED BY <1>1, <1>2, PlaceTypes DEF IInv, IOInv, IOsRight

\* An address within its page, while the page is open.
LEMMA FindsObject ==
    ASSUME IInv, NEW a \in Addresses, Within(a), Readable(a)
    PROVE  IF InWbuf(a)
           THEN /\ page[a.page].wbuf # None
                /\ LET w == wbuf[page[a.page].wbuf] IN
                   /\ a.offset - w.offset \in 0 .. Len(w.buf) - 1
                   /\ w.buf[a.offset - w.offset + 1] = a
           ELSE disk[a.page][a.offset] = a
<1>1. PICK p, v, o : p = a.page /\ v = a.version /\ o = a.offset
  OBVIOUS
<1>2. p \in Pages /\ o \in 0 .. PageSize - 1 /\ a = Addr(p, v, o)
  BY <1>1, AddressFields, AddrOf
<1>3. page[p] \in PageRecords /\ PageOK(p) /\ BufferOK(p) /\ DiskOK(p)
  BY <1>2, TypeNow DEF IInv, PagesInv
<1>4. ~page[p].free /\ page[p].version = v
  BY <1>1 DEF Readable
<1>5. PICK m \in Nat : m = page[p].written /\ o < Filled(p)
  BY <1>1, <1>3, <1>4, PageFields DEF Within
<1>6. CASE InWbuf(a)
  <2>1. o >= m
    BY <1>1, <1>5, <1>6 DEF InWbuf
  <2>2. page[p].wbuf # None
    BY <1>2, <1>5, <2>1 DEF Filled
  <2>3. PICK w : w = wbuf[page[p].wbuf]
    OBVIOUS
  <2>4. /\ w.offset = m /\ Filled(p) = m + Len(w.buf)
        /\ \A i \in 1 .. Len(w.buf) : w.buf[i] = Addr(p, v, m + (i - 1))
    BY <1>3, <1>4, <1>5, <2>2, <2>3 DEF BufferOK, Filled
  <2>5. Len(w.buf) \in Nat
    <3>1. page[p].wbuf \in Wbufs
      BY <1>3, <2>2, PageFields
    <3>2. w \in WbufRecords
      BY <2>3, <3>1, TypeNow DEF IInv
    <3>3. w.buf \in Seq(Addresses)
      BY <3>2 DEF WbufRecords
    <3> QED BY <3>3
  <2>6. o - m \in 0 .. Len(w.buf) - 1 /\ o - m + 1 \in 1 .. Len(w.buf) /\ m + ((o - m + 1) - 1) = o
    <3>1. PICK k \in Nat : k = Len(w.buf) /\ o < m + k /\ o \in Nat /\ o >= m
      BY <1>2, <1>5, <2>1, <2>4, <2>5
    <3>2. o - m \in 0 .. k - 1 /\ o - m + 1 \in 1 .. k /\ m + ((o - m + 1) - 1) = o
      BY ONLY <3>1, m \in Nat
    <3> QED BY ONLY <3>1, <3>2
  <2>7. w.buf[o - m + 1] = a
    BY <1>2, <2>4, <2>6
  <2> QED BY <1>1, <1>6, <2>2, <2>3, <2>4, <2>6, <2>7
<1>7. CASE ~InWbuf(a)
  <2>1. o \in 0 .. m - 1
    <3>1. CASE page[p].active
      <4>1. ~(o >= m)
        BY <1>1, <1>5, <1>7, <3>1 DEF InWbuf
      <4> QED BY ONLY <1>2, <4>1, m \in Nat, Constants
    <3>2. CASE ~page[p].active
      BY <1>2, <1>3, <1>4, <1>5, <3>2 DEF PageOK
    <3> QED BY <3>1, <3>2
  <2>2. disk[p][o] = Addr(p, v, o)
    BY <1>3, <1>4, <1>5, <2>1 DEF DiskOK
  <2> QED BY <1>1, <1>2, <1>7, <2>2
<1> QED BY <1>6, <1>7

LEMMA ReadsFollow == IInv => ReadsWhatWasWritten
<1> SUFFICES ASSUME IInv PROVE ReadsWhatWasWritten
  OBVIOUS
<1>1. ASSUME NEW a \in Held PROVE a \in Addresses /\ Within(a)
  <2>1. CASE a \in live
    BY <2>1, TypeNow DEF IInv, IOInv
  <2>2. CASE a \notin live
    <3>1. PICK t \in IOThreads : \E io \in Pending(t) : io.mode = "read" /\ a = io.data
      BY <2>2 DEF Held
    <3>2. PICK io \in Pending(t) : io.mode = "read" /\ a = io.data
      BY <3>1
    <3> QED BY <3>2, PendingPlace, IOFields DEF ReadOK
  <2> QED BY <2>1, <2>2
<1>2. ASSUME NEW t \in IOThreads, ipc[t] = "pread"
      PROVE  disk[cur_io[t].page][cur_io[t].data.offset] = cur_io[t].data
  <2>1. Working(t) /\ cur_io[t] \in IOs \cup {None}
    BY TypeNow DEF IInv, IOInv
  <2>2. PICK io : io = cur_io[t] /\ io \in IOs /\ io.mode = "read"
    BY <1>2, <2>1 DEF Working
  <2>3. io \in Pending(t)
    BY <2>2 DEF Pending
  <2>4. PICK a : a = io.data /\ a \in Addresses /\ io.page = a.page
    BY <2>2, <2>3, PendingPlace, IOFields DEF ReadOK
  <2>5. PICK p \in Pages : /\ p = a.page /\ page[p].version = a.version
                           /\ a.offset < page[p].written
    BY <1>2, <2>1, <2>2, <2>4, AddressFields DEF Working
  <2>6. PageOK(p) /\ DiskOK(p) /\ a.offset \in Nat /\ a.version # 0 /\ page[p].written \in Nat
    <3>1. page[p] \in PageRecords /\ PageOK(p) /\ DiskOK(p)
      BY TypeNow DEF IInv, PagesInv
    <3> QED BY <2>4, <3>1, AddressFields, PageFields
  <2>7. ~page[p].free
    BY <2>5, <2>6 DEF PageOK, FreePage
  <2>8. a.offset \in 0 .. page[p].written - 1
    BY <2>5, <2>6
  <2>9. disk[p][a.offset] = Addr(p, a.version, a.offset)
    BY <2>5, <2>6, <2>7, <2>8 DEF DiskOK
  <2> QED BY <2>2, <2>4, <2>5, <2>9, AddrOf
<1>3. \A a \in Held : Readable(a) =>
         IF InWbuf(a)
         THEN /\ page[a.page].wbuf # None
              /\ LET w == wbuf[page[a.page].wbuf] IN
                 /\ a.offset - w.offset \in 0 .. Len(w.buf) - 1
                 /\ w.buf[a.offset - w.offset + 1] = a
         ELSE disk[a.page][a.offset] = a
  BY <1>1, FindsObject
<1> QED BY <1>2, <1>3 DEF ReadsWhatWasWritten

LEMMA FlushFollows == IInv => FlushFindsItsPage
<1> SUFFICES ASSUME IInv PROVE FlushFindsItsPage
  OBVIOUS
<1>1. ASSUME NEW t \in IOThreads, NEW io \in Pending(t), io.mode = "write"
      PROVE  /\ page[io.page].active /\ ~page[io.page].free /\ page[io.page].wbuf = io.data
             /\ page[io.page].written = wbuf[io.data].offset
  <2>1. io \in IOs /\ WriteOK(io)
    BY <1>1, PendingPlace
  <2>2. PICK p, w : p = io.page /\ w = io.data
    OBVIOUS
  <2>3. /\ page[p].active /\ ~page[p].free /\ page[p].wbuf = w /\ wbuf[w].offset = page[p].written
    BY ONLY <1>1, <2>1, <2>2, IInv, WriteFacts
  <2> QED BY <2>2, <2>3
<1>2. ASSUME NEW b \in Buckets, wpc[b] = "newpage", page_buckets[b] # <<>>
      PROVE  page[Head(page_buckets[b])].allocated = PageSize
  <2>1. PICK s, q : s = page_buckets[b] /\ q = Head(s) /\ s \in Seq(Pages)
    BY TypeNow DEF IInv
  <2>2. q \in Pages /\ In(q, s)
    BY <1>2, <2>1, HeadTailProperties, EmptySeq DEF In
  <2>3. page[q].bucket = b
    BY <2>1, <2>2 DEF IInv, Listed
  <2> QED BY <1>2, <2>1, <2>2, <2>3 DEF IInv, WriterOK
<1> QED BY <1>1, <1>2 DEF FlushFindsItsPage

\* In a list without repetition.
LEMMA Occurrences ==
    ASSUME NEW S, NEW s \in Seq(S), Once(s), NEW x
    PROVE  Cardinality({i \in DOMAIN s : s[i] = x}) = IF In(x, s) THEN 1 ELSE 0
<1>1. CASE In(x, s)
  <2>1. PICK i \in DOMAIN s : s[i] = x
    BY <1>1 DEF In
  <2>2. {j \in DOMAIN s : s[j] = x} = {i}
    BY <2>1 DEF Once
  <2> QED BY <1>1, <2>2, FS_Singleton
<1>2. CASE ~In(x, s)
  <2>1. {j \in DOMAIN s : s[j] = x} = {}
    BY <1>2 DEF In
  <2> QED BY <1>2, <2>1, FS_EmptySet
<1> QED BY <1>1, <1>2

LEMMA BuffersFollow == IInv => BuffersConserved
<1> SUFFICES ASSUME IInv PROVE BuffersConserved
  OBVIOUS
<1>1. Buffered /\ wbuf_stack \in Seq(Wbufs) /\ Once(wbuf_stack)
  BY TypeNow DEF IInv, Buffered
<1>2. ASSUME NEW w \in Wbufs
      PROVE  Cardinality({i \in DOMAIN wbuf_stack : wbuf_stack[i] = w})
             + Cardinality({p \in Pages : page[p].wbuf = w}) = 1
  <2>1. Cardinality({i \in DOMAIN wbuf_stack : wbuf_stack[i] = w}) = IF In(w, wbuf_stack) THEN 1 ELSE 0
    BY ONLY <1>1, Occurrences
  <2>2. CASE In(w, wbuf_stack)
    <3>1. {p \in Pages : page[p].wbuf = w} = {}
      BY <1>1, <2>2 DEF Buffered
    <3> QED BY <2>1, <2>2, <3>1, FS_EmptySet
  <2>3. CASE ~In(w, wbuf_stack)
    <3>1. PICK p \in Pages : page[p].wbuf = w
      BY <1>1, <2>3 DEF Buffered
    <3>2. {q \in Pages : page[q].wbuf = w} = {p}
      <4>1. \A q \in Pages : page[q].wbuf = w => q = p
        BY <1>1, <3>1 DEF Buffered
      <4> QED BY ONLY <3>1, <4>1
    <3>3. Cardinality({q \in Pages : page[q].wbuf = w}) = 1
      BY ONLY <3>2, FS_Singleton
    <3> QED BY ONLY <2>1, <2>3, <3>3
  <2> QED BY <2>2, <2>3
<1> QED BY <1>1, <1>2 DEF BuffersConserved, Buffered, FullPages

LEMMA ListsFollow == IInv => PagesListedOnce
<1> SUFFICES ASSUME IInv PROVE PagesListedOnce
  OBVIOUS
<1>1. /\ Listed /\ page_freelist \in Seq(Pages) /\ Once(page_freelist)
      /\ \A b \in Buckets : page_buckets[b] \in Seq(Pages) /\ Once(page_buckets[b])
  BY TypeNow DEF IInv, Listed
<1>2. ASSUME NEW p \in Pages
      PROVE  /\ Cardinality({i \in DOMAIN page_freelist : page_freelist[i] = p})
                = (IF page[p].free THEN 1 ELSE 0)
             /\ \A b \in Buckets : Cardinality({i \in DOMAIN page_buckets[b] : page_buckets[b][i] = p})
                = (IF page[p].bucket = b THEN 1 ELSE 0)
             /\ page[p].free <=> page[p].bucket = None
  <2>1. /\ In(p, page_freelist) <=> page[p].free
        /\ \A b \in Buckets : In(p, page_buckets[b]) <=> page[p].bucket = b
    BY <1>1 DEF Listed
  <2>2. Cardinality({i \in DOMAIN page_freelist : page_freelist[i] = p})
                = (IF In(p, page_freelist) THEN 1 ELSE 0)
    BY ONLY <1>1, Occurrences
  <2>3. ASSUME NEW b \in Buckets
        PROVE  Cardinality({i \in DOMAIN page_buckets[b] : page_buckets[b][i] = p})
                = (IF In(p, page_buckets[b]) THEN 1 ELSE 0)
    <3>1. PICK s : s = page_buckets[b] /\ s \in Seq(Pages) /\ Once(s)
      BY <1>1
    <3>2. Cardinality({i \in DOMAIN s : s[i] = p}) = (IF In(p, s) THEN 1 ELSE 0)
      BY ONLY <3>1, Occurrences
    <3> QED BY ONLY <3>1, <3>2
  <2>4. page[p].free <=> page[p].bucket = None
    <3>1. PageOK(p)
      BY DEF IInv, PagesInv
    <3> QED BY <3>1 DEF PageOK, FreePage
  <2> QED BY ONLY <2>1, <2>2, <2>3, <2>4
<1> QED BY <1>1, <1>2 DEF PagesListedOnce, Listed

\* Only the maintenance thread gives a page back.
Kept == \A p \in Pages : page[p].version # 0 => page'[p].version # 0

LEMMA KeptSame ==
    ASSUME page' = page
    PROVE  Kept
BY DEF Kept

LEMMA KeptAllocate ==
    ASSUME IInv, NEW b \in Buckets, _allocate_page(b)
    PROVE  Kept
<1>1. CASE page_free > 0 /\ page_freelist # <<>>
  <2>1. PICK p : p = Head(page_freelist)
    OBVIOUS
  <2>2. p \in Pages /\ page \in [Pages -> PageRecords] /\ version # 0
    BY <1>1, <2>1, FreeHead, TypeNow DEF IInv
  <2>3. page' = [page EXCEPT ![p].active = TRUE, ![p].free = FALSE, ![p].closed = FALSE,
                             ![p].version = version, ![p].bucket = b]
    BY <1>1, <2>1 DEF _allocate_page
  <2>4. page[p] \in PageRecords
    BY <2>2
  <2>5. PICK r : r = [page[p] EXCEPT !.active = TRUE, !.free = FALSE, !.closed = FALSE,
                                     !.version = version, !.bucket = b]
    OBVIOUS
  <2>6. r.version = version
    BY ONLY <2>4, <2>5 DEF PageRecords
  <2>7. page' = [page EXCEPT ![p] = r]
    BY ONLY <2>2, <2>3, <2>5
  <2> QED BY ONLY <2>2, <2>6, <2>7 DEF Kept
<1>2. CASE ~(page_free > 0 /\ page_freelist # <<>>)
  BY <1>2, KeptSame DEF _allocate_page
<1> QED BY <1>1, <1>2

LEMMA KeptWriters ==
    ASSUME IInv, NEW b \in Buckets, WantWrite(b) \/ Request(b)
    PROVE  Kept
<1>1. CASE WantWrite(b) \/ FindFull(b) \/ _submit_wbuf(b) \/ NoBuffer(b)
  BY <1>1, KeptSame DEF WantWrite, FindFull, _submit_wbuf, NoBuffer
<1>2. CASE PickPage(b)
  BY <1>2, KeptSame, KeptAllocate DEF PickPage
<1>3. CASE NewPage(b)
  BY <1>3, KeptAllocate DEF NewPage
<1>4. CASE extstore_write(b)
  <2>1. PICK p, w, h, r, s : Target(p, w, h, r, s) /\ page' = [page EXCEPT ![p] = r]
    BY <1>4, Append_facts
  <2>2. p \in Pages /\ r.version = page[p].version /\ page \in [Pages -> PageRecords]
    BY <2>1, TypeNow DEF Target, IInv
  <2> QED BY ONLY <2>1, <2>2 DEF Kept
<1> QED BY <1>1, <1>2, <1>3, <1>4 DEF Request

LEMMA KeptOthers ==
    ASSUME IInv, \/ \E a \in live : extstore_submit(a) \/ extstore_delete(a)
                 \/ \E p \in Pages : extstore_close_page(p)
                 \/ CompactorSignal
                 \/ \E t \in IOThreads : IOThread(t)
                 \/ Decide \/ ReadActive \/ UNCHANGED vars
    PROVE  Kept
<1>1. page \in [Pages -> PageRecords]
  BY TypeNow DEF IInv
<1>2. ASSUME NEW a \in live, extstore_delete(a) PROVE Kept
  <2>1. CASE page' = page
    BY <2>1, KeptSame
  <2>2. CASE \E n : page' = [page EXCEPT ![a.page].obj_count = n]
    BY ONLY <1>1, <2>2 DEF Kept, PageRecords
  <2> QED BY <1>2, <2>1, <2>2 DEF extstore_delete
<1>3. ASSUME NEW p \in Pages, extstore_close_page(p) PROVE Kept
  <2>1. page' = [page EXCEPT ![p].closed = TRUE]
    BY <1>3 DEF extstore_close_page
  <2> QED BY ONLY <1>1, <2>1 DEF Kept, PageRecords
<1>4. ASSUME NEW t \in IOThreads, StartPread(t) PROVE Kept
  <2>1. PICK q : page' = [page EXCEPT ![q].refcount = @ + 1]
    BY <1>4 DEF StartPread
  <2> QED BY ONLY <1>1, <2>1 DEF Kept, PageRecords
<1>5. ASSUME NEW t \in IOThreads, EndPread(t) PROVE Kept
  <2>1. PICK q : page' = [page EXCEPT ![q].refcount = @ - 1]
    BY <1>5 DEF EndPread
  <2> QED BY ONLY <1>1, <2>1 DEF Kept, PageRecords
<1>6. ASSUME NEW t \in IOThreads, _wbuf_cb(t) PROVE Kept
  <2>1. PICK q, n : page' = [page EXCEPT ![q].written = n, ![q].wbuf = None,
                                         ![q].active = IF n = PageSize THEN FALSE ELSE @]
    BY <1>6 DEF _wbuf_cb
  <2> QED BY ONLY <1>1, <2>1 DEF Kept, PageRecords
<1>7. ASSUME NEW t \in IOThreads, ReadAtOnce(t) \/ Pwrite(t) PROVE Kept
  BY <1>7, KeptSame DEF ReadAtOnce, Pwrite
<1>8. ASSUME NEW a \in live, extstore_submit(a) PROVE Kept
  BY <1>8, KeptSame DEF extstore_submit
<1>9. CASE CompactorSignal \/ Decide \/ ReadActive \/ UNCHANGED vars
  BY <1>9, KeptSame DEF CompactorSignal, Decide, ReadActive, vars
<1> QED BY <1>2, <1>3, <1>4, <1>5, <1>6, <1>7, <1>8, <1>9 DEF IOThread

ForSpace(p) == \/ \A a \in live : a.page = p => a.version # page[p].version
               \/ page_freelist = <<>>

LEMMA FreedChange ==
    ASSUME IInv, NEW q \in Pages, _free_page(q), NEW p \in Pages,
           page[p].version # 0, page'[p].version = 0
    PROVE  p = q
<1>1. page \in [Pages -> PageRecords]
  BY TypeNow DEF IInv
<1>2. PICK r : page' = [page EXCEPT ![q] = r]
  BY DEF _free_page
<1> QED BY ONLY <1>1, <1>2, page[p].version # 0, page'[p].version = 0

LEMMA SpaceScan ==
    ASSUME IInv, ScanPage, NEW p \in Pages, page[p].version # 0, page'[p].version = 0, ~page[p].closed
    PROVE  ForSpace(p)
<1>1. scan \in Pages
  BY TypeNow DEF IInv
<1>2. /\ ~page[scan].free /\ (page[scan].obj_count = 0 \/ page[scan].closed) /\ _free_page(scan)
  BY DEF ScanPage
<1>3. p = scan
  BY <1>1, <1>2, FreedChange
<1>4. PICK v : v = page[p].version
  OBVIOUS
<1>5. Cardinality(Objects(p, v)) = 0
  <2>1. Stocked(p)
    BY DEF IInv, PagesInv
  <2> QED BY <1>2, <1>3, <1>4, <2>1 DEF Stocked
<1>6. Objects(p, v) = {}
  <2>1. Objects(p, v) \in SUBSET live /\ IsFiniteSet(live)
    BY DEF Objects, IInv, LiveFinite
  <2>2. IsFiniteSet(Objects(p, v))
    BY <2>1, FS_Subset
  <2> QED BY <1>5, <2>2, FS_EmptySet
<1> QED BY <1>4, <1>6 DEF Objects, ForSpace

LEMMA SpaceEvict ==
    ASSUME IInv, Evict, NEW p \in Pages, page[p].version # 0, page'[p].version = 0
    PROVE  ForSpace(p)
<1>1. page \in [Pages -> PageRecords] /\ low \in Pages \cup {None}
  BY TypeNow DEF IInv
<1>2. page' # page
  OBVIOUS
<1>3. do_evict /\ low # None
  BY <1>2 DEF Evict
<1> QED BY <1>3 DEF IInv, ScanOK, ForSpace

LEMMA SpaceStep ==
    ASSUME IInv, [Next]_vars, NEW p \in Pages,
           page[p].version # 0, page'[p].version = 0, ~page[p].closed
    PROVE  ForSpace(p)
<1>1. ~Kept
  BY DEF Kept
<1>2. ScanPage \/ Evict
  BY <1>1, KeptWriters, KeptOthers DEF Next, Maint
<1> QED BY <1>2, SpaceScan, SpaceEvict

-----------------------------------------------------------------------------
(* The theorems.                                                           *)

\* Type correctness: page fields, buffers, queues and lists stay in range.
\* That no size passes the end of its page rests on pages being filled by
\* whole buffers, and that io_stack does not fall below 0 on each full page
\* having a buffer of its own.
THEOREM TypeCorrect == Spec => []TypeOK
<1>1. IInv => TypeOK
  BY DEF IInv
<1> QED BY <1>1, Invariance, PTL

\* An object is where extstore_io_thread will look for it, and a pread that
\* runs without a lock reads what was written there: the buffer, the flush,
\* eviction, reclaim and reuse of the page never get between.
THEOREM ReadsRight == Spec => []ReadsWhatWasWritten
<1> QED BY ReadsFollow, Invariance, PTL

\* The assertions of _wbuf_cb and _allocate_page hold: a flush that returns
\* finds its page active and waiting for it, and a page is superseded only
\* when all of it has been given out.
THEOREM FlushFinds == Spec => []FlushFindsItsPage
<1> QED BY FlushFollows, Invariance, PTL

\* _allocate_wbuf, _submit_wbuf and _wbuf_cb lose no buffer and no IO.
THEOREM BuffersKept == Spec => []BuffersConserved
<1> QED BY BuffersFollow, Invariance, PTL

\* _allocate_page and _free_page keep every page on one list, once, and
\* page_free counts the free list.
THEOREM ListedOnce == Spec => []PagesListedOnce
<1> QED BY ListsFollow, Invariance, PTL

\* extstore_maint_thread frees a page that still has objects only when it
\* evicts, and evicts only when the free list is empty, although it looked at
\* the free list before its scan.
THEOREM FreedForSpace == Spec => FreedOnlyForSpace
<1>1. IInv /\ [Next]_vars =>
        [\A p \in Pages : page[p].version # 0 /\ page'[p].version = 0 /\ ~page[p].closed =>
           \/ \A a \in live : a.page = p => a.version # page[p].version
           \/ page_freelist = <<>>]_vars
  BY SpaceStep DEF ForSpace
<1> QED BY <1>1, Invariance, PTL DEF Spec, FreedOnlyForSpace
=============================================================================
