------------------------------ MODULE Storage ------------------------------
(***************************************************************************)
(* The two threads between the hash table and the external storage: the    *)
(* writer moves items out of memory and leaves a header with their address *)
(* in the hash table; the compactor reads a page that holds little, writes *)
(* what is still in use to another page, redirects the headers and closes  *)
(* the page.  Meanwhile workers replace and delete items and the engine's  *)
(* maintenance thread frees pages.  The engine is taken at the level of    *)
(* its calls (its own races are in Extstore), and all objects have one     *)
(* size, so that an offset is an index and bytes_used is obj_count.        *)
(***************************************************************************)
EXTENDS Naturals, Sequences, FiniteSets, FiniteSetsExt

CONSTANTS Keys,
          Pages,          \* naturals: the ids of the pages
          PageSize,       \* page_size, in objects
          WbufSize,       \* ext_wbuf_size, in objects
          CompactUnder,   \* ext_compact_under
          DropUnread,     \* ext_drop_unread
          MaxFrag,        \* ext_max_frag, in percent
          MaxSets,        \* bound: values stored
          MaxVersion,     \* bound: pages allocated
          None

ASSUME PageAssumption == /\ Pages \subseteq Nat /\ IsFiniteSet(Pages) /\ Pages # {}
                         /\ PageSize \in Nat \ {0} /\ WbufSize \in 1 .. PageSize
ASSUME NoneAssumption == None \notin [val : Nat, page_id : Pages \cup {None},
                                     page_version : Nat, offset : Nat, valid : BOOLEAN]
ASSUME SettingsAssumption == {CompactUnder, DropUnread, MaxFrag, MaxSets, MaxVersion} \subseteq Nat

DEFAULT == "default"
COMPACT == "compact"
LOWTTL == "lowttl"

VARIABLES
    table,        \* key -> its item, or None
    held,         \* keys whose item a worker has a reference to
    sets,         \* values stored so far; the last one is the youngest
    page,         \* the engine's pages
    version,      \* the engine's version counter
    page_data,    \* what its maintenance thread last published of them
    cpc,          \* where the compactor is
    compacting, page_id, page_version, page_offset, drop_unread,
    wrap,         \* the compactor's read request
    readback_buf, offset,   \* what it read, and where in it the compactor is
    given_up      \* history: keys that this compaction lost or skipped

tableVars == <<table, held, sets>>
engineVars == <<page, version>>
targetVars == <<compacting, page_id, page_version, page_offset, drop_unread>>
readVars == <<wrap, readback_buf, offset, given_up>>
vars == <<tableVars, engineVars, page_data, cpc, targetVars, readVars>>

Free == [version |-> 0, bucket |-> DEFAULT, active |-> FALSE, closed |-> FALSE,
         objs |-> <<>>, obj_count |-> 0]
NoData == [version |-> 0, bucket |-> DEFAULT, used |-> 0]
NoWrap == [submitted |-> FALSE, done |-> FALSE, miss |-> FALSE]

Init == /\ table = [k \in Keys |-> None] /\ held = {} /\ sets = 0
        /\ page = [p \in Pages |-> Free] /\ version = 0
        /\ page_data = [p \in Pages |-> NoData]
        /\ cpc = "sleep"
        /\ compacting = FALSE /\ page_id = 0 /\ page_version = 0 /\ page_offset = 0
        /\ drop_unread = FALSE
        /\ wrap = NoWrap /\ readback_buf = <<>> /\ offset = 1 /\ given_up = {}
-----------------------------------------------------------------------------
(* The engine's calls.                                                     *)

FreePages == {p \in Pages : page[p].version = 0}

\* The pages a write request for bucket b can end in: the one with room, else
\* a free one.
Room(b) == {p \in Pages : page[p].active /\ page[p].bucket = b
                          /\ Len(page[p].objs) < PageSize}
Targets(b) == IF Room(b) # {} THEN Room(b)
              ELSE IF version < MaxVersion THEN FreePages ELSE {}

\* extstore_write_request and extstore_write of object o into p for bucket b.
Written(p, b, o) ==
    IF p \in Room(b) THEN [page EXCEPT ![p].objs = Append(@, o), ![p].obj_count = @ + 1]
    ELSE [page EXCEPT ![p] = [version |-> version + 1, bucket |-> b, active |-> TRUE,
                              closed |-> FALSE, objs |-> <<o>>, obj_count |-> 1]]

extstore_write(p, b, o) ==
    /\ page' = Written(p, b, o)
    /\ version' = IF p \in Room(b) THEN version ELSE version + 1

\* The header is filled with what io holds after the write into page p.
Redirected(hdr, p) == [hdr EXCEPT !.page_id = p, !.page_version = page'[p].version,
                                  !.offset = Len(page'[p].objs)]

extstore_delete(p, v) ==
    page' = IF page[p].version = v /\ ~page[p].closed
            THEN [page EXCEPT ![p].obj_count = IF @ > 0 THEN @ - 1 ELSE 0]
            ELSE page

\* _wbuf_cb: the last buffer of a full page is on disk.
wbuf_cb(p) ==
    /\ page[p].active /\ Len(page[p].objs) = PageSize
    /\ page' = [page EXCEPT ![p].active = FALSE]
    /\ UNCHANGED <<tableVars, version, page_data, cpc, targetVars, readVars>>

\* One pass of the maintenance thread: pages nobody needs are freed; when no
\* page was free, and none is now, the oldest is evicted.  What it publishes is
\* what it saw before it freed.
extstore_maint_thread ==
    LET sealed == {p \in Pages : page[p].version # 0 /\ ~page[p].active}
        used == {p \in sealed : page[p].obj_count > 0 /\ ~page[p].closed}
        unused == sealed \ used
        oldest == {p \in used : \A q \in used : page[p].version <= page[q].version}
        evicted == IF FreePages = {} /\ unused = {} THEN oldest ELSE {}
    IN  /\ page' = [p \in Pages |-> IF p \in unused \cup evicted THEN Free ELSE page[p]]
        /\ page_data' = [p \in Pages |->
              IF p \in used THEN [version |-> page[p].version, bucket |-> page[p].bucket,
                                  used |-> page[p].obj_count]
              ELSE NoData]
        /\ UNCHANGED <<tableVars, version, cpc, targetVars, readVars>>
-----------------------------------------------------------------------------
(* The workers.                                                            *)

IsHdr(x) == x # None /\ x.page_id # None
InRam(v) == [val |-> v, page_id |-> None, page_version |-> 0, offset |-> 0, valid |-> TRUE]

\* The compactor works on an object with the item lock of its key.
Locked(k) == cpc = "write" /\ readback_buf[offset].key = k

\* The item goes, and with a header the object it stands for.
STORAGE_delete(k) == IF IsHdr(table[k])
                     THEN extstore_delete(table[k].page_id, table[k].page_version)
                     ELSE UNCHANGED page

\* set, or whatever else stores a value.
Set(k) ==
    /\ ~Locked(k) /\ sets < MaxSets
    /\ sets' = sets + 1
    /\ table' = [table EXCEPT ![k] = InRam(sets + 1)]
    /\ held' = held \ {k}
    /\ STORAGE_delete(k)
    /\ UNCHANGED <<version, page_data, cpc, targetVars, readVars>>

\* delete, or the end of an item found expired.
Delete(k) ==
    /\ ~Locked(k) /\ table[k] # None
    /\ table' = [table EXCEPT ![k] = None]
    /\ held' = held \ {k}
    /\ STORAGE_delete(k)
    /\ UNCHANGED <<sets, version, page_data, cpc, targetVars, readVars>>

\* Time or flush_all ends an item's life; it stays in the table.
Expire(k) ==
    /\ table[k] # None /\ table[k].valid
    /\ table' = [table EXCEPT ![k].valid = FALSE]
    /\ UNCHANGED <<held, sets, engineVars, page_data, cpc, targetVars, readVars>>

\* A worker takes a reference to the item, or gives it back.
Hold(k) ==
    /\ ~Locked(k) /\ table[k] # None
    /\ held' = IF k \in held THEN held \ {k} ELSE held \cup {k}
    /\ UNCHANGED <<table, sets, engineVars, page_data, cpc, targetVars, readVars>>
-----------------------------------------------------------------------------
(* The writer.                                                             *)

\* storage_write of the item with key k, which lru_pull_tail found at the COLD
\* tail and locked: the copy on the page has the reference count the item had,
\* ours included.  Nothing happens when there is no memory for the header or
\* no page to write to.
storage_write(k) ==
    /\ ~Locked(k)
    /\ table[k] # None /\ ~IsHdr(table[k])
    /\ \E b \in {DEFAULT, LOWTTL} : \E p \in Targets(b) :
         /\ extstore_write(p, b, [key |-> k, val |-> table[k].val,
                                  refcount |-> IF k \in held THEN 3 ELSE 2])
         /\ table' = [table EXCEPT ![k] = Redirected(@, p)]
    /\ held' = held \ {k}
    /\ UNCHANGED <<sets, page_data, cpc, targetVars, readVars>>
-----------------------------------------------------------------------------
(* The compactor.                                                          *)

\* storage_compact_check: the oldest page below the limit of fragmentation,
\* which grows as free pages get rare; failing that, the oldest page of all
\* when unread items may be dropped.  It goes by what was published last.
Candidates == {p \in Pages : page_data[p].version # 0 /\ page_data[p].bucket # LOWTTL}
Fragmented ==
    LET n == Cardinality(Pages)
        pages_used == n - Cardinality(FreePages)
    IN  {p \in Candidates : page_data[p].used * 100 * n < PageSize * MaxFrag * pages_used}
Oldest(S) == {p \in S : \A q \in S : page_data[p].version <= page_data[q].version}
storage_compact_check(p, drop) ==
    /\ FreePages # Pages /\ Cardinality(FreePages) <= CompactUnder
    /\ IF Fragmented # {} THEN p \in Oldest(Fragmented) /\ ~drop
       ELSE /\ DropUnread # 0 /\ Cardinality(FreePages) <= DropUnread
            /\ p \in Oldest(Candidates) /\ drop

\* At the top of its loop.  There storage_compact_pause may keep it: a pause is
\* a time in which none of its steps is taken, as for the writer.
Awake == cpc = "sleep"
Submitted == [submitted |-> TRUE, done |-> FALSE, miss |-> FALSE]

\* A compaction starts and asks for the first part of its page...
CompactStart ==
    /\ Awake /\ ~compacting
    /\ \E p \in Candidates, drop \in BOOLEAN :
         /\ storage_compact_check(p, drop)
         /\ page_id' = p /\ page_version' = page_data[p].version /\ drop_unread' = drop
    /\ compacting' = TRUE /\ page_offset' = 0
    /\ wrap' = Submitted /\ given_up' = {}
    /\ UNCHANGED <<tableVars, engineVars, page_data, cpc, readback_buf, offset>>

\* ...and later for the next one.
CompactSubmit ==
    /\ Awake /\ compacting
    /\ page_offset < PageSize /\ ~wrap.done /\ ~wrap.submitted
    /\ wrap' = Submitted
    /\ UNCHANGED <<tableVars, engineVars, page_data, cpc, targetVars, readback_buf,
                   offset, given_up>>

\* _storage_compact_cb, in an IO thread, with what it read; a miss when the
\* page is not that version any more.
storage_compact_cb ==
    /\ wrap.submitted /\ ~wrap.done
    /\ LET p == page[page_id]
           hit == p.version = page_version /\ ~p.closed
           last == Min({page_offset + WbufSize, Len(p.objs)})
       IN  /\ wrap' = [wrap EXCEPT !.done = TRUE, !.miss = ~hit]
           /\ readback_buf' = IF hit THEN SubSeq(p.objs, page_offset + 1, last) ELSE <<>>
    /\ UNCHANGED <<tableVars, engineVars, page_data, cpc, targetVars, offset, given_up>>

\* What it was compacting means nothing any more.
Finished == /\ compacting' = FALSE /\ page_id' = 0 /\ page_version' = 0 /\ page_offset' = 0
            /\ drop_unread' = FALSE /\ wrap' = NoWrap /\ given_up' = {}

CompactAbort ==
    /\ Awake /\ compacting /\ wrap.done /\ wrap.miss
    /\ Finished
    /\ UNCHANGED <<tableVars, engineVars, page_data, cpc, readback_buf, offset>>

CompactRead ==
    /\ Awake /\ compacting /\ wrap.done /\ ~wrap.miss
    /\ cpc' = "object" /\ offset' = 1
    /\ UNCHANGED <<tableVars, engineVars, page_data, targetVars, wrap, readback_buf,
                   given_up>>

CompactEnd ==
    /\ Awake /\ compacting /\ page_offset >= PageSize /\ ~wrap.submitted
    /\ page' = IF page[page_id].version = page_version
               THEN [page EXCEPT ![page_id].closed = TRUE] ELSE page
    /\ Finished
    /\ UNCHANGED <<tableVars, version, page_data, cpc, readback_buf, offset>>
-----------------------------------------------------------------------------
(* storage_compact_readback, object by object.                             *)

Obj == readback_buf[offset]

\* The header found for the object's key is taken for the object's: page and
\* version are compared, the offset is not.
StillValid(x) == /\ IsHdr(x) /\ x.valid
                 /\ x.page_id = page_id /\ x.page_version = page_version

\* The object is not in use any more.
SkipObject ==
    /\ cpc = "object" /\ offset <= Len(readback_buf)
    /\ ~StillValid(table[Obj.key])
    /\ offset' = offset + 1
    /\ UNCHANGED <<tableVars, engineVars, page_data, cpc, targetVars, wrap,
                   readback_buf, given_up>>

\* It is: it is deleted from its page.  An item that is to be dropped because
\* it is COLD gets no other page.
DeleteObject ==
    /\ cpc = "object" /\ offset <= Len(readback_buf)
    /\ StillValid(table[Obj.key])
    /\ extstore_delete(page_id, page_version)
    /\ \/ cpc' = "write" /\ UNCHANGED <<offset, given_up>>
       \/ /\ drop_unread
          /\ given_up' = given_up \cup {Obj.key}
          /\ offset' = offset + 1 /\ UNCHANGED cpc
    /\ UNCHANGED <<tableVars, version, page_data, targetVars, wrap, readback_buf>>

\* Mutation: the header keeps its old offset.
RescueObject_KeepsOffset ==
    /\ cpc = "write"
    /\ \E p \in Targets(COMPACT) :
         /\ extstore_write(p, COMPACT, Obj)
         /\ table' = [table EXCEPT ![Obj.key].page_id = p,
                                   ![Obj.key].page_version = page'[p].version]
    /\ UNCHANGED given_up
    /\ cpc' = "object" /\ offset' = offset + 1
    /\ UNCHANGED <<held, sets, page_data, targetVars, wrap, readback_buf>>

\* It is written to another page.  The header is redirected if the copy that
\* was read back has a reference count of 2, the one the item had when it was
\* written; what the header's own count is now is not looked at.
RescueObject ==
    /\ cpc = "write"
    /\ \E p \in Targets(COMPACT) :
         /\ extstore_write(p, COMPACT, Obj)
         /\ IF Obj.refcount = 2
            THEN table' = [table EXCEPT ![Obj.key] = Redirected(@, p)] /\ UNCHANGED given_up
            ELSE given_up' = given_up \cup {Obj.key} /\ UNCHANGED table
    /\ cpc' = "object" /\ offset' = offset + 1
    /\ UNCHANGED <<held, sets, page_data, targetVars, wrap, readback_buf>>

\* Ten times no page to write to.
LoseObject ==
    /\ cpc = "write"
    /\ given_up' = given_up \cup {Obj.key}
    /\ cpc' = "object" /\ offset' = offset + 1
    /\ UNCHANGED <<tableVars, engineVars, page_data, targetVars, wrap, readback_buf>>

\* Mutation: the next read starts one buffer too far.
ReadbackEnd_Far ==
    /\ cpc = "object" /\ offset > Len(readback_buf)
    /\ page_offset' = page_offset + 2 * WbufSize
    /\ wrap' = [wrap EXCEPT !.done = FALSE, !.submitted = FALSE]
    /\ cpc' = "sleep" /\ offset' = 1 /\ readback_buf' = <<>>
    /\ UNCHANGED <<tableVars, engineVars, page_data, compacting, page_id,
                   page_version, drop_unread, given_up>>

ReadbackEnd ==
    /\ cpc = "object" /\ offset > Len(readback_buf)
    /\ page_offset' = page_offset + WbufSize
    /\ wrap' = [wrap EXCEPT !.done = FALSE, !.submitted = FALSE]
    /\ cpc' = "sleep" /\ offset' = 1 /\ readback_buf' = <<>>
    /\ UNCHANGED <<tableVars, engineVars, page_data, compacting, page_id,
                   page_version, drop_unread, given_up>>
-----------------------------------------------------------------------------
Compactor == \/ CompactStart \/ CompactSubmit \/ CompactAbort \/ CompactRead \/ CompactEnd
             \/ SkipObject \/ DeleteObject \/ RescueObject \/ LoseObject \/ ReadbackEnd

Next == \/ \E k \in Keys : Set(k) \/ Delete(k) \/ Expire(k) \/ Hold(k) \/ storage_write(k)
        \/ extstore_maint_thread \/ \E p \in Pages : wbuf_cb(p)
        \/ storage_compact_cb
        \/ Compactor

Spec == Init /\ [][Next]_vars

-----------------------------------------------------------------------------
(* Properties.                                                             *)

\* The object that header x leads to, while its page is what it was.
Readable(x) == IsHdr(x) /\ page[x.page_id].version = x.page_version
               /\ ~page[x.page_id].closed
Found(x) == page[x.page_id].objs[x.offset]

\* However often its object was moved and whatever was done to its page, a
\* header leads to an object of its own key or, by the version, to nothing.
HeaderFindsOwnKey ==
    \A k \in Keys : Readable(table[k]) =>
        /\ table[k].offset \in 1 .. Len(page[table[k].page_id].objs)
        /\ Found(table[k]).key = k

\* A page is closed only when every item on it that is still wanted has been
\* moved, or was given up: dropped, or lost for one of the reasons that the
\* code counts.
CompactionComplete ==
    [][CompactEnd => \A k \in Keys : StillValid(table[k]) => k \in given_up]_vars

\* "Item header is still completely valid", says the code when page and version
\* are those of the object it read back: then the value the header leads to is
\* the item's value.
HeaderFindsLatest ==
    \A k \in Keys : Readable(table[k]) => Found(table[k]).val = table[k].val
=============================================================================
