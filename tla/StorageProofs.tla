--------------------------- MODULE StorageProofs ---------------------------
(***************************************************************************)
(* Proofs about Storage, for every set of keys and pages and every size of *)
(* page and write buffer.                                                  *)
(***************************************************************************)
EXTENDS Storage, SequenceTheorems, TLAPS

-----------------------------------------------------------------------------
(* The inductive invariant.                                                *)

Object == [key : Keys, val : Nat, refcount : Nat]
Item == [val : Nat, page_id : Pages \cup {None}, page_version : Nat, offset : Nat,
         valid : BOOLEAN]
Bucket == {DEFAULT, COMPACT, LOWTTL}
Page == [version : Nat, bucket : Bucket, active : BOOLEAN, closed : BOOLEAN,
         objs : Seq(Object), obj_count : Nat]
Data == [version : Nat, bucket : Bucket, used : Nat]
Wrap == [submitted : BOOLEAN, done : BOOLEAN, miss : BOOLEAN]

TypeOK ==
    /\ table \in [Keys -> Item \cup {None}] /\ sets \in Nat
    /\ page \in [Pages -> Page] /\ version \in Nat
    /\ page_data \in [Pages -> Data]
    /\ cpc \in {"sleep", "object", "write"}
    /\ compacting \in BOOLEAN /\ page_id \in Nat /\ page_version \in Nat /\ page_offset \in Nat
    /\ wrap \in Wrap /\ readback_buf \in Seq(Object) /\ offset \in Nat \ {0}

\* No version is used twice.
Versions ==
    /\ \A p \in Pages : page[p].version <= version /\ page_data[p].version <= version
    /\ \A k \in Keys : IsHdr(table[k]) => /\ table[k].page_version \in 1 .. version
                                          /\ table[k].offset \in 1 .. PageSize
    /\ compacting => page_version \in 1 .. version /\ page_id \in Pages

\* A page that is not written to is full and stays as it is while its version
\* lasts; the compactor reads no other.
Sealed ==
    /\ \A p \in Pages :
         /\ page[p].active => page[p].version # 0
         /\ page[p].version # 0 /\ ~page[p].active => Len(page[p].objs) = PageSize
         /\ page_data[p].version # 0 /\ page_data[p].version = page[p].version => ~page[p].active
    /\ compacting /\ page[page_id].version = page_version => ~page[page_id].active

\* HeaderFindsOwnKey, for closed pages too.
HeadersRight ==
    \A k \in Keys : IsHdr(table[k]) /\ page[table[k].page_id].version = table[k].page_version =>
        /\ table[k].offset \in 1 .. Len(page[table[k].page_id].objs)
        /\ Found(table[k]).key = k

\* How far the compactor is.
Progress ==
    /\ wrap.submitted => compacting /\ page_offset < PageSize
    /\ wrap.done => wrap.submitted
    /\ cpc # "sleep" => wrap.done /\ ~wrap.miss /\ offset <= Len(readback_buf) + 1
    /\ cpc = "write" => offset <= Len(readback_buf) /\ IsHdr(table[Obj.key])

\* What was read back is that part of the page, as far as headers lead to it.
BufferRight ==
    wrap.done /\ ~wrap.miss =>
        /\ Len(readback_buf) >= WbufSize \/ page_offset + Len(readback_buf) >= PageSize
        /\ \A k \in Keys : StillValid(table[k]) =>
             \A i \in 1 .. Len(readback_buf) :
                 table[k].offset = page_offset + i => readback_buf[i].key = k

\* The objects the compactor has passed are not wanted, or given up.
Passed == IF cpc = "sleep" THEN page_offset ELSE page_offset + (offset - 1)
Covered ==
    compacting => \A k \in Keys :
        StillValid(table[k]) => k \in given_up \/ table[k].offset > Passed

IInv == TypeOK /\ Versions /\ Sealed /\ HeadersRight /\ Progress /\ BufferRight /\ Covered

-----------------------------------------------------------------------------
(* What the engine's calls do to a page.                                   *)

\* Sizes are positive.
LEMMA Sizes == PageSize \in Nat \ {0} /\ WbufSize \in 1 .. PageSize
BY PageAssumption

USE Sizes

\* One page is not what it was: it keeps its objects and, unless it is full,
\* goes on being written to; or it was freed.
Quiet(p) ==
    \/ /\ page'[p].version = page[p].version /\ page'[p].objs = page[p].objs
       /\ page'[p].active => page[p].active
       /\ ~page'[p].active /\ page[p].version # 0 => Len(page[p].objs) = PageSize
    \/ page'[p].version = 0 /\ page'[p].active = FALSE

\* Updates of the record of a page.
LEMMA PageRecord ==
    ASSUME NEW B, NEW S,
           NEW r \in [version : Nat, bucket : B, active : BOOLEAN, closed : BOOLEAN,
                      objs : S, obj_count : Nat]
    PROVE  LET R == [version : Nat, bucket : B, active : BOOLEAN, closed : BOOLEAN,
                     objs : S, obj_count : Nat]
           IN  /\ \A n \in Nat : LET u == [r EXCEPT !.obj_count = n]
                                IN  /\ u \in R /\ u.version = r.version /\ u.objs = r.objs
                                    /\ u.active = r.active
               /\ \A n \in Nat, s \in S :
                    LET u == [r EXCEPT !.objs = s, !.obj_count = n]
                    IN  /\ u \in R /\ u.version = r.version /\ u.objs = s
                        /\ u.active = r.active
               /\ \A a \in BOOLEAN : LET u == [r EXCEPT !.active = a]
                                    IN  /\ u \in R /\ u.version = r.version /\ u.objs = r.objs
                                        /\ u.active = a
               /\ \A c \in BOOLEAN : LET u == [r EXCEPT !.closed = c]
                                    IN  /\ u \in R /\ u.version = r.version /\ u.objs = r.objs
                                        /\ u.active = r.active
OBVIOUS

\* extstore_delete counts, and leaves the rest of the page alone.
LEMMA DeleteEffect ==
    ASSUME TypeOK, Sealed, NEW p \in Pages, NEW v, extstore_delete(p, v)
    PROVE  page' \in [Pages -> Page] /\ \A q \in Pages : Quiet(q)
<1>1. page \in [Pages -> Page]
  BY DEF TypeOK
<1>2. CASE page' = page
  BY <1>1, <1>2 DEF Quiet, Sealed
<1>3. CASE page' = [page EXCEPT ![p].obj_count = IF @ > 0 THEN @ - 1 ELSE 0]
  <2>1. PICK n \in Nat : page' = [page EXCEPT ![p] = [page[p] EXCEPT !.obj_count = n]]
    <3>1. page[p].obj_count \in Nat
      BY <1>1 DEF Page
    <3>2. (IF page[p].obj_count > 0 THEN page[p].obj_count - 1 ELSE 0) \in Nat
      BY <3>1
    <3> QED BY <1>1, <1>3, <3>2
  <2>2. LET u == [page[p] EXCEPT !.obj_count = n]
        IN  /\ u \in Page /\ u.version = page[p].version /\ u.objs = page[p].objs
            /\ u.active = page[p].active
    <3>1. page[p] \in Page
      BY <1>1
    <3> QED BY <3>1, PageRecord DEF Page
  <2>3. page' \in [Pages -> Page]
    BY <1>1, <2>1, <2>2
  <2>4. \A q \in Pages : /\ page'[q].version = page[q].version
                         /\ page'[q].objs = page[q].objs
                         /\ page'[q].active = page[q].active
    BY <1>1, <2>1, <2>2
  <2> QED BY <2>3, <2>4 DEF Quiet, Sealed
<1> QED BY <1>2, <1>3 DEF extstore_delete

\* The object is the last one of a page that had room, or the first of a page
\* that was free.
Last(p, o) ==
    /\ p \in Pages /\ version' \in Nat
    /\ \A q \in Pages : q # p => page'[q] = page[q]
    /\ page'[p].active = TRUE
    /\ Len(page'[p].objs) \in 1 .. PageSize
    /\ page'[p].objs[Len(page'[p].objs)] = o
OldOrNew(p) ==
    \/ /\ page[p].active /\ page'[p].version = page[p].version /\ version' = version
       /\ Len(page'[p].objs) = Len(page[p].objs) + 1
       /\ \A i \in 1 .. Len(page[p].objs) : page'[p].objs[i] = page[p].objs[i]
    \/ page'[p].version = version + 1 /\ version' = version + 1

LEMMA WriteEffect ==
    ASSUME TypeOK, NEW b \in Bucket, NEW p \in Targets(b), NEW o \in Object,
           extstore_write(p, b, o)
    PROVE  page' \in [Pages -> Page] /\ Last(p, o) /\ OldOrNew(p)
<1>1. page \in [Pages -> Page] /\ version \in Nat
  BY DEF TypeOK
<1>2. p \in Pages
  BY DEF Targets, Room, FreePages
<1>3. page' = Written(p, b, o)
  BY DEF extstore_write
<1>4. page[p] \in Page /\ page[p].objs \in Seq(Object)
  BY <1>1, <1>2 DEF Page
<1>5. CASE p \in Room(b)
  <2>1. PICK n \in Nat, s \in Seq(Object) :
          /\ s = Append(page[p].objs, o)
          /\ page' = [page EXCEPT ![p] = [page[p] EXCEPT !.objs = s, !.obj_count = n]]
    <3>1. page[p].obj_count + 1 \in Nat
      BY <1>4 DEF Page
    <3>2. Append(page[p].objs, o) \in Seq(Object)
      BY <1>4
    <3>3. page' = [page EXCEPT ![p] = [page[p] EXCEPT !.objs = Append(page[p].objs, o),
                                                      !.obj_count = page[p].obj_count + 1]]
      BY <1>1, <1>2, <1>3, <1>5 DEF Written
    <3> QED BY <3>1, <3>2, <3>3
  <2>2. LET u == [page[p] EXCEPT !.objs = s, !.obj_count = n]
        IN  /\ u \in Page /\ u.version = page[p].version /\ u.objs = s
            /\ u.active = page[p].active
    BY <1>4, PageRecord DEF Page
  <2>3. PICK r \in Page : /\ page' = [page EXCEPT ![p] = r] /\ r.objs = s
                          /\ r.version = page[p].version /\ r.active = page[p].active
    BY <2>1, <2>2
  <2>6. page' \in [Pages -> Page] /\ page'[p] = r /\ \A q \in Pages : q # p => page'[q] = page[q]
    BY <1>1, <1>2, <2>3
  <2>7. /\ Len(page'[p].objs) = Len(page[p].objs) + 1 /\ Len(page[p].objs) \in Nat
        /\ \A i \in 1 .. Len(page[p].objs) : page'[p].objs[i] = page[p].objs[i]
        /\ page'[p].objs[Len(page'[p].objs)] = o
    <3>1. /\ Len(s) = Len(page[p].objs) + 1 /\ Len(page[p].objs) \in Nat
          /\ \A i \in 1 .. Len(page[p].objs) : s[i] = page[p].objs[i]
          /\ s[Len(s)] = o
      BY <1>4, <2>1
    <3> QED BY <2>3, <2>6, <3>1
  <2>8. page[p].active = TRUE /\ Len(page[p].objs) < PageSize /\ version' = version
    BY <1>1, <1>2, <1>5 DEF Room, Page, extstore_write
  <2> QED BY <1>1, <1>2, <2>3, <2>6, <2>7, <2>8 DEF Last, OldOrNew
<1>6. CASE p \notin Room(b)
  <2>1. PICK r : /\ r = [version |-> version + 1, bucket |-> b, active |-> TRUE,
                         closed |-> FALSE, objs |-> <<o>>, obj_count |-> 1]
                 /\ page' = [page EXCEPT ![p] = r]
    BY <1>3, <1>6 DEF Written
  <2>2. r \in Page
    BY <1>1, <2>1 DEF Page
  <2>3. page' \in [Pages -> Page] /\ page'[p] = r /\ \A q \in Pages : q # p => page'[q] = page[q]
    BY <1>1, <1>2, <2>1, <2>2
  <2>4. Len(<<o>>) = 1 /\ <<o>>[1] = o
    OBVIOUS
  <2>5. version' = version + 1
    BY <1>6 DEF extstore_write
  <2> QED BY <1>1, <1>2, <2>1, <2>3, <2>4, <2>5 DEF Last, OldOrNew
<1> QED BY <1>5, <1>6

-----------------------------------------------------------------------------
(* What the steps have in common.                                          *)

\* A key's item is what it was as far as the storage goes, or is no header, or
\* is not valid any more.
Shrinks(k) ==
    IsHdr(table'[k]) =>
        /\ IsHdr(table[k]) /\ (table'[k].valid => table[k].valid)
        /\ table'[k].page_id = table[k].page_id /\ table'[k].offset = table[k].offset
        /\ table'[k].page_version = table[k].page_version

\* What is published of a page is what was, or nothing, or the version that a
\* page has that is not written to.
Published(p) ==
    \/ page_data'[p].version \in {page_data[p].version, 0}
    \/ page_data'[p].version = page[p].version /\ ~page[p].active

LEMMA TypeFacts ==
    ASSUME TypeOK
    PROVE  /\ \A p \in Pages : /\ page[p].version \in Nat /\ page[p].active \in BOOLEAN
                               /\ page[p].objs \in Seq(Object) /\ Len(page[p].objs) \in Nat
                               /\ page_data[p].version \in Nat
           /\ \A k \in Keys : IsHdr(table[k]) => /\ table[k] \in Item
                                                 /\ table[k].page_id \in Pages
                                                 /\ table[k].page_version \in Nat
                                                 /\ table[k].offset \in Nat
           /\ version \in Nat /\ page_version \in Nat /\ page_offset \in Nat
           /\ offset \in Nat \ {0} /\ Len(readback_buf) \in Nat
           /\ wrap.submitted \in BOOLEAN /\ wrap.done \in BOOLEAN /\ wrap.miss \in BOOLEAN
<1>1. \A p \in Pages : page[p] \in Page /\ page_data[p] \in Data
  BY DEF TypeOK
<1>2. \A p \in Pages : /\ page[p].version \in Nat /\ page[p].active \in BOOLEAN
                       /\ page[p].objs \in Seq(Object) /\ page_data[p].version \in Nat
  BY <1>1 DEF Page, Data
<1>3. \A p \in Pages : Len(page[p].objs) \in Nat
  BY <1>2
<1>4. \A k \in Keys : IsHdr(table[k]) => /\ table[k] \in Item
                                         /\ table[k].page_id \in Pages
                                         /\ table[k].page_version \in Nat
                                         /\ table[k].offset \in Nat
  BY DEF TypeOK, IsHdr, Item
<1>5. Len(readback_buf) \in Nat
  BY DEF TypeOK
<1> QED BY <1>2, <1>3, <1>4, <1>5 DEF TypeOK, Wrap

LEMMA NumFacts ==
    ASSUME TypeOK
    PROVE  /\ \A p \in Pages : /\ page[p].version \in Nat /\ page_data[p].version \in Nat
                               /\ Len(page[p].objs) \in Nat
           /\ \A k \in Keys : IsHdr(table[k]) => /\ table[k].page_id \in Pages
                                                 /\ table[k].page_version \in Nat
                                                 /\ table[k].offset \in Nat
           /\ version \in Nat /\ page_version \in Nat /\ page_offset \in Nat
           /\ offset \in Nat \ {0} /\ Len(readback_buf) \in Nat
BY TypeFacts

\* A step in which headers and pages at most go leaves the headers right.
LEMMA QuietStep ==
    ASSUME TypeOK, Versions, Sealed, HeadersRight,
           \A k \in Keys : Shrinks(k), \A p \in Pages : Quiet(p) /\ Published(p),
           version' = version
    PROVE  /\ \A p \in Pages : page'[p].version <= version' /\ page_data'[p].version <= version'
           /\ \A k \in Keys : IsHdr(table'[k]) => /\ table'[k].page_version \in 1 .. version'
                                                  /\ table'[k].offset \in 1 .. PageSize
           /\ \A p \in Pages :
                /\ page'[p].active => page'[p].version # 0
                /\ page'[p].version # 0 /\ ~page'[p].active => Len(page'[p].objs) = PageSize
                /\ page_data'[p].version # 0 /\ page_data'[p].version = page'[p].version =>
                     ~page'[p].active
           /\ compacting => (page'[page_id].version = page_version => ~page'[page_id].active)
           /\ HeadersRight'
<1>1. \A p \in Pages : page'[p].version <= version' /\ page_data'[p].version <= version'
  BY TypeFacts DEF Quiet, Published, Versions
<1>2. \A k \in Keys : IsHdr(table'[k]) => /\ table'[k].page_version \in 1 .. version'
                                          /\ table'[k].offset \in 1 .. PageSize
  BY DEF Shrinks, Versions
<1>3. \A p \in Pages :
         /\ page'[p].active => page'[p].version # 0
         /\ page'[p].version # 0 /\ ~page'[p].active => Len(page'[p].objs) = PageSize
         /\ page_data'[p].version # 0 /\ page_data'[p].version = page'[p].version =>
              ~page'[p].active
  BY DEF Quiet, Published, Sealed
<1>4. compacting => (page'[page_id].version = page_version => ~page'[page_id].active)
  BY DEF Quiet, Versions, Sealed
<1>5. HeadersRight'
  <2> SUFFICES ASSUME NEW k \in Keys, IsHdr(table'[k]),
                      page'[table'[k].page_id].version = table'[k].page_version
               PROVE  /\ table'[k].offset \in 1 .. Len(page'[table'[k].page_id].objs)
                      /\ page'[table'[k].page_id].objs[table'[k].offset].key = k
    BY DEF HeadersRight, Found, IsHdr
  <2>1. /\ IsHdr(table[k]) /\ table'[k].page_id = table[k].page_id
        /\ table'[k].offset = table[k].offset /\ table'[k].page_version = table[k].page_version
    BY DEF Shrinks
  <2>2. PICK p \in Pages : p = table[k].page_id
    BY <2>1, TypeFacts
  <2>3. table[k].page_version # 0
    BY <2>1 DEF Versions
  <2>4. page'[p].version = page[p].version /\ page'[p].objs = page[p].objs
    BY <2>1, <2>2, <2>3 DEF Quiet
  <2> QED BY <2>1, <2>2, <2>4 DEF HeadersRight, Found
<1> QED BY <1>1, <1>2, <1>3, <1>4, <1>5

\* The same while a compaction is at the same place.
LEMMA QuietAside ==
    ASSUME IInv, \A k \in Keys : Shrinks(k), \A p \in Pages : Quiet(p) /\ Published(p),
           UNCHANGED <<version, cpc, targetVars, readVars>>,
           cpc = "write" => IsHdr(table'[Obj.key])
    PROVE  Versions' /\ Sealed' /\ HeadersRight' /\ Progress' /\ BufferRight' /\ Covered'
<1> USE DEF IInv, targetVars, readVars
<1>1. Versions' /\ Sealed' /\ HeadersRight'
  BY QuietStep DEF Versions, Sealed, IsHdr
<1>2. \A k \in Keys : StillValid(table[k])' => /\ StillValid(table[k])
                                               /\ table'[k].offset = table[k].offset
  BY DEF StillValid, Shrinks, IsHdr
<1>3. Progress'
  BY DEF Progress, IsHdr, Obj
<1>4. BufferRight'
  BY <1>2 DEF BufferRight
<1>5. Covered'
  BY <1>2 DEF Covered, Passed
<1> QED BY <1>1, <1>3, <1>4, <1>5

-----------------------------------------------------------------------------
(* Every step keeps the invariant.                                         *)

USE DEF IInv

\* An item is replaced by None, by a value in memory, or its life ends.
LEMMA TableEffect ==
    ASSUME TypeOK, NEW k \in Keys, NEW x \in Item \cup {None}, table' = [table EXCEPT ![k] = x]
    PROVE  /\ table' \in [Keys -> Item \cup {None}] /\ table'[k] = x
           /\ \A j \in Keys : j # k => table'[j] = table[j]
BY DEF TypeOK

\* None is no item.
LEMMA NoneIsNoItem == None \notin Item
BY NoneAssumption DEF Item

\* The object the compactor is at.
LEMMA ObjFacts ==
    ASSUME TypeOK, offset <= Len(readback_buf)
    PROVE  Obj \in Object /\ Obj.key \in Keys
<1>1. offset \in 1 .. Len(readback_buf) /\ readback_buf \in Seq(Object)
  BY TypeFacts DEF TypeOK
<1>2. readback_buf[offset] \in Object
  BY <1>1
<1> QED BY <1>2 DEF Object, Obj

LEMMA NotLocked ==
    ASSUME IInv, NEW k \in Keys, ~Locked(k), table' \in [Keys -> Item \cup {None}],
           \A j \in Keys : j # k => table'[j] = table[j]
    PROVE  cpc = "write" => IsHdr(table'[Obj.key])
<1> SUFFICES ASSUME cpc = "write" PROVE IsHdr(table'[Obj.key])
  OBVIOUS
<1>3. Obj.key \in Keys /\ Obj.key # k
  BY ObjFacts DEF Progress, Obj, Locked
<1> QED BY <1>3 DEF Progress

LEMMA Removed ==
    ASSUME IInv, NEW k \in Keys, STORAGE_delete(k), table'[k] \in Item \cup {None},
           ~IsHdr(table'[k]),
           \A j \in Keys : j # k => table'[j] = table[j], UNCHANGED page_data
    PROVE  /\ page' \in [Pages -> Page]
           /\ \A j \in Keys : Shrinks(j) /\ \A p \in Pages : Quiet(p) /\ Published(p)
<1>1. page' \in [Pages -> Page] /\ \A p \in Pages : Quiet(p)
  <2>1. CASE IsHdr(table[k])
    <3>1. extstore_delete(table[k].page_id, table[k].page_version) /\ table[k].page_id \in Pages
      BY <2>1, TypeFacts DEF STORAGE_delete
    <3> QED BY <3>1, DeleteEffect
  <2>2. CASE ~IsHdr(table[k])
    BY <2>2 DEF STORAGE_delete, TypeOK, Quiet, Sealed
  <2> QED BY <2>1, <2>2
<1>2. \A p \in Pages : Published(p)
  BY DEF Published
<1>3. \A j \in Keys : Shrinks(j)
  BY DEF Shrinks, IsHdr
<1> QED BY <1>1, <1>2, <1>3

LEMMA Step_Set ==
    ASSUME IInv, NEW k \in Keys, Set(k)
    PROVE  IInv'
<1>1. InRam(sets + 1) \in Item /\ ~IsHdr(InRam(sets + 1))
  BY DEF TypeOK, InRam, Item, IsHdr
<1>2. /\ table' \in [Keys -> Item \cup {None}] /\ ~IsHdr(table'[k])
      /\ \A j \in Keys : j # k => table'[j] = table[j]
  BY <1>1, TableEffect DEF Set
<1>3. /\ page' \in [Pages -> Page]
      /\ \A j \in Keys : Shrinks(j) /\ \A p \in Pages : Quiet(p) /\ Published(p)
  BY <1>2, Removed DEF Set
<1>4. TypeOK'
  BY <1>2, <1>3 DEF TypeOK, Set, targetVars, readVars
<1>5. cpc = "write" => IsHdr(table'[Obj.key])
  BY <1>2, NotLocked DEF Set
<1> QED BY <1>3, <1>4, <1>5, QuietAside DEF Set

LEMMA Step_Delete ==
    ASSUME IInv, NEW k \in Keys, Delete(k)
    PROVE  IInv'
<1>2. /\ table' \in [Keys -> Item \cup {None}] /\ ~IsHdr(table'[k])
      /\ \A j \in Keys : j # k => table'[j] = table[j]
  BY TableEffect DEF Delete, IsHdr
<1>3. /\ page' \in [Pages -> Page]
      /\ \A j \in Keys : Shrinks(j) /\ \A p \in Pages : Quiet(p) /\ Published(p)
  BY <1>2, Removed DEF Delete
<1>4. TypeOK'
  BY <1>2, <1>3 DEF TypeOK, Delete, targetVars, readVars
<1>5. cpc = "write" => IsHdr(table'[Obj.key])
  BY <1>2, NotLocked DEF Delete
<1> QED BY <1>3, <1>4, <1>5, QuietAside DEF Delete

LEMMA SamePages ==
    ASSUME Sealed, UNCHANGED <<page, page_data>>
    PROVE  \A p \in Pages : Quiet(p) /\ Published(p)
BY DEF Quiet, Published, Sealed

LEMMA SameTable ==
    ASSUME UNCHANGED table
    PROVE  \A k \in Keys : Shrinks(k)
BY DEF Shrinks

LEMMA Step_Expire ==
    ASSUME IInv, NEW k \in Keys, Expire(k)
    PROVE  IInv'
<1>1. table[k] \in Item /\ table \in [Keys -> Item \cup {None}]
  BY DEF TypeOK, Expire
<1>2. PICK x \in Item : /\ table' = [table EXCEPT ![k] = x] /\ ~x.valid
                        /\ x.page_id = table[k].page_id /\ x.offset = table[k].offset
                        /\ x.page_version = table[k].page_version
  <2>1. [table[k] EXCEPT !.valid = FALSE] \in Item
    BY <1>1 DEF Item
  <2>2. table' = [table EXCEPT ![k] = [table[k] EXCEPT !.valid = FALSE]]
    BY <1>1 DEF Expire
  <2>3. LET y == [table[k] EXCEPT !.valid = FALSE]
        IN  /\ ~y.valid /\ y.page_id = table[k].page_id /\ y.offset = table[k].offset
            /\ y.page_version = table[k].page_version
    BY <1>1 DEF Item
  <2> QED BY <2>1, <2>2, <2>3
<1>3. /\ table' \in [Keys -> Item \cup {None}] /\ table'[k] = x
      /\ \A j \in Keys : j # k => table'[j] = table[j]
  BY <1>2, TableEffect
<1>4. TypeOK'
  BY <1>3 DEF TypeOK, Expire, engineVars, targetVars, readVars
<1>5. \A j \in Keys : Shrinks(j)
  BY <1>1, <1>2, <1>3 DEF Shrinks, IsHdr, Expire
<1>6. \A j \in Keys : IsHdr(table[j]) => IsHdr(table'[j])
  BY <1>1, <1>2, <1>3, NoneIsNoItem DEF IsHdr
<1>7. cpc = "write" => IsHdr(table'[Obj.key])
  BY <1>6, ObjFacts DEF Progress
<1> QED BY <1>4, <1>5, <1>7, SamePages, QuietAside DEF Expire, engineVars

LEMMA Step_Hold ==
    ASSUME IInv, NEW k \in Keys, Hold(k)
    PROVE  IInv'
<1>1. TypeOK'
  BY DEF TypeOK, Hold, engineVars, targetVars, readVars
<1>2. cpc = "write" => IsHdr(table'[Obj.key])
  BY DEF Progress, Hold
<1> QED BY <1>1, <1>2, SamePages, SameTable, QuietAside DEF Hold, engineVars

LEMMA Step_wbuf_cb ==
    ASSUME IInv, NEW p \in Pages, wbuf_cb(p)
    PROVE  IInv'
<1>1. page[p] \in Page /\ page \in [Pages -> Page]
  BY DEF TypeOK
<1>2. page' = [page EXCEPT ![p] = [page[p] EXCEPT !.active = FALSE]]
  BY <1>1 DEF wbuf_cb
<1>3. LET u == [page[p] EXCEPT !.active = FALSE]
      IN  u \in Page /\ u.version = page[p].version /\ u.objs = page[p].objs /\ ~u.active
  BY <1>1, PageRecord DEF Page
<1>4. page' \in [Pages -> Page] /\ \A q \in Pages : Quiet(q)
  BY <1>1, <1>2, <1>3 DEF Quiet, Sealed, wbuf_cb
<1>5. \A q \in Pages : Published(q)
  BY DEF Published, wbuf_cb
<1>6. TypeOK'
  BY <1>4 DEF TypeOK, wbuf_cb, tableVars, targetVars, readVars
<1>7. cpc = "write" => IsHdr(table'[Obj.key])
  BY DEF Progress, wbuf_cb, tableVars
<1> QED BY <1>4, <1>5, <1>6, <1>7, SameTable, QuietAside DEF wbuf_cb, tableVars

LEMMA Step_extstore_maint_thread ==
    ASSUME IInv, extstore_maint_thread
    PROVE  IInv'
<1>1. Free \in Page /\ Free.version = 0 /\ Free.active = FALSE /\ NoData \in Data
      /\ NoData.version = 0
  BY DEF Free, Page, NoData, Data, Bucket
<1>2. \A p \in Pages : page[p] \in Page
  BY DEF TypeOK
<1>3. page' \in [Pages -> Page] /\ \A p \in Pages : page'[p] \in {page[p], Free}
  BY <1>1, <1>2 DEF extstore_maint_thread
<1>4. \A p \in Pages : \/ page_data'[p] = NoData
                       \/ /\ ~page[p].active
                          /\ page_data'[p] = [version |-> page[p].version, bucket |-> page[p].bucket,
                                              used |-> page[p].obj_count]
  BY DEF extstore_maint_thread
<1>5. page_data' = [p \in Pages |-> page_data'[p]]
  BY DEF extstore_maint_thread
<1>6. \A p \in Pages : page_data'[p] \in Data /\ Published(p)
  <2> SUFFICES ASSUME NEW p \in Pages PROVE page_data'[p] \in Data /\ Published(p)
    OBVIOUS
  <2>1. page[p].version \in Nat /\ page[p].bucket \in Bucket /\ page[p].obj_count \in Nat
    BY <1>2 DEF Page
  <2>2. CASE page_data'[p] = NoData
    BY <1>1, <2>2 DEF Published
  <2>3. CASE /\ ~page[p].active
             /\ page_data'[p] = [version |-> page[p].version, bucket |-> page[p].bucket,
                                 used |-> page[p].obj_count]
    <3>1. page_data'[p].version = page[p].version
      BY <2>3
    <3>2. page_data'[p] \in Data
      BY <2>1, <2>3 DEF Data
    <3> QED BY <2>3, <3>1, <3>2 DEF Published
  <2> QED BY <1>4, <2>2, <2>3
<1>7. \A p \in Pages : Quiet(p)
  BY <1>1, <1>3 DEF Quiet, Sealed
<1>8. TypeOK'
  <2>1. page_data' \in [Pages -> Data]
    BY <1>5, <1>6
  <2> QED BY <1>3, <2>1 DEF TypeOK, extstore_maint_thread, tableVars, targetVars, readVars
<1>9. cpc = "write" => IsHdr(table'[Obj.key])
  BY DEF Progress, extstore_maint_thread, tableVars
<1> QED BY <1>6, <1>7, <1>8, <1>9, SameTable, QuietAside DEF extstore_maint_thread, tableVars

\* An object goes to a page, and the item's header, if at all, to the object.
LEMMA WriteKeeps ==
    ASSUME IInv, NEW k \in Keys, NEW b \in Bucket, NEW p \in Targets(b), NEW o \in Object,
           o.key = k, extstore_write(p, b, o),
           \/ table' = table
           \/ table[k] \in Item /\ table' = [table EXCEPT ![k] = Redirected(@, p)],
           UNCHANGED <<page_data, compacting, page_id, page_version>>
    PROVE  /\ table' \in [Keys -> Item \cup {None}] /\ page' \in [Pages -> Page]
           /\ version' \in Nat
           /\ Versions' /\ Sealed' /\ HeadersRight'
           /\ compacting => table' = table \/ ~StillValid(table[k])'
           /\ compacting /\ table[k] \in Item /\ table' = [table EXCEPT ![k] = Redirected(@, p)] =>
                ~StillValid(table[k])'
           /\ \A j \in Keys : j # k => table'[j] = table[j]
<1>0. page' \in [Pages -> Page] /\ Last(p, o) /\ OldOrNew(p)
  BY WriteEffect
<1>1. /\ p \in Pages /\ version' \in Nat
      /\ \A q \in Pages : q # p => page'[q] = page[q]
      /\ page'[p].active = TRUE
      /\ Len(page'[p].objs) \in 1 .. PageSize
      /\ page'[p].objs[Len(page'[p].objs)] = o
  BY <1>0 DEF Last
<1>2. \/ /\ page[p].active /\ page'[p].version = page[p].version /\ version' = version
         /\ Len(page'[p].objs) = Len(page[p].objs) + 1
         /\ \A i \in 1 .. Len(page[p].objs) : page'[p].objs[i] = page[p].objs[i]
      \/ page'[p].version = version + 1 /\ version' = version + 1
  BY <1>0 DEF OldOrNew
<1>3. page'[p].version \in 1 .. version' /\ version <= version'
  BY <1>1, <1>2, NumFacts DEF Versions, Sealed
<1>4. \A j \in Keys : j # k => table'[j] = table[j]
  BY DEF TypeOK
<1>5. ASSUME table[k] \in Item, table' = [table EXCEPT ![k] = Redirected(@, p)]
      PROVE  /\ table' \in [Keys -> Item \cup {None}]
             /\ table'[k].page_id = p /\ table'[k].page_version = page'[p].version
             /\ table'[k].offset = Len(page'[p].objs)
  <2>1. PICK x : x = Redirected(table[k], p)
    OBVIOUS
  <2>2. table' = [table EXCEPT ![k] = x]
    BY <1>5, <2>1
  <2>3. page'[p].version \in Nat /\ Len(page'[p].objs) \in Nat
    BY <1>1, <1>3, NumFacts
  <2>4. x \in Item
    BY <1>1, <1>5, <2>1, <2>3 DEF Redirected, Item
  <2>5. x.page_id = p /\ x.page_version = page'[p].version /\ x.offset = Len(page'[p].objs)
    BY <1>5, <2>1 DEF Redirected, Item
  <2> QED BY <2>2, <2>4, <2>5, TableEffect
<1>6. \/ table' = table
      \/ /\ table'[k].page_id = p /\ table'[k].page_version = page'[p].version
         /\ table'[k].offset = Len(page'[p].objs)
  BY <1>5
<1>7. table' \in [Keys -> Item \cup {None}]
  BY <1>5 DEF TypeOK
<1>14. ASSUME compacting PROVE ~(page_id = p /\ page_version = page'[p].version)
  <2>1. page_version <= version /\ page_version \in Nat /\ version \in Nat
    BY <1>14, NumFacts DEF Versions
  <2> QED BY <1>1, <1>2, <1>14, <2>1 DEF Sealed
<1>8. Versions'
  <2>1. \A q \in Pages : page'[q].version <= version' /\ page_data'[q].version <= version'
    <3> SUFFICES ASSUME NEW q \in Pages
                 PROVE  page'[q].version <= version' /\ page_data[q].version <= version'
      OBVIOUS
    <3>1. page[q].version <= version' /\ page_data[q].version <= version'
      BY <1>1, <1>3, NumFacts DEF Versions
    <3> QED BY <1>1, <1>3, <3>1
  <2>2. ASSUME NEW j \in Keys, IsHdr(table'[j])
        PROVE  /\ table'[j].page_version \in 1 .. version'
               /\ table'[j].offset \in 1 .. PageSize
    <3>1. CASE table'[j] = table[j]
      BY <1>1, <1>3, <2>2, <3>1, NumFacts DEF Versions
    <3>2. CASE table'[j] # table[j]
      <4>1. j = k
        BY <1>4, <3>2
      <4> QED BY <1>1, <1>3, <1>6, <3>2, <4>1
    <3> QED BY <3>1, <3>2
  <2> QED BY <1>1, <1>3, <2>1, <2>2, NumFacts DEF Versions, IsHdr
<1>9. Sealed'
  <2>1. \A q \in Pages :
         /\ page'[q].active => page'[q].version # 0
         /\ page'[q].version # 0 /\ ~page'[q].active => Len(page'[q].objs) = PageSize
         /\ page_data'[q].version # 0 /\ page_data'[q].version = page'[q].version =>
              ~page'[q].active
    <3> SUFFICES ASSUME NEW q \in Pages
                 PROVE  /\ page'[q].active => page'[q].version # 0
                        /\ page'[q].version # 0 /\ ~page'[q].active =>
                             Len(page'[q].objs) = PageSize
                        /\ page_data[q].version # 0 /\ page_data[q].version = page'[q].version =>
                             ~page'[q].active
      OBVIOUS
    <3>1. CASE q # p
      BY <1>1, <3>1 DEF Sealed
    <3>2. CASE q = p
      <4>1. page'[p].version # 0
        BY <1>3
      <4>2. page_data[p].version <= version /\ page_data[p].version \in Nat /\ version \in Nat
        BY <1>1, NumFacts DEF Versions
      <4>3. page_data[p].version # page'[p].version
        BY <1>1, <1>2, <4>1, <4>2 DEF Sealed
      <4> QED BY <1>1, <3>2, <4>1, <4>3
    <3> QED BY <3>1, <3>2
  <2>2. compacting /\ page'[page_id].version = page_version => ~page'[page_id].active
    <3>1. CASE page_id # p
      BY <1>1, <3>1 DEF Sealed, Versions
    <3>2. CASE page_id = p
      BY <1>14, <3>2
    <3> QED BY <3>1, <3>2
  <2> QED BY <2>1, <2>2 DEF Sealed
<1>10. HeadersRight'
  <2> SUFFICES ASSUME NEW j \in Keys, IsHdr(table'[j]),
                      page'[table'[j].page_id].version = table'[j].page_version
               PROVE  /\ table'[j].offset \in 1 .. Len(page'[table'[j].page_id].objs)
                      /\ page'[table'[j].page_id].objs[table'[j].offset].key = j
    BY DEF HeadersRight, Found, IsHdr
  <2>1. CASE table'[j] = table[j]
    <3>1. IsHdr(table[j])
      BY <2>1 DEF IsHdr
    <3>2. PICK q \in Pages : q = table[j].page_id
      BY <3>1, NumFacts
    <3>3. page'[q].version = table[j].page_version
      BY <2>1, <3>2
    <3>4. table[j].page_version \in Nat /\ table[j].page_version <= version /\ version \in Nat
      BY <3>1, NumFacts DEF Versions
    <3>5. /\ page'[q].version = page[q].version
          /\ Len(page'[q].objs) >= Len(page[q].objs)
          /\ \A i \in 1 .. Len(page[q].objs) : page'[q].objs[i] = page[q].objs[i]
      <4>1. CASE q # p
        BY <1>1, <4>1, NumFacts
      <4>2. CASE q = p
        BY <1>2, <3>3, <3>4, <4>2, NumFacts
      <4> QED BY <4>1, <4>2
    <3>6. table[j].offset \in 1 .. Len(page[q].objs) /\ page[q].objs[table[j].offset].key = j
      BY <3>1, <3>2, <3>3, <3>5 DEF HeadersRight, Found
    <3>7. Len(page'[q].objs) \in Nat /\ Len(page[q].objs) \in Nat
      BY <1>1, NumFacts
    <3>8. table[j].offset \in 1 .. Len(page'[q].objs)
      BY <3>5, <3>6, <3>7
    <3> QED BY <2>1, <3>2, <3>5, <3>6, <3>8
  <2>2. CASE table'[j] # table[j]
    BY <1>1, <1>4, <1>6, <2>2
  <2> QED BY <2>1, <2>2
<1>11. ASSUME compacting, table[k] \in Item, table' = [table EXCEPT ![k] = Redirected(@, p)]
       PROVE  ~StillValid(table[k])'
  <2>1. table'[k].page_id = p /\ table'[k].page_version = page'[p].version
    BY <1>5, <1>11
  <2>2. ~(page_id = p /\ page_version = page'[p].version)
    BY <1>11, <1>14
  <2> QED BY <2>1, <2>2 DEF StillValid
<1> QED BY <1>0, <1>1, <1>4, <1>7, <1>8, <1>9, <1>10, <1>11

-----------------------------------------------------------------------------
(* The writer and the compactor.                                           *)

\* Headers into the page being compacted at most become fewer.
Narrows == compacting => \A k \in Keys :
               StillValid(table[k])' => /\ StillValid(table[k])
                                        /\ table'[k].offset = table[k].offset

\* What was read back stays right while no header comes to the page.
LEMMA BufferStays ==
    ASSUME IInv, Narrows, UNCHANGED <<page_offset, wrap, readback_buf>>
    PROVE  BufferRight'
BY DEF Narrows, BufferRight, Progress

LEMMA Step_storage_write ==
    ASSUME IInv, NEW k \in Keys, storage_write(k)
    PROVE  IInv'
<1> USE DEF targetVars, readVars
<1>1. table[k] \in Item
  BY DEF storage_write, TypeOK
<1>0. PICK b \in {DEFAULT, LOWTTL} : \E p \in Targets(b) :
        /\ extstore_write(p, b, [key |-> k, val |-> table[k].val,
                                 refcount |-> IF k \in held THEN 3 ELSE 2])
        /\ table' = [table EXCEPT ![k] = Redirected(@, p)]
  BY DEF storage_write
<1>2. PICK p \in Targets(b) :
        /\ extstore_write(p, b, [key |-> k, val |-> table[k].val,
                                 refcount |-> IF k \in held THEN 3 ELSE 2])
        /\ table' = [table EXCEPT ![k] = Redirected(@, p)]
  BY <1>0
<1>3. PICK o \in Object : o.key = k /\ extstore_write(p, b, o)
  <2>1. [key |-> k, val |-> table[k].val, refcount |-> IF k \in held THEN 3 ELSE 2] \in Object
    BY <1>1 DEF Object, Item
  <2> QED BY <1>2, <2>1
<1>4. b \in Bucket
  BY DEF Bucket
<1>5. UNCHANGED <<page_data, compacting, page_id, page_version>>
  BY DEF storage_write
<1>6. /\ table' \in [Keys -> Item \cup {None}] /\ page' \in [Pages -> Page] /\ version' \in Nat
      /\ Versions' /\ Sealed' /\ HeadersRight'
      /\ compacting => ~StillValid(table[k])'
      /\ \A j \in Keys : j # k => table'[j] = table[j]
  BY <1>1, <1>2, <1>3, <1>4, <1>5, WriteKeeps
<1>7. TypeOK'
  BY <1>6 DEF TypeOK, storage_write
<1>8. Narrows
  BY <1>5, <1>6 DEF Narrows, StillValid, IsHdr
<1>9. BufferRight'
  BY <1>8, BufferStays DEF storage_write
<1>10. Covered'
  BY <1>8 DEF Narrows, Covered, Passed, storage_write
<1>11. cpc = "write" => IsHdr(table'[Obj.key])
  BY <1>6, NotLocked DEF storage_write
<1>12. Progress'
  BY <1>11 DEF Progress, storage_write, IsHdr, Obj
<1> QED BY <1>6, <1>7, <1>9, <1>10, <1>12

LEMMA Step_CompactStart ==
    ASSUME IInv, CompactStart
    PROVE  IInv'
<1> USE DEF CompactStart, tableVars, engineVars
<1>1. PICK p \in Candidates : page_id' = p /\ page_version' = page_data[p].version
  OBVIOUS
<1>2. p \in Pages /\ p \in Nat /\ page_data[p].version \in Nat \ {0}
  BY NumFacts, PageAssumption DEF Candidates
<1>3. wrap' \in Wrap /\ wrap'.submitted /\ ~wrap'.done
  BY DEF Submitted, Wrap
<1>4. TypeOK'
  BY <1>1, <1>2, <1>3 DEF TypeOK
<1>5. Versions'
  BY <1>1, <1>2, NumFacts DEF Versions, IsHdr
<1>6. Sealed'
  BY <1>1, <1>2 DEF Sealed
<1>7. HeadersRight'
  BY DEF HeadersRight, IsHdr, Found
<1>8. Progress'
  BY <1>3 DEF Progress, Awake
<1>9. BufferRight'
  BY <1>3 DEF BufferRight
<1>10. Covered'
  BY NumFacts DEF Covered, Passed, Awake, Versions, StillValid, IsHdr
<1> QED BY <1>4, <1>5, <1>6, <1>7, <1>8, <1>9, <1>10

LEMMA Step_CompactSubmit ==
    ASSUME IInv, CompactSubmit
    PROVE  IInv'
<1> USE DEF CompactSubmit, tableVars, engineVars, targetVars
<1>1. wrap' \in Wrap /\ wrap'.submitted /\ ~wrap'.done
  BY DEF Submitted, Wrap
<1>2. TypeOK'
  BY <1>1 DEF TypeOK
<1>3. Versions' /\ Sealed'
  BY DEF Versions, Sealed, IsHdr
<1>4. HeadersRight'
  BY DEF HeadersRight, IsHdr, Found
<1>5. Progress' /\ BufferRight'
  BY <1>1 DEF Progress, Awake, BufferRight
<1>6. Covered'
  BY DEF Covered, Passed, StillValid, IsHdr
<1> QED BY <1>2, <1>3, <1>4, <1>5, <1>6

\* What the IO thread reads of a full page.
LEMMA ReadEffect ==
    ASSUME NEW s \in Seq(Object), Len(s) = PageSize, NEW from \in Nat, from < PageSize
    PROVE  \E buf \in Seq(Object) :
             /\ buf = SubSeq(s, from + 1, Min({from + WbufSize, Len(s)}))
             /\ Len(buf) >= WbufSize \/ from + Len(buf) >= PageSize
             /\ \A i \in 1 .. Len(buf) : buf[i] = s[from + i]
<1>0. \A a, b \in Nat : Min({a, b}) \in {a, b} /\ Min({a, b}) <= a /\ Min({a, b}) <= b
  <2> SUFFICES ASSUME NEW a \in Nat, NEW b \in Nat
               PROVE  Min({a, b}) \in {a, b} /\ Min({a, b}) <= a /\ Min({a, b}) <= b
    OBVIOUS
  <2>1. \E x \in {a, b} : \A y \in {a, b} : x <= y
    <3>1. CASE a <= b
      BY <3>1
    <3>2. CASE b <= a
      BY <3>2
    <3> QED BY <3>1, <3>2
  <2> QED BY <2>1 DEF Min
<1>1. PICK last \in Nat : /\ last = Min({from + WbufSize, Len(s)})
                          /\ last \in {from + WbufSize, PageSize}
                          /\ last <= from + WbufSize /\ last <= PageSize
  <2>1. from + WbufSize \in Nat /\ Len(s) \in Nat
    OBVIOUS
  <2> QED BY <1>0, <2>1
<1>2. from + 1 \in Int /\ last \in Int /\ from + 1 <= last
  BY <1>1
<1>3. PICK buf : buf = SubSeq(s, from + 1, last)
  OBVIOUS
<1>4. \A i \in from + 1 .. last : s[i] \in Object
  BY <1>1, <1>2
<1>5. /\ buf \in Seq(Object) /\ Len(buf) = last - (from + 1) + 1
      /\ \A i \in 1 .. last - (from + 1) + 1 : buf[i] = s[from + 1 + i - 1]
  BY <1>2, <1>3, <1>4, SubSeqProperties
<1>6. Len(buf) = last - from /\ \A i \in 1 .. Len(buf) : from + 1 + i - 1 = from + i
  BY <1>1, <1>5
<1>7. \A i \in 1 .. Len(buf) : buf[i] = s[from + i]
  <2> SUFFICES ASSUME NEW i \in 1 .. Len(buf)
               PROVE  buf[i] = s[from + i]
    OBVIOUS
  <2>1. i \in 1 .. last - (from + 1) + 1
    BY <1>5
  <2>2. buf[i] = s[from + 1 + i - 1]
    BY <1>5, <2>1
  <2> QED BY <1>1, <1>6, <2>2
<1>8. Len(buf) >= WbufSize \/ from + Len(buf) >= PageSize
  BY <1>1, <1>6
<1> QED BY <1>1, <1>3, <1>5, <1>7, <1>8

LEMMA Step_storage_compact_cb ==
    ASSUME IInv, storage_compact_cb
    PROVE  IInv'
<1> USE DEF tableVars, engineVars, targetVars
<1>1. /\ wrap.submitted /\ ~wrap.done /\ compacting /\ page_offset < PageSize /\ cpc = "sleep"
      /\ page_id \in Pages /\ page_version # 0
  BY DEF storage_compact_cb, Progress, Versions
<1>2. PICK hit \in BOOLEAN :
        /\ hit = (page[page_id].version = page_version /\ ~page[page_id].closed)
        /\ wrap' = [wrap EXCEPT !.done = TRUE, !.miss = ~hit]
        /\ readback_buf' =
             IF hit THEN SubSeq(page[page_id].objs, page_offset + 1,
                                Min({page_offset + WbufSize, Len(page[page_id].objs)}))
             ELSE <<>>
  BY DEF storage_compact_cb
<1>3. wrap' \in Wrap /\ wrap'.submitted /\ wrap'.done /\ wrap'.miss = ~hit
  BY <1>1, <1>2 DEF TypeOK, Wrap
<1>4. ASSUME hit
      PROVE  /\ page[page_id].version = page_version
             /\ Len(readback_buf') >= WbufSize \/ page_offset + Len(readback_buf') >= PageSize
             /\ readback_buf' \in Seq(Object)
             /\ \A i \in 1 .. Len(readback_buf') :
                  readback_buf'[i] = page[page_id].objs[page_offset + i]
  <2>1. /\ page[page_id].objs \in Seq(Object) /\ Len(page[page_id].objs) = PageSize
        /\ page_offset \in Nat
    BY <1>1, <1>2, <1>4, TypeFacts DEF Sealed
  <2>2. PICK s \in Seq(Object), from \in Nat :
          s = page[page_id].objs /\ from = page_offset
    BY <2>1
  <2>3. readback_buf' = SubSeq(s, from + 1, Min({from + WbufSize, Len(s)}))
    BY <1>2, <1>4, <2>2
  <2>4. /\ Len(readback_buf') >= WbufSize \/ from + Len(readback_buf') >= PageSize
        /\ readback_buf' \in Seq(Object)
        /\ \A i \in 1 .. Len(readback_buf') : readback_buf'[i] = s[from + i]
    <3>1. Len(s) = PageSize /\ from < PageSize
      BY <1>1, <2>1, <2>2
    <3>2. PICK buf \in Seq(Object) :
            /\ buf = SubSeq(s, from + 1, Min({from + WbufSize, Len(s)}))
            /\ Len(buf) >= WbufSize \/ from + Len(buf) >= PageSize
            /\ \A i \in 1 .. Len(buf) : buf[i] = s[from + i]
      BY <3>1, ReadEffect
    <3>3. readback_buf' = buf
      BY <2>3, <3>2
    <3> QED BY <3>2, <3>3
  <2> QED BY <1>2, <1>4, <2>2, <2>4
<1>5. readback_buf' \in Seq(Object)
  <2>1. CASE hit
    BY <1>4, <2>1
  <2>2. CASE ~hit
    <3>1. readback_buf' = << >>
      BY <1>2, <2>2
    <3> QED BY <3>1, EmptySeq
  <2> QED BY <2>1, <2>2
<1>6. TypeOK'
  BY <1>3, <1>5 DEF TypeOK, storage_compact_cb
<1>7. Versions' /\ Sealed'
  BY DEF Versions, Sealed, IsHdr, storage_compact_cb
<1>8. HeadersRight'
  BY DEF HeadersRight, IsHdr, Found, storage_compact_cb
<1>9. Progress'
  BY <1>1, <1>3 DEF Progress, storage_compact_cb
<1>10. BufferRight'
  <2> SUFFICES ASSUME hit
               PROVE  /\ \/ Len(readback_buf') >= WbufSize
                         \/ page_offset + Len(readback_buf') >= PageSize
                      /\ \A k \in Keys : StillValid(table[k]) =>
                           \A i \in 1 .. Len(readback_buf') :
                             table[k].offset = page_offset + i => readback_buf'[i].key = k
    BY <1>3 DEF BufferRight, StillValid, IsHdr, storage_compact_cb
  <2>1. ASSUME NEW k \in Keys, StillValid(table[k]), NEW i \in 1 .. Len(readback_buf'),
               table[k].offset = page_offset + i
        PROVE  readback_buf'[i].key = k
    <3>1. page[page_id].objs[table[k].offset].key = k
      BY <1>4, <2>1 DEF HeadersRight, Found, StillValid
    <3> QED BY <1>4, <2>1, <3>1
  <2> QED BY <1>4, <2>1
<1>11. Covered'
  BY DEF Covered, Passed, StillValid, IsHdr, storage_compact_cb
<1> QED BY <1>6, <1>7, <1>8, <1>9, <1>10, <1>11

LEMMA Step_CompactAbort ==
    ASSUME IInv, CompactAbort
    PROVE  IInv'
<1> USE DEF CompactAbort, Finished, tableVars, engineVars
<1>1. wrap' \in Wrap /\ ~wrap'.submitted /\ ~wrap'.done
  BY DEF NoWrap, Wrap
<1>2. TypeOK'
  BY <1>1 DEF TypeOK
<1>3. Versions' /\ Sealed'
  BY DEF Versions, Sealed, IsHdr
<1>4. HeadersRight'
  BY DEF HeadersRight, IsHdr, Found
<1>5. Progress' /\ BufferRight' /\ Covered'
  BY <1>1 DEF Progress, Awake, BufferRight, Covered
<1> QED BY <1>2, <1>3, <1>4, <1>5

LEMMA Step_CompactRead ==
    ASSUME IInv, CompactRead
    PROVE  IInv'
<1> USE DEF CompactRead, tableVars, engineVars, targetVars
<1>1. TypeOK'
  BY DEF TypeOK
<1>2. Versions' /\ Sealed'
  BY DEF Versions, Sealed, IsHdr
<1>3. HeadersRight'
  BY DEF HeadersRight, IsHdr, Found
<1>4. Progress'
  BY NumFacts DEF Progress
<1>5. BufferRight'
  BY DEF BufferRight, StillValid, IsHdr
<1>6. Passed' = Passed
  BY NumFacts DEF Passed, Awake
<1>7. Covered'
  BY <1>6 DEF Covered, StillValid, IsHdr
<1> QED BY <1>1, <1>2, <1>3, <1>4, <1>5, <1>7

LEMMA Step_CompactEnd ==
    ASSUME IInv, CompactEnd
    PROVE  IInv'
<1> USE DEF tableVars
<1>1. wrap' \in Wrap /\ ~wrap'.submitted /\ ~wrap'.done
  BY DEF CompactEnd, Finished, NoWrap, Wrap
<1>2. page' \in [Pages -> Page] /\ \A p \in Pages : Quiet(p)
  <2>1. CASE page' = page
    BY <2>1 DEF TypeOK, Quiet, Sealed
  <2>2. CASE page' = [page EXCEPT ![page_id].closed = TRUE]
    <3>1. page[page_id] \in Page /\ page \in [Pages -> Page] /\ page_id \in Pages
      BY DEF TypeOK, Versions, CompactEnd
    <3>2. page' = [page EXCEPT ![page_id] = [page[page_id] EXCEPT !.closed = TRUE]]
      BY <2>2, <3>1
    <3>3. LET u == [page[page_id] EXCEPT !.closed = TRUE]
          IN  /\ u \in Page /\ u.version = page[page_id].version
              /\ u.objs = page[page_id].objs /\ u.active = page[page_id].active
      BY <3>1, PageRecord DEF Page
    <3>4. PICK u \in Page : /\ page' = [page EXCEPT ![page_id] = u]
                            /\ u.version = page[page_id].version
                            /\ u.objs = page[page_id].objs /\ u.active = page[page_id].active
      BY <3>2, <3>3
    <3>5. page' \in [Pages -> Page]
      BY <3>1, <3>4
    <3>6. \A q \in Pages : /\ page'[q].version = page[q].version
                           /\ page'[q].objs = page[q].objs
                           /\ page'[q].active = page[q].active
      BY <3>1, <3>4
    <3> QED BY <3>5, <3>6 DEF Quiet, Sealed
  <2> QED BY <2>1, <2>2 DEF CompactEnd
<1>3. TypeOK'
  BY <1>1, <1>2 DEF TypeOK, CompactEnd, Finished
<1>4. \A p \in Pages : Published(p)
  BY DEF Published, CompactEnd
<1>5. Versions' /\ Sealed' /\ HeadersRight'
  BY <1>2, <1>4, SameTable, QuietStep DEF CompactEnd, Finished, Versions, Sealed, IsHdr
<1>6. Progress' /\ BufferRight' /\ Covered'
  BY <1>1 DEF CompactEnd, Finished, Progress, Awake, BufferRight, Covered
<1> QED BY <1>3, <1>5, <1>6

-----------------------------------------------------------------------------
(* Reading back, object by object.                                         *)

\* What the steps below begin with.
LEMMA ReadingBack ==
    ASSUME IInv, cpc # "sleep"
    PROVE  /\ compacting /\ wrap.submitted /\ wrap.done /\ ~wrap.miss
           /\ offset <= Len(readback_buf) + 1 /\ page_id \in Pages
BY DEF Progress, Versions

\* The only header into the page that leads to the object is that of its key.
LEMMA OneObject ==
    ASSUME IInv, cpc # "sleep", offset <= Len(readback_buf), NEW k \in Keys,
           StillValid(table[k]), k \notin given_up, k # Obj.key
    PROVE  table[k].offset > page_offset + ((offset + 1) - 1)
<1>1. table[k].offset > page_offset + (offset - 1)
  BY ReadingBack DEF Covered, Passed
<1>2. /\ page_offset \in Nat /\ offset \in Nat \ {0} /\ table[k].offset \in Nat
      /\ Len(readback_buf) \in Nat
  BY NumFacts DEF StillValid
<1>3. table[k].offset # page_offset + offset
  BY <1>2, ReadingBack DEF BufferRight, Obj
<1> QED BY <1>1, <1>2, <1>3

\* The compactor goes on to the next object.
LEMMA NextObject ==
    ASSUME IInv, cpc # "sleep", offset <= Len(readback_buf),
           cpc' = "object", offset' = offset + 1,
           UNCHANGED <<compacting, page_offset, wrap, readback_buf>>,
           given_up \subseteq given_up', Narrows, NEW key, key = Obj.key,
           key \in given_up' \/ ~StillValid(table[key])'
    PROVE  Progress' /\ BufferRight' /\ Covered' /\ offset' \in Nat \ {0}
<1>1. BufferRight'
  BY BufferStays
<1>2. Progress'
  BY ReadingBack, NumFacts DEF Progress
<1>3. Covered'
  <2> SUFFICES ASSUME NEW k \in Keys, StillValid(table[k])', k \notin given_up'
               PROVE  table'[k].offset > page_offset + ((offset + 1) - 1)
    BY DEF Covered, Passed, StillValid, IsHdr
  <2>1. StillValid(table[k]) /\ table'[k].offset = table[k].offset
    BY ReadingBack DEF Narrows
  <2>2. k # Obj.key /\ k \notin given_up
    OBVIOUS
  <2> QED BY <2>1, <2>2, OneObject
<1> QED BY <1>1, <1>2, <1>3, NumFacts

LEMMA Step_SkipObject ==
    ASSUME IInv, SkipObject
    PROVE  IInv'
<1> USE DEF SkipObject, tableVars, engineVars, targetVars
<1>0. PICK key : key = Obj.key
  OBVIOUS
<1>1. Narrows /\ ~StillValid(table[key])'
  BY <1>0 DEF Narrows, StillValid, IsHdr
<1>2. Progress' /\ BufferRight' /\ Covered' /\ offset' \in Nat \ {0}
  BY <1>0, <1>1, NextObject
<1>3. TypeOK'
  BY <1>2 DEF TypeOK
<1>4. Versions' /\ Sealed'
  BY DEF Versions, Sealed, IsHdr
<1>5. HeadersRight'
  BY DEF HeadersRight, IsHdr, Found
<1> QED BY <1>2, <1>3, <1>4, <1>5

LEMMA Step_LoseObject ==
    ASSUME IInv, LoseObject
    PROVE  IInv'
<1> USE DEF LoseObject, tableVars, engineVars, targetVars
<1>1. Narrows /\ offset <= Len(readback_buf)
  BY DEF Narrows, StillValid, IsHdr, Progress
<1>2. Progress' /\ BufferRight' /\ Covered' /\ offset' \in Nat \ {0}
  BY <1>1, NextObject
<1>3. TypeOK'
  BY <1>2 DEF TypeOK
<1>4. Versions' /\ Sealed'
  BY DEF Versions, Sealed, IsHdr
<1>5. HeadersRight'
  BY DEF HeadersRight, IsHdr, Found
<1> QED BY <1>2, <1>3, <1>4, <1>5

LEMMA Step_DeleteObject ==
    ASSUME IInv, DeleteObject
    PROVE  IInv'
<1> USE DEF tableVars, targetVars
<1>1. page' \in [Pages -> Page] /\ \A q \in Pages : Quiet(q)
  BY ReadingBack, DeleteEffect DEF DeleteObject
<1>2. \A p \in Pages : Published(p)
  BY DEF Published, DeleteObject
<1>3. Versions' /\ Sealed' /\ HeadersRight'
  BY <1>1, <1>2, SameTable, QuietStep DEF DeleteObject, Versions, Sealed, IsHdr
<1>4. Narrows
  BY DEF DeleteObject, Narrows, StillValid, IsHdr
<1>5. CASE cpc' = "write" /\ UNCHANGED <<offset, given_up>>
  <2>1. TypeOK'
    BY <1>1, <1>5 DEF TypeOK, DeleteObject
  <2>2. Progress'
    BY <1>5, ReadingBack DEF Progress, DeleteObject, Obj, StillValid, IsHdr
  <2>3. BufferRight'
    BY <1>4, BufferStays DEF DeleteObject
  <2>4. Covered'
    BY <1>4, <1>5 DEF Covered, Passed, Narrows, DeleteObject
  <2> QED BY <1>3, <2>1, <2>2, <2>3, <2>4
<1>6. CASE given_up' = given_up \cup {Obj.key} /\ offset' = offset + 1 /\ UNCHANGED cpc
  <2>1. Progress' /\ BufferRight' /\ Covered' /\ offset' \in Nat \ {0}
    BY <1>4, <1>6, NextObject DEF DeleteObject
  <2>2. TypeOK'
    BY <1>1, <1>6, <2>1 DEF TypeOK, DeleteObject
  <2> QED BY <1>3, <2>1, <2>2
<1> QED BY <1>5, <1>6 DEF DeleteObject

LEMMA Step_RescueObject ==
    ASSUME IInv, RescueObject
    PROVE  IInv'
<1> USE DEF targetVars
<1>1. PICK p \in Targets(COMPACT) :
        /\ extstore_write(p, COMPACT, Obj)
        /\ IF Obj.refcount = 2
           THEN table' = [table EXCEPT ![Obj.key] = Redirected(@, p)] /\ UNCHANGED given_up
           ELSE given_up' = given_up \cup {Obj.key} /\ UNCHANGED table
  BY DEF RescueObject
<1>2. /\ cpc = "write" /\ offset <= Len(readback_buf) /\ IsHdr(table[Obj.key])
      /\ Obj \in Object /\ Obj.key \in Keys
  BY ObjFacts DEF RescueObject, Progress
<1>3. table[Obj.key] \in Item
  BY <1>2, TypeFacts
<1>4. PICK o \in Object, k \in Keys : o = Obj /\ k = Obj.key
  BY <1>2
<1>5. COMPACT \in Bucket
  BY DEF Bucket
<1>6. UNCHANGED <<page_data, compacting, page_id, page_version>>
  BY DEF RescueObject
<1>7. \/ table' = table
      \/ table[k] \in Item /\ table' = [table EXCEPT ![k] = Redirected(@, p)]
  BY <1>1, <1>3, <1>4
<1>8. /\ table' \in [Keys -> Item \cup {None}] /\ page' \in [Pages -> Page] /\ version' \in Nat
      /\ Versions' /\ Sealed' /\ HeadersRight'
      /\ compacting => table' = table \/ ~StillValid(table[k])'
      /\ compacting /\ table[k] \in Item /\ table' = [table EXCEPT ![k] = Redirected(@, p)] =>
           ~StillValid(table[k])'
      /\ \A j \in Keys : j # k => table'[j] = table[j]
  <2>1. o.key = k /\ extstore_write(p, COMPACT, o)
    BY <1>1, <1>4
  <2> QED BY <1>5, <1>6, <1>7, <2>1, WriteKeeps
<1>9. compacting
  BY <1>2, ReadingBack
<1>10. Narrows
  BY <1>6, <1>8 DEF Narrows, StillValid, IsHdr
<1>11. k \in given_up' \/ ~StillValid(table[k])'
  BY <1>1, <1>3, <1>4, <1>8, <1>9
<1>12. given_up \subseteq given_up'
  BY <1>1
<1>14. Progress' /\ BufferRight' /\ Covered' /\ offset' \in Nat \ {0}
  BY <1>2, <1>4, <1>10, <1>11, <1>12, NextObject DEF RescueObject
<1>15. TypeOK'
  BY <1>8, <1>14 DEF TypeOK, RescueObject
<1> QED BY <1>8, <1>14, <1>15

LEMMA Step_ReadbackEnd ==
    ASSUME IInv, ReadbackEnd
    PROVE  IInv'
<1> USE DEF tableVars, engineVars
<1>1. wrap' \in Wrap /\ ~wrap'.submitted /\ ~wrap'.done
  BY DEF ReadbackEnd, TypeOK, Wrap
<1>2. page_offset' = page_offset + WbufSize /\ page_offset \in Nat /\ page_offset' \in Nat
  BY NumFacts DEF ReadbackEnd
<1>3. TypeOK'
  BY <1>1, <1>2, EmptySeq DEF TypeOK, ReadbackEnd
<1>4. Versions' /\ Sealed'
  BY DEF Versions, Sealed, IsHdr, ReadbackEnd
<1>5. HeadersRight'
  BY DEF HeadersRight, IsHdr, Found, ReadbackEnd
<1>6. Progress' /\ BufferRight'
  BY <1>1 DEF Progress, BufferRight, ReadbackEnd
<1>7. Covered'
  <2> SUFFICES ASSUME NEW k \in Keys, StillValid(table[k]), k \notin given_up
               PROVE  table[k].offset > page_offset'
    BY DEF Covered, Passed, StillValid, IsHdr, ReadbackEnd
  <2>1. offset = Len(readback_buf) + 1 /\ compacting /\ cpc = "object"
    BY ReadingBack, NumFacts DEF ReadbackEnd
  <2>2. table[k].offset > page_offset + (offset - 1)
    BY <2>1 DEF Covered, Passed
  <2>3. table[k].offset <= PageSize /\ table[k].offset \in Nat
    BY NumFacts DEF Versions, StillValid
  <2>4. Len(readback_buf) >= WbufSize \/ page_offset + Len(readback_buf) >= PageSize
    BY ReadingBack, <2>1 DEF BufferRight
  <2> QED BY <1>2, <2>1, <2>2, <2>3, <2>4, NumFacts
<1> QED BY <1>3, <1>4, <1>5, <1>6, <1>7

-----------------------------------------------------------------------------
(* The theorems.                                                           *)

LEMMA InitIInv == Init => IInv
<1> SUFFICES ASSUME Init PROVE IInv
  OBVIOUS
<1> USE DEF Init
<1>1. Free \in Page /\ Free.version = 0 /\ Free.active = FALSE
      /\ NoData \in Data /\ NoData.version = 0
  BY EmptySeq DEF Free, Page, NoData, Data, Bucket
<1>2. NoWrap \in Wrap /\ NoWrap.submitted = FALSE /\ NoWrap.done = FALSE
  BY DEF NoWrap, Wrap
<1>3. /\ \A p \in Pages : page[p] = Free /\ page_data[p] = NoData
      /\ \A k \in Keys : ~IsHdr(table[k])
  BY DEF IsHdr
<1>4. TypeOK
  <2>1. page \in [Pages -> Page] /\ page_data \in [Pages -> Data]
    BY <1>1
  <2>2. table \in [Keys -> Item \cup {None}]
    OBVIOUS
  <2>3. readback_buf \in Seq(Object)
    BY EmptySeq
  <2>4. /\ sets \in Nat /\ version \in Nat /\ page_id \in Nat /\ page_version \in Nat
        /\ page_offset \in Nat /\ offset \in Nat \ {0}
    OBVIOUS
  <2>5. cpc \in {"sleep", "object", "write"} /\ wrap \in Wrap
    BY <1>2
  <2>6. compacting \in BOOLEAN
    BY Zenon
  <2> QED BY ONLY <2>1, <2>2, <2>3, <2>4, <2>5, <2>6 DEF TypeOK
<1>5. Versions /\ Sealed /\ HeadersRight
  BY <1>1, <1>3 DEF Versions, Sealed, HeadersRight
<1>6. Progress /\ BufferRight /\ Covered
  BY <1>2 DEF Progress, BufferRight, Covered
<1> QED BY <1>4, <1>5, <1>6

LEMMA StepIInv == IInv /\ [Next]_vars => IInv'
<1> SUFFICES ASSUME IInv, [Next]_vars PROVE IInv'
  OBVIOUS
<1>1. ASSUME NEW k \in Keys,
             Set(k) \/ Delete(k) \/ Expire(k) \/ Hold(k) \/ storage_write(k)
      PROVE  IInv'
  BY <1>1, Step_Set, Step_Delete, Step_Expire, Step_Hold, Step_storage_write
<1>2. CASE extstore_maint_thread
  BY <1>2, Step_extstore_maint_thread
<1>3. ASSUME NEW p \in Pages, wbuf_cb(p) PROVE IInv'
  BY <1>3, Step_wbuf_cb
<1>4. CASE storage_compact_cb
  BY <1>4, Step_storage_compact_cb
<1>5. CASE Compactor
  BY <1>5, Step_CompactStart, Step_CompactSubmit, Step_CompactAbort, Step_CompactRead,
     Step_CompactEnd, Step_SkipObject, Step_DeleteObject, Step_RescueObject, Step_LoseObject,
     Step_ReadbackEnd DEF Compactor
<1>6. CASE UNCHANGED vars
  <2> USE <1>6 DEF vars, tableVars, engineVars, targetVars, readVars
  <2>1. TypeOK'
    BY DEF TypeOK
  <2>2. cpc = "write" => IsHdr(table'[Obj.key])
    BY DEF Progress
  <2> QED BY <2>1, <2>2, SamePages, SameTable, QuietAside
<1> QED BY <1>1, <1>2, <1>3, <1>4, <1>5, <1>6 DEF Next

\* The inductive invariant holds in every state: versions are not reused, full
\* pages do not change, the compactor's buffer is what its page holds and what
\* it has passed is not wanted any more.
THEOREM Invariance == Spec => []IInv
BY InitIInv, StepIInv, PTL DEF Spec

\* The address in a header of the hash table leads to an object of that key, or
\* its version shows that the page is not the same any more: for every number of
\* keys, pages and objects per page, and every interleaving of workers, writer,
\* compactor, IO threads and maintenance thread.
THEOREM OwnKey == Spec => []HeaderFindsOwnKey
<1>1. IInv => HeaderFindsOwnKey
  BY DEF HeadersRight, HeaderFindsOwnKey, Readable
<1> QED BY <1>1, Invariance, PTL

\* The compactor closes a page when every item on it that is still wanted was
\* moved or given up, although workers store and delete the same items while it
\* reads and writes.
THEOREM Complete == Spec => CompactionComplete
<1>1. IInv /\ [Next]_vars =>
        [CompactEnd => \A k \in Keys : StillValid(table[k]) => k \in given_up]_vars
  <2> SUFFICES ASSUME IInv, CompactEnd, NEW k \in Keys, StillValid(table[k])
               PROVE  k \in given_up
    OBVIOUS
  <2>1. compacting /\ Passed = page_offset /\ page_offset >= PageSize
    BY DEF CompactEnd, Awake, Passed
  <2>2. table[k].offset <= PageSize /\ table[k].offset \in Nat /\ page_offset \in Nat
    BY NumFacts DEF Versions, StillValid
  <2> QED BY <2>1, <2>2 DEF Covered
<1> QED BY <1>1, Invariance, PTL DEF Spec, CompactionComplete
=============================================================================
