------------------------------ MODULE LruProofs ------------------------------
(***************************************************************************)
(* The steps of Lru keep the inductive invariant of LruInvariant: one      *)
(* lemma for each action, of the workers, the tail pulls, the maintainer   *)
(* and the crawler.  The theorems about Lru are at the end.                *)
(***************************************************************************)
EXTENDS LruInvariant

-----------------------------------------------------------------------------
(* What the steps have in common.                                          *)

LEMMA WorkerIs ==
    ASSUME IInv, NEW w \in Workers
    PROVE  /\ w \in Pullers /\ w \in Threads /\ w # Maintainer /\ w # None
           /\ WorkerOK(w) /\ PullerOK(w) /\ IsThread(th[w])
           /\ th[w].pc = "idle" => th[w].own = 0
BY Constants DEF IInv, ThreadsOK, Types, WorkerOK, Threads

LEMMA Removed ==
    ASSUME NEW p, p \in ItemRecords, p.ref # 0, p.key \in Keys, NEW d, d = do_item_remove(p)
    PROVE  /\ d \in ItemRecords /\ d.ref = p.ref - 1
           /\ d = Free \/ (d.ref # 0 /\ d.key \in Keys)
           /\ p.ref # 1 => d.key = p.key /\ d.lru = p.lru /\ d.flags = p.flags
           /\ p.ref = 1 => d.flags = {}
<1>1. IsItem(p) /\ p.ref \in Nat /\ p.lru \in Lrus /\ p.flags \in FlagSets
  BY ONLY p \in ItemRecords, RecordFields
<1>2. d = IF p.ref = 1 THEN Free ELSE Rec(p, p.lru, p.flags, p.ref - 1)
  BY ONLY <1>1, Updates, d = do_item_remove(p)
<1>3. CASE p.ref = 1
  <2>1. d = Free
    BY <1>2, <1>3
  <2>2. Free \in ItemRecords /\ Free.ref = 0 /\ Free.flags = {}
    <3>1. HOT \in Lrus
      BY Constants
    <3> QED BY <3>1, Flagged DEF Free, ItemRecords
  <2> QED BY ONLY <1>3, <2>1, <2>2
<1>4. CASE p.ref # 1
  <2>1. PICK n : n = p.ref - 1
    OBVIOUS
  <2>2. n \in Nat /\ n # 0
    BY ONLY <1>1, <1>4, <2>1, p.ref # 0
  <2>3. d = Rec(p, p.lru, p.flags, n)
    BY ONLY <1>2, <1>4, <2>1
  <2>4. /\ d \in ItemRecords /\ d.key = p.key /\ d.lru = p.lru /\ d.flags = p.flags /\ d.ref = n
    BY ONLY <1>1, <2>2, <2>3, RecOK, p \in ItemRecords
  <2> QED BY ONLY <1>4, <2>1, <2>2, <2>4, p.key \in Keys
<1> QED BY <1>3, <1>4

LEMMA Updated ==
    ASSUME IInv, NEW x \in Items, NEW p, NEW l, l \in Lrus, NEW fl,
           fl \in FlagSets, NEW n, n \in Nat,
           p = Rec(item[x], l, fl, n)
    PROVE  /\ p \in ItemRecords /\ p.key = item[x].key /\ p.lru = l /\ p.flags = fl /\ p.ref = n
<1>1. PICK z : z = item[x]
  OBVIOUS
<1>2. z \in ItemRecords
  BY <1>1, ItemFields
<1>3. p = Rec(z, l, fl, n)
  BY ONLY <1>1, p = Rec(item[x], l, fl, n)
<1>4. p \in ItemRecords /\ p.key = z.key /\ p.lru = l /\ p.flags = fl /\ p.ref = n
  BY ONLY <1>2, <1>3, RecOK, l \in Lrus, fl \in FlagSets, n \in Nat
<1> QED BY ONLY <1>1, <1>4

\* What the operations make of an item.
LEMMA Unlinks ==
    ASSUME NEW z, z \in ItemRecords, NEW p, p = MarkUnlinked(z)
    PROVE  /\ p \in ItemRecords /\ p.key = z.key /\ p.lru = z.lru /\ p.ref = z.ref
           /\ "LINKED" \notin p.flags
<1>1. IsItem(z) /\ z.ref \in Nat /\ z.lru \in Lrus /\ z.flags \in FlagSets
  BY RecordFields
<1>2. PICK fl : fl = z.flags \ {"LINKED"}
  OBVIOUS
<1>3. fl \in FlagSets /\ "LINKED" \notin fl
  BY <1>1, <1>2, Flagged
<1>4. p = Rec(z, z.lru, fl, z.ref)
  BY ONLY <1>1, <1>2, Updates, p = MarkUnlinked(z)
<1>5. p \in ItemRecords /\ p.key = z.key /\ p.lru = z.lru /\ p.flags = fl /\ p.ref = z.ref
  BY ONLY <1>1, <1>3, <1>4, RecOK, z \in ItemRecords
<1> QED BY ONLY <1>3, <1>5

LEMMA Inactivates ==
    ASSUME NEW z, z \in ItemRecords, NEW p, p = MarkInactive(z)
    PROVE  /\ p \in ItemRecords /\ p.key = z.key /\ p.lru = z.lru /\ p.ref = z.ref
           /\ "LINKED" \in p.flags <=> "LINKED" \in z.flags
<1>1. IsItem(z) /\ z.ref \in Nat /\ z.lru \in Lrus /\ z.flags \in FlagSets
  BY RecordFields
<1>2. PICK fl : fl = z.flags \ {"ACTIVE"}
  OBVIOUS
<1>3. fl \in FlagSets /\ ("LINKED" \in fl <=> "LINKED" \in z.flags)
  BY <1>1, <1>2, Flagged
<1>4. p = Rec(z, z.lru, fl, z.ref)
  BY ONLY <1>1, <1>2, Updates, p = MarkInactive(z)
<1>5. p \in ItemRecords /\ p.key = z.key /\ p.lru = z.lru /\ p.flags = fl /\ p.ref = z.ref
  BY ONLY <1>1, <1>3, <1>4, RecOK, z \in ItemRecords
<1> QED BY ONLY <1>3, <1>5

LEMMA Increments ==
    ASSUME NEW z, z \in ItemRecords, NEW p, p = refcount_incr(z)
    PROVE  /\ p \in ItemRecords /\ p.key = z.key /\ p.lru = z.lru /\ p.flags = z.flags
           /\ p.ref = z.ref + 1 /\ p.ref # 0
<1>1. IsItem(z) /\ z.ref \in Nat /\ z.lru \in Lrus /\ z.flags \in FlagSets
  BY RecordFields
<1>2. PICK i, j, l, f : i = z.ref /\ j = z.ref + 1 /\ l = z.lru /\ f = z.flags
  OBVIOUS
<1>3. j \in Nat /\ j # 0 /\ i \in Nat /\ j = i + 1
  BY ONLY <1>1, <1>2
<1>4. z = Rec(z, l, f, i)
  BY ONLY <1>1, <1>2, RecIs
<1>5. p = Rec(z, l, f, j)
  BY ONLY <1>1, <1>3, <1>4, Incremented, p = refcount_incr(z)
<1>6. p \in ItemRecords /\ p.key = z.key /\ p.lru = l /\ p.flags = f /\ p.ref = j
  BY ONLY <1>1, <1>2, <1>3, <1>5, RecOK, z \in ItemRecords
<1> QED BY ONLY <1>2, <1>3, <1>6

\* A thread that deals with no item, and whom the references are left to.
LEMMA IdleRels ==
    ASSUME NEW r, r.pc \notin {"unlink", "replace", "store", "link", "linked", "pulled"}, r.own # 1,
           NEW f, NEW x, NEW l
    PROVE  /\ "LINKED" \in f => LinkOf(f, r, x) = 1 /\ PlaceIn(f, r, x, l) = l
           /\ "LINKED" \notin f => LinkOf(f, r, x) = 0 /\ PlaceIn(f, r, x, l) = None
           /\ HoldOf(r, x) = 0 /\ ~UnlR(r, x) /\ ~LnkR(r, x) /\ ~MovR(r, x) /\ ~HldR(r, x)
<1>1. ~UnlR(r, x) /\ ~LnkR(r, x) /\ ~MovR(r, x) /\ ~HldR(r, x)
  BY DEF UnlR, LnkR, MovR, HldR
<1> QED BY ONLY <1>1 DEF LinkOf, HoldOf, PlaceIn

LEMMA HashKept ==
    ASSUME IInv, NEW x \in Items, table' = table, NEW p, p.key = item[x].key,
           "LINKED" \in p.flags <=> "LINKED" \in item[x].flags,
           p = Free \/ (p.ref # 0 /\ p.key \in Keys)
    PROVE  Hash(x, p)
<1>1. \A k \in Keys : table[k] = x <=> "LINKED" \in item[x].flags /\ item[x].key = k
  BY Hashed
<1> QED BY <1>1 DEF Hash

LEMMA HashCut ==
    ASSUME IInv, NEW x \in Items, NEW k \in Keys, table[k] = x, table'[k] = None,
           \A j \in Keys \ {k} : table'[j] = table[j], NEW p, "LINKED" \notin p.flags,
           p = Free \/ (p.ref # 0 /\ p.key \in Keys)
    PROVE  Hash(x, p)
<1>1. \A j \in Keys : table[j] = x => item[x].key = j
  BY Hashed
<1>2. x # None
  BY ItemFields
<1> QED BY <1>1, <1>2 DEF Hash

LEMMA SamePlace ==
    ASSUME IInv, NEW x \in Items, NEW m, m = Place(x), q' = q, NEW P, P = [Places EXCEPT ![x] = m]
    PROVE  P = Places /\ Good(q', P, enabled, remaining)
<1>1. P = Places
  BY DEF Places
<1> QED BY <1>1 DEF IInv, ListsInv

LEMMA SameHeld ==
    ASSUME IInv, NEW x \in Items, held' = held
    PROVE  held' = [held EXCEPT ![x] = held[x]] /\ held[x] \in Nat
BY DEF IInv, Types

-----------------------------------------------------------------------------
(* The steps of the workers.                                               *)

LEMMA Step_item_unlink ==
    ASSUME IInv, NEW w \in Workers, NEW x \in Items, item_unlink(w, x)
    PROVE  IInv'
<1>1. PICK k, r, s, p, f, n, m, h, P :
        /\ k = item[x].key /\ r = th[w] /\ f = item[x].flags /\ p = MarkUnlinked(item[x])
        /\ s = [Idle EXCEPT !.pc = "unlink", !.key = k, !.it = x]
        /\ n = Cardinality(Bumps(x)) /\ m = item[x].lru /\ h = held[x]
        /\ P = [Places EXCEPT ![x] = m]
  OBVIOUS
<1>2. /\ r.pc = "idle" /\ lock[k] = None /\ "LINKED" \in f /\ q' = q
      /\ item' = [item EXCEPT ![x] = p] /\ table' = [table EXCEPT ![k] = None]
      /\ lock' = [lock EXCEPT ![k] = w] /\ th' = [th EXCEPT ![w] = s]
      /\ held' = held /\ lru_lock' = lru_lock /\ buf' = buf /\ crawlVars' = crawlVars
  BY <1>1 DEF item_unlink, Begins
<1>3. /\ w \in Pullers /\ w \in Threads /\ w # Maintainer /\ w # None /\ r.own = 0
  BY <1>1, <1>2, WorkerIs
<1>4. /\ s.pc = "unlink" /\ s.key = k /\ s.it = x /\ s.own = 0 /\ IsThread(s)
  BY ONLY <1>1 DEF Idle, IsThread
<1>5. k \in Keys /\ table[k] = x /\ item[x].ref # 0
  BY <1>1, <1>2, Hashed
<1>6. Alone(x, w)
  BY <1>1, <1>2, <1>3, AloneWhen
<1>7. /\ p \in ItemRecords /\ p.key = k /\ p.lru = m /\ "LINKED" \notin p.flags
      /\ p.ref = item[x].ref /\ item[x].ref \in Nat
  BY <1>1, ItemFields, Unlinks
<1>8. Locks(w) /\ lock'[k] = w /\ LruLocks(w)
  BY <1>2, <1>3, <1>5, LockStep, LruLockSame
<1>9. Tables(w, x) /\ table'[k] = None /\ \A j \in Keys \ {k} : table'[j] = table[j]
  BY <1>2, <1>3, <1>5, TableStep
<1>10. Others(w, x, s)
  <2>1. \A y \in Items \ {x} : SameRec(r, s, y)
    BY ONLY <1>2, <1>3, <1>4 DEF SameRec, UnlR, LnkR, MovR, HldR
  <2> QED BY <1>1, <1>2, <1>3, <1>4, <1>8, <1>9, <2>1 DEF Others
<1>11. /\ n \in Nat /\ Place(x) = PlaceIn(f, r, x, m)
       /\ item[x].ref = LinkOf(f, r, x) + h + HoldOf(r, x) + n
  BY <1>1, <1>3, <1>6, Refs
<1>12. item[x].ref = 1 + h + n /\ Place(x) = m /\ h \in Nat
  <2>1. LinkOf(f, r, x) = 1 /\ HoldOf(r, x) = 0 /\ PlaceIn(f, r, x, m) = m
    BY <1>2, <1>3, IdleRels
  <2> QED BY <1>1, <1>11, <2>1, ItemFields
<1>13. LinkOf(p.flags, s, x) = 1 /\ HoldOf(s, x) = 0 /\ PlaceIn(p.flags, s, x, m) = m
  BY ONLY <1>4, <1>7 DEF LinkOf, HoldOf, PlaceIn, UnlR, LnkR, MovR, HldR
<1>14. Refers(x, p, s, h)
  BY ONLY <1>1, <1>7, <1>11, <1>12, <1>13 DEF Refers
<1>15. Puts(w, x, p, s, m)
  BY ONLY <1>7, <1>12, <1>13 DEF Puts
<1>16. Good(q', P, enabled, remaining)
  BY <1>1, <1>2, <1>12, SamePlace
<1>17. Hash(x, p)
  BY <1>5, <1>7, <1>9, HashCut
<1>18. Fits(w, s, P)
  <2>1. item'[x] = p
    BY <1>2, <1>7, ItemTyped
  <2>2. th'[w] = s
    BY <1>2, <1>3, <1>4, ThreadTyped
  <2>3. WorkerOK(w)'
    BY ONLY <1>4, <1>5, <1>7, <1>8, <2>1, <2>2, x \in Items DEF WorkerOK, Owns
  <2> QED BY <1>3, <1>4, <2>3 DEF Fits, Strolls, Pulls
<1>19. held' = [held EXCEPT ![x] = h]
  BY <1>1, <1>2, SameHeld
<1> QED BY ONLY IInv, x \in Items, <1>1, <1>2, <1>3, <1>6, <1>7, <1>10, <1>12, <1>14, <1>15, <1>16, <1>17,
                <1>18, <1>19, ItemStep

LEMMA Step_GetExpired ==
    ASSUME IInv, NEW w \in Workers, NEW k \in Keys, GetExpired(w, k)
    PROVE  IInv'
<1>1. PICK x, r, s, p0, p : /\ x = table[k] /\ r = th[w]
                            /\ p0 = refcount_incr(item[x]) /\ p = MarkUnlinked(p0)
                            /\ s = [Idle EXCEPT !.pc = "unlink", !.key = k, !.it = x, !.own = 1]
  OBVIOUS
<1>2. x \in Items /\ item[x].key = k /\ "LINKED" \in item[x].flags
  BY <1>1 DEF GetExpired, IInv, TableOK
<1>3. PICK f, n, m, h, P : /\ f = item[x].flags /\ n = Cardinality(Bumps(x)) /\ m = item[x].lru
                           /\ h = held[x] /\ P = [Places EXCEPT ![x] = m]
  OBVIOUS
<1>4. /\ r.pc = "idle" /\ lock[k] = None /\ q' = q
      /\ item' = [item EXCEPT ![x] = p] /\ table' = [table EXCEPT ![k] = None]
      /\ lock' = [lock EXCEPT ![k] = w] /\ th' = [th EXCEPT ![w] = s]
      /\ held' = held /\ lru_lock' = lru_lock /\ buf' = buf /\ crawlVars' = crawlVars
  BY <1>1 DEF GetExpired, Begins
<1>5. /\ w \in Pullers /\ w \in Threads /\ w # Maintainer /\ w # None /\ r.own = 0
  BY <1>1, <1>4, WorkerIs
<1>6. /\ s.pc = "unlink" /\ s.key = k /\ s.it = x /\ s.own = 1 /\ IsThread(s)
  BY ONLY <1>1 DEF Idle, IsThread
<1>7. Alone(x, w)
  BY <1>2, <1>4, <1>5, AloneWhen
<1>8. /\ p \in ItemRecords /\ p.key = k /\ p.lru = m /\ "LINKED" \notin p.flags
      /\ p.ref = item[x].ref + 1 /\ p.ref # 0 /\ item[x].ref \in Nat
  <2>1. item[x] \in ItemRecords /\ item[x].ref \in Nat
    BY <1>2, ItemFields
  <2>2. /\ p0 \in ItemRecords /\ p0.key = k /\ p0.lru = m /\ p0.ref = item[x].ref + 1 /\ p0.ref # 0
    BY ONLY <1>1, <1>2, <1>3, <2>1, Increments
  <2> QED BY ONLY <1>1, <2>1, <2>2, Unlinks
<1>9. Locks(w) /\ lock'[k] = w /\ LruLocks(w)
  BY <1>4, <1>5, LockStep, LruLockSame
<1>10. Tables(w, x) /\ table'[k] = None /\ \A j \in Keys \ {k} : table'[j] = table[j]
  BY <1>1, <1>2, <1>4, <1>5, TableStep
<1>11. Others(w, x, s)
  <2>1. \A y \in Items \ {x} : SameRec(r, s, y)
    BY ONLY <1>4, <1>5, <1>6 DEF SameRec, UnlR, LnkR, MovR, HldR
  <2> QED BY <1>1, <1>4, <1>5, <1>6, <1>9, <1>10, <2>1 DEF Others
<1>12. /\ n \in Nat /\ Place(x) = PlaceIn(f, r, x, m)
       /\ item[x].ref = LinkOf(f, r, x) + h + HoldOf(r, x) + n
  BY <1>1, <1>2, <1>3, <1>5, <1>7, Refs
<1>13. item[x].ref = 1 + h + n /\ Place(x) = m /\ h \in Nat
  <2>1. LinkOf(f, r, x) = 1 /\ HoldOf(r, x) = 0 /\ PlaceIn(f, r, x, m) = m
    BY <1>2, <1>3, <1>4, <1>5, IdleRels
  <2> QED BY <1>2, <1>3, <1>12, <2>1, ItemFields
<1>14. LinkOf(p.flags, s, x) = 1 /\ HoldOf(s, x) = 1 /\ PlaceIn(p.flags, s, x, m) = m
  BY ONLY <1>6, <1>8 DEF LinkOf, HoldOf, PlaceIn, UnlR, LnkR, MovR, HldR
<1>15. Refers(x, p, s, h)
  BY ONLY <1>3, <1>8, <1>12, <1>13, <1>14 DEF Refers
<1>16. Puts(w, x, p, s, m)
  BY ONLY <1>8, <1>13, <1>14 DEF Puts
<1>17. Good(q', P, enabled, remaining)
  BY <1>2, <1>3, <1>4, <1>13, SamePlace
<1>18. Hash(x, p)
  BY <1>1, <1>2, <1>8, <1>10, HashCut
<1>19. Fits(w, s, P)
  <2>1. item'[x] = p
    BY <1>2, <1>4, <1>8, ItemTyped
  <2>2. th'[w] = s
    BY <1>4, <1>5, <1>6, ThreadTyped
  <2>3. WorkerOK(w)'
    BY ONLY <1>2, <1>6, <1>8, <1>9, <1>10, <2>1, <2>2, k \in Keys DEF WorkerOK, Owns
  <2> QED BY <1>5, <1>6, <2>3 DEF Fits, Strolls, Pulls
<1>20. held' = [held EXCEPT ![x] = h]
  BY <1>2, <1>3, <1>4, SameHeld
<1> QED BY ONLY IInv, <1>2, <1>3, <1>4, <1>5, <1>7, <1>8, <1>11, <1>13, <1>15, <1>16, <1>17, <1>18,
                <1>19, <1>20, ItemStep

\* The step gives back a reference that a connection had.
LEMMA Step_item_remove ==
    ASSUME IInv, NEW w \in Workers, NEW x \in Items, item_remove(w, x)
    PROVE  IInv'
<1>1. PICK r, p, f, n, m, h, g, P :
        /\ r = th[w] /\ f = item[x].flags /\ p = do_item_remove(item[x])
        /\ n = Cardinality(Bumps(x)) /\ m = PlaceIn(p.flags, r, x, p.lru) /\ g = held[x]
        /\ h = held[x] - 1 /\ P = [Places EXCEPT ![x] = m]
  OBVIOUS
<1>2. /\ r.pc = "idle" /\ lock[item[x].key] = None /\ g > 0 /\ q' = q
      /\ item' = [item EXCEPT ![x] = p] /\ held' = [held EXCEPT ![x] = h]
      /\ table' = table /\ lock' = lock /\ th' = th
      /\ lru_lock' = lru_lock /\ buf' = buf /\ crawlVars' = crawlVars
  BY <1>1 DEF item_remove, ItemLocked
<1>3. /\ w \in Pullers /\ w \in Threads /\ w # Maintainer /\ w # None /\ r.own = 0 /\ IsThread(r)
      /\ WorkerOK(w)
  BY <1>1, <1>2, WorkerIs
<1>4. th' = [th EXCEPT ![w] = r]
  BY <1>1, <1>2 DEF IInv, Types
<1>5. Alone(x, w)
  BY <1>1, <1>2, <1>3, AloneWhen
<1>6. g \in Nat /\ h \in Nat /\ h = g - 1 /\ item[x].ref \in Nat /\ item[x].lru \in Lrus
  BY <1>1, <1>2, ItemFields
<1>7. /\ n \in Nat /\ Place(x) = PlaceIn(f, r, x, item[x].lru)
      /\ item[x].ref = LinkOf(f, r, x) + g + HoldOf(r, x) + n
  BY <1>1, <1>3, <1>5, Refs
<1>8. /\ HoldOf(r, x) = 0
      /\ "LINKED" \in f => LinkOf(f, r, x) = 1 /\ PlaceIn(f, r, x, item[x].lru) = item[x].lru
      /\ "LINKED" \notin f => LinkOf(f, r, x) = 0 /\ PlaceIn(f, r, x, item[x].lru) = None
  BY <1>2, <1>3, IdleRels
<1>9. /\ item[x].ref # 0 /\ ("LINKED" \in f => item[x].ref # 1)
      /\ item[x].ref = (IF "LINKED" \in f THEN 1 ELSE 0) + g + n
  BY ONLY <1>2, <1>6, <1>7, <1>8
<1>10. item[x].key \in Keys /\ item[x] \in ItemRecords
  BY <1>9, Hashed, ItemFields DEF Free
<1>11. /\ p \in ItemRecords /\ p.ref = item[x].ref - 1
       /\ p = Free \/ (p.ref # 0 /\ p.key \in Keys)
       /\ item[x].ref # 1 => p.key = item[x].key /\ p.lru = item[x].lru /\ p.flags = f
       /\ item[x].ref = 1 => p.flags = {}
  BY ONLY <1>1, <1>9, <1>10, Removed
<1>12. "LINKED" \in p.flags <=> "LINKED" \in f
  BY <1>9, <1>11
<1>13. HoldOf(r, x) = 0 /\ LinkOf(p.flags, r, x) = LinkOf(f, r, x) /\ m = Place(x)
  <2>1. /\ "LINKED" \in p.flags => LinkOf(p.flags, r, x) = 1 /\ m = p.lru
        /\ "LINKED" \notin p.flags => LinkOf(p.flags, r, x) = 0 /\ m = None
    BY <1>1, <1>2, <1>3, IdleRels
  <2>2. "LINKED" \in p.flags => p.lru = item[x].lru
    BY <1>9, <1>11, <1>12
  <2> QED BY ONLY <1>7, <1>8, <1>12, <2>1, <2>2
<1>14. Refers(x, p, r, h)
  <2>1. PICK a, i, j : a = LinkOf(f, r, x) /\ i = item[x].ref /\ j = p.ref
    OBVIOUS
  <2>2. a \in Nat
    BY ONLY <1>8, <2>1
  <2>3. i \in Nat /\ i = a + g + n /\ j = i - 1
    BY ONLY <1>6, <1>7, <1>8, <1>11, <2>1, <2>2
  <2>4. j = a + h + 0 + n
    BY ONLY <1>6, <1>7, <2>2, <2>3
  <2> QED BY ONLY <1>1, <1>13, <2>1, <2>4 DEF Refers
<1>15. Puts(w, x, p, r, m)
  BY <1>1, <1>13 DEF Puts
<1>16. P = Places /\ Good(q', P, enabled, remaining)
  <2>1. P = [Places EXCEPT ![x] = m] /\ m = Place(x) /\ q' = q
    BY <1>1, <1>2, <1>13
  <2> QED BY ONLY IInv, x \in Items, <2>1, SamePlace
<1>17. Hash(x, p)
  <2>1. item[x].ref # 1 => p.key = item[x].key
    BY <1>11
  <2>2. CASE item[x].ref = 1
    <3>1. "LINKED" \notin p.flags /\ "LINKED" \notin f
      BY <1>9, <2>2, <1>12
    <3> QED BY <1>1, <1>2, <1>11, <3>1, Hashed DEF Hash
  <2>3. CASE item[x].ref # 1
    BY <1>1, <1>2, <1>11, <1>12, <2>1, <2>3, HashKept
  <2> QED BY <2>2, <2>3
<1>18. Others(w, x, r)
  <2>1. \A y : SameRec(r, r, y)
    BY DEF SameRec
  <2>2. Locks(w) /\ LruLocks(w) /\ Tables(w, x)
    BY <1>2, LockSame, LruLockSame, TableSame
  <2> QED BY <1>1, <1>2, <1>3, <1>4, <2>1, <2>2 DEF Others
<1>19. Fits(w, r, P)
  <2>1. WorkerOK(w)'
    BY <1>1, <1>2, <1>3 DEF WorkerOK
  <2> QED BY <1>2, <1>3, <2>1 DEF Fits, Strolls, Pulls
<1>20. /\ item' = [item EXCEPT ![x] = p] /\ held' = [held EXCEPT ![x] = h]
       /\ P = [Places EXCEPT ![x] = m] /\ h \in Nat /\ p \in ItemRecords
  BY <1>1, <1>2, <1>6, <1>11
<1> QED BY ONLY IInv, x \in Items, <1>3, <1>5, <1>14, <1>15, <1>16, <1>17, <1>18, <1>19, <1>20, ItemStep

LEMMA Step_do_item_alloc ==
    ASSUME IInv, NEW w \in Workers, NEW k \in Keys, do_item_alloc(w, k)
    PROVE  IInv'
<1>1. PICK x \in Items, l \in NewLrus :
        /\ item[x] = Free
        /\ item' = [item EXCEPT ![x] = [Free EXCEPT !.key = k, !.lru = l, !.ref = 1]]
        /\ th' = [th EXCEPT ![w] = [Idle EXCEPT !.pc = "store", !.key = k, !.it = x]]
  BY DEF do_item_alloc
<1>2. PICK r, s, p, n, h, P : /\ r = th[w] /\ s = [Idle EXCEPT !.pc = "store", !.key = k, !.it = x]
                              /\ p = [Free EXCEPT !.key = k, !.lru = l, !.ref = 1]
                              /\ n = Cardinality(Bumps(x)) /\ h = held[x]
                              /\ P = [Places EXCEPT ![x] = None]
  OBVIOUS
<1>3. /\ r.pc \in {"idle", "alloc"} /\ q' = q /\ item' = [item EXCEPT ![x] = p]
      /\ th' = [th EXCEPT ![w] = s] /\ table' = table /\ lock' = lock /\ held' = held
      /\ lru_lock' = lru_lock /\ buf' = buf /\ crawlVars' = crawlVars
  BY <1>1, <1>2 DEF do_item_alloc, Allocates, Begins
<1>4. /\ w \in Pullers /\ w \in Threads /\ w # Maintainer /\ w # None /\ r.own = 0
      /\ r.own # 1
  BY <1>2, <1>3, WorkerIs DEF WorkerOK
<1>5. /\ s.pc = "store" /\ s.key = k /\ s.it = x /\ s.own = 0 /\ IsThread(s)
  BY ONLY <1>2 DEF Idle, IsThread
<1>6. Alone(x, w)
  BY <1>1, FreeAlone DEF Alone
<1>7. /\ p \in ItemRecords /\ p.key = k /\ p.lru = l /\ p.ref = 1 /\ "LINKED" \notin p.flags
  <2>1. p = [key |-> k, lru |-> l, flags |-> {}, ref |-> 1, expired |-> FALSE]
    BY ONLY <1>2 DEF Free
  <2>2. l \in Lrus /\ {} \in FlagSets
    BY Constants, Flagged DEF FlagSets
  <2> QED BY ONLY <2>1, <2>2, k \in Keys DEF ItemRecords
<1>8. item[x].ref = 0 /\ "LINKED" \notin item[x].flags
  BY ONLY <1>1 DEF Free
<1>9. n = 0 /\ h = 0 /\ Place(x) = None
  <2>1. /\ n \in Nat /\ Place(x) = PlaceIn(item[x].flags, r, x, item[x].lru)
        /\ item[x].ref = LinkOf(item[x].flags, r, x) + h + HoldOf(r, x) + n
    BY <1>2, <1>4, <1>6, Refs
  <2>2. /\ LinkOf(item[x].flags, r, x) = 0 /\ HoldOf(r, x) = 0
        /\ PlaceIn(item[x].flags, r, x, item[x].lru) = None
    BY <1>3, <1>4, <1>8, IdleRels
  <2>3. h \in Nat
    BY <1>2, ItemFields
  <2> QED BY ONLY <1>8, <2>1, <2>2, <2>3
<1>10. LinkOf(p.flags, s, x) = 0 /\ HoldOf(s, x) = 1 /\ PlaceIn(p.flags, s, x, l) = None
  BY ONLY <1>5, <1>7 DEF LinkOf, HoldOf, PlaceIn, UnlR, LnkR, MovR, HldR
<1>11. Refers(x, p, s, h)
  BY ONLY <1>2, <1>7, <1>9, <1>10 DEF Refers
<1>12. Puts(w, x, p, s, None)
  BY ONLY <1>7, <1>9, <1>10 DEF Puts
<1>13. Good(q', P, enabled, remaining)
  BY <1>2, <1>3, <1>9, SamePlace
<1>14. Hash(x, p)
  BY <1>3, <1>7, <1>8, Hashed DEF Hash
<1>15. Others(w, x, s)
  <2>1. \A y \in Items \ {x} : SameRec(r, s, y)
    BY ONLY <1>3, <1>4, <1>5 DEF SameRec, UnlR, LnkR, MovR, HldR
  <2>2. Locks(w) /\ LruLocks(w) /\ Tables(w, x)
    BY <1>3, LockSame, LruLockSame, TableSame
  <2> QED BY <1>2, <1>3, <1>4, <1>5, <2>1, <2>2 DEF Others
<1>16. Fits(w, s, P)
  <2>1. item'[x] = p
    BY <1>3, <1>7, ItemTyped
  <2>2. th'[w] = s
    BY <1>3, <1>4, <1>5, ThreadTyped
  <2>3. WorkerOK(w)'
    BY ONLY <1>5, <1>7, <2>1, <2>2, k \in Keys, x \in Items DEF WorkerOK, New
  <2> QED BY <1>4, <1>5, <2>3 DEF Fits, Strolls, Pulls
<1>17. held' = [held EXCEPT ![x] = h] /\ h \in Nat
  BY <1>2, <1>3, <1>9, SameHeld
<1> QED BY ONLY IInv, x \in Items, <1>2, <1>3, <1>4, <1>6, <1>7, <1>11, <1>12, <1>13, <1>14, <1>15,
                <1>16, <1>17, ItemStep

\* A thread's record with another place to be.
LEMMA PcOnly ==
    ASSUME NEW r, IsThread(r), NEW pc, NEW s, s = [r EXCEPT !.pc = pc]
    PROVE  /\ IsThread(s) /\ s.pc = pc /\ s.key = r.key /\ s.it = r.it /\ s.own = r.own
           /\ s.search = r.search /\ s.move = r.move /\ s.lru = r.lru
<1>1. PICK k, x, o, rem, l, f, y, tr, m, b, at, size, ids :
        /\ k = r.key /\ x = r.it /\ o = r.own /\ rem = r.removed /\ l = r.lru /\ f = r.flags
        /\ y = r.search /\ tr = r.tries /\ m = r.move /\ b = r.buf /\ at = r.at /\ size = r.size
        /\ ids = r.ids
  OBVIOUS
<1>2. r = [pc |-> r.pc, key |-> k, it |-> x, own |-> o, removed |-> rem,
           lru |-> l, flags |-> f, search |-> y, tries |-> tr,
           move |-> m, buf |-> b, at |-> at, size |-> size, ids |-> ids]
  BY <1>1 DEF IsThread
<1>3. s = [pc |-> pc, key |-> k, it |-> x, own |-> o, removed |-> rem,
           lru |-> l, flags |-> f, search |-> y, tries |-> tr,
           move |-> m, buf |-> b, at |-> at, size |-> size, ids |-> ids]
  BY ONLY <1>2, s = [r EXCEPT !.pc = pc]
<1> QED BY ONLY <1>1, <1>3 DEF IsThread

LEMMA Step_do_store_item ==
    ASSUME IInv, NEW w \in Workers, do_store_item(w)
    PROVE  IInv'
<1>1. PICK k, x, r, z : k = th[w].key /\ x = table[k] /\ r = th[w] /\ z = th[w].it
  OBVIOUS
<1>2. /\ r.pc = "store" /\ lock[k] = None /\ lock' = [lock EXCEPT ![k] = w] /\ q' = q
      /\ held' = held /\ lru_lock' = lru_lock /\ buf' = buf /\ crawlVars' = crawlVars
  BY <1>1 DEF do_store_item
<1>3. /\ w \in Pullers /\ w \in Threads /\ w # Maintainer /\ w # None /\ IsThread(r)
      /\ k \in Keys /\ z \in Items /\ New(z, k) /\ r.own = 0
  BY <1>1, <1>2, WorkerIs DEF WorkerOK
<1>4. Locks(w) /\ lock'[k] = w /\ LruLocks(w)
  BY <1>2, <1>3, LockStep, LruLockSame
<1>5. CASE x = None
  <2>1. PICK s : s = [r EXCEPT !.pc = "link"]
    OBVIOUS
  <2>2. th' = [th EXCEPT ![w] = s] /\ item' = item /\ table' = table
    BY <1>1, <1>5, <2>1 DEF do_store_item
  <2>3. /\ IsThread(s) /\ s.pc = "link" /\ s.key = k /\ s.it = z /\ s.own = 0
        /\ s.search = r.search
    BY <1>1, <1>3, <2>1, PcOnly
  <2>4. Others(w, None, s)
    <3>1. \A y \in Items : SameRec(r, s, y)
      BY ONLY <1>1, <1>2, <1>3, <2>3 DEF SameRec, UnlR, LnkR, MovR, HldR
    <3>2. Tables(w, None)
      BY <2>2, TableSame
    <3> QED BY <1>1, <1>2, <1>3, <1>4, <2>2, <2>3, <3>1, <3>2 DEF Others
  <2>5. Fits(w, s, Places)
    <3>1. th'[w] = s
      BY <1>3, <2>2, <2>3, ThreadTyped
    <3>2. WorkerOK(w)'
      BY ONLY <1>1, <1>3, <1>4, <1>5, <2>2, <2>3, <3>1 DEF WorkerOK, New
    <3> QED BY <1>3, <2>3, <3>2 DEF Fits, Strolls, Pulls
  <2> QED BY ONLY IInv, <1>2, <1>3, <2>2, <2>4, <2>5, ThreadStep
<1>6. CASE x # None
  <2>1. PICK s, p0, p : /\ s = [Idle EXCEPT !.pc = "replace", !.key = k, !.it = x, !.own = 1, !.search = z]
                        /\ p0 = refcount_incr(item[x]) /\ p = MarkUnlinked(p0)
    OBVIOUS
  <2>2. x \in Items /\ item[x].key = k /\ "LINKED" \in item[x].flags
    BY <1>1, <1>3, <1>6 DEF IInv, TableOK
  <2>3. PICK f, n, m, h, P : /\ f = item[x].flags /\ n = Cardinality(Bumps(x)) /\ m = item[x].lru
                             /\ h = held[x] /\ P = [Places EXCEPT ![x] = m]
    OBVIOUS
  <2>4. /\ item' = [item EXCEPT ![x] = p] /\ table' = [table EXCEPT ![k] = None]
        /\ th' = [th EXCEPT ![w] = s]
    BY <1>1, <1>6, <2>1 DEF do_store_item
  <2>5. /\ s.pc = "replace" /\ s.key = k /\ s.it = x /\ s.own = 1 /\ s.search = z /\ IsThread(s)
    BY ONLY <2>1 DEF Idle, IsThread
  <2>6. z # x
    BY <1>3, <2>2 DEF New
  <2>7. Alone(x, w)
    BY <1>2, <1>3, <2>2, AloneWhen
  <2>8. /\ p \in ItemRecords /\ p.key = k /\ p.lru = m /\ "LINKED" \notin p.flags
        /\ p.ref = item[x].ref + 1 /\ p.ref # 0 /\ item[x].ref \in Nat
    <3>1. item[x] \in ItemRecords /\ item[x].ref \in Nat
      BY <2>2, ItemFields
    <3>2. /\ p0 \in ItemRecords /\ p0.key = k /\ p0.lru = m /\ p0.ref = item[x].ref + 1 /\ p0.ref # 0
      BY ONLY <2>1, <2>2, <2>3, <3>1, Increments
    <3> QED BY ONLY <2>1, <3>1, <3>2, Unlinks
  <2>9. Tables(w, x) /\ table'[k] = None /\ \A j \in Keys \ {k} : table'[j] = table[j]
    BY <1>1, <1>2, <1>3, <2>2, <2>4, TableStep
  <2>10. Others(w, x, s)
    <3>1. \A y \in Items \ {x} : SameRec(r, s, y)
      BY ONLY <1>1, <1>2, <1>3, <2>5 DEF SameRec, UnlR, LnkR, MovR, HldR
    <3> QED BY <1>1, <1>2, <1>3, <1>4, <2>4, <2>5, <2>9, <3>1 DEF Others
  <2>11. /\ n \in Nat /\ Place(x) = PlaceIn(f, r, x, m)
         /\ item[x].ref = LinkOf(f, r, x) + h + HoldOf(r, x) + n
    BY <1>1, <1>3, <2>2, <2>3, <2>7, Refs
  <2>12. item[x].ref = 1 + h + n /\ Place(x) = m /\ h \in Nat
    <3>1. LinkOf(f, r, x) = 1 /\ HoldOf(r, x) = 0 /\ PlaceIn(f, r, x, m) = m
      BY ONLY <1>1, <1>2, <1>3, <2>2, <2>3, <2>6 DEF LinkOf, HoldOf, PlaceIn, UnlR, LnkR, MovR, HldR
    <3>2. h \in Nat
      BY <2>2, <2>3, ItemFields
    <3> QED BY ONLY <2>11, <3>1, <3>2
  <2>13. LinkOf(p.flags, s, x) = 1 /\ HoldOf(s, x) = 1 /\ PlaceIn(p.flags, s, x, m) = m
    BY ONLY <2>5, <2>8 DEF LinkOf, HoldOf, PlaceIn, UnlR, LnkR, MovR, HldR
  <2>14. Refers(x, p, s, h)
    BY ONLY <2>3, <2>8, <2>11, <2>12, <2>13 DEF Refers
  <2>15. Puts(w, x, p, s, m)
    BY ONLY <2>8, <2>12, <2>13 DEF Puts
  <2>16. Good(q', P, enabled, remaining)
    BY <1>2, <2>2, <2>3, <2>12, SamePlace
  <2>17. Hash(x, p)
    BY <1>1, <1>3, <2>2, <2>8, <2>9, HashCut
  <2>18. Fits(w, s, P)
    <3>1. item'[x] = p /\ item'[z] = item[z]
      BY <1>3, <2>2, <2>4, <2>6, <2>8, ItemTyped
    <3>2. th'[w] = s
      BY <1>3, <2>4, <2>5, ThreadTyped
    <3>3. WorkerOK(w)'
      BY ONLY <1>3, <1>4, <2>2, <2>5, <2>8, <2>9, <3>1, <3>2 DEF WorkerOK, Owns, New
    <3> QED BY <1>3, <2>5, <3>3 DEF Fits, Strolls, Pulls
  <2>19. held' = [held EXCEPT ![x] = h]
    BY <1>2, <2>2, <2>3, SameHeld
  <2> QED BY ONLY IInv, <1>3, <2>2, <2>3, <2>4, <2>7, <2>8, <2>10, <2>12, <2>14, <2>15, <2>16,
                  <2>17, <2>18, <2>19, ItemStep
<1> QED BY <1>5, <1>6

LEMMA Links ==
    ASSUME NEW z, z \in ItemRecords, NEW p, p = [z EXCEPT !.flags = z.flags \cup {"LINKED"}]
    PROVE  /\ p \in ItemRecords /\ p.key = z.key /\ p.lru = z.lru /\ p.ref = z.ref
           /\ "LINKED" \in p.flags
<1>1. IsItem(z) /\ z.ref \in Nat /\ z.lru \in Lrus /\ z.flags \in FlagSets
  BY RecordFields
<1>2. PICK fl : fl = z.flags \cup {"LINKED"}
  OBVIOUS
<1>3. fl \in FlagSets /\ "LINKED" \in fl
  BY <1>1, <1>2, Flagged
<1>4. PICK k, l, f, m, e : k = z.key /\ l = z.lru /\ f = z.flags /\ m = z.ref /\ e = z.expired
  OBVIOUS
<1>5. z = [key |-> k, lru |-> l, flags |-> f, ref |-> m, expired |-> e]
  BY <1>1, <1>4 DEF IsItem
<1>6. p = [key |-> k, lru |-> l, flags |-> fl, ref |-> m, expired |-> e]
  BY ONLY <1>2, <1>5, p = [z EXCEPT !.flags = z.flags \cup {"LINKED"}]
<1>7. p = Rec(z, z.lru, fl, z.ref)
  BY ONLY <1>4, <1>6 DEF Rec
<1>8. p \in ItemRecords /\ p.key = z.key /\ p.lru = z.lru /\ p.flags = fl /\ p.ref = z.ref
  BY ONLY <1>1, <1>3, <1>7, RecOK, z \in ItemRecords
<1> QED BY ONLY <1>3, <1>8

LEMMA Step_do_item_link ==
    ASSUME IInv, NEW w \in Workers, do_item_link(w)
    PROVE  IInv'
<1>1. PICK k, x, r, s : k = th[w].key /\ x = th[w].it /\ r = th[w] /\ s = [r EXCEPT !.pc = "linked"]
  OBVIOUS
<1>2. r.pc = "link"
  BY <1>1 DEF do_item_link
<1>3. /\ w \in Pullers /\ w \in Threads /\ w # Maintainer /\ w # None /\ IsThread(r)
      /\ k \in Keys /\ x \in Items /\ New(x, k) /\ r.own = 0 /\ lock[k] = w /\ table[k] = None
  BY <1>1, <1>2, WorkerIs DEF WorkerOK
<1>4. PICK l, p, f, n, h, P : /\ l = item[x].lru /\ f = item[x].flags /\ n = Cardinality(Bumps(x))
                              /\ p = [item[x] EXCEPT !.flags = item[x].flags \cup {"LINKED"}]
                              /\ h = held[x] /\ P = [Places EXCEPT ![x] = l]
  OBVIOUS
<1>5. /\ item' = [item EXCEPT ![x] = p] /\ table' = [table EXCEPT ![k] = x]
      /\ q' = do_item_link_q(x, l) /\ th' = [th EXCEPT ![w] = s] /\ lock' = lock
      /\ held' = held /\ lru_lock' = lru_lock /\ buf' = buf /\ crawlVars' = crawlVars
  BY <1>1, <1>4 DEF do_item_link
<1>6. item[x].ref = 1 /\ item[x].key = k /\ "LINKED" \notin f /\ h \in Nat /\ l \in Lrus
  BY <1>3, <1>4, ItemFields DEF New
<1>7. /\ IsThread(s) /\ s.pc = "linked" /\ s.key = k /\ s.it = x /\ s.own = 0
      /\ s.search = r.search
  BY <1>1, <1>3, PcOnly
<1>8. p \in ItemRecords /\ p.key = k /\ p.lru = l /\ p.ref = 1 /\ "LINKED" \in p.flags
  BY <1>3, <1>4, <1>6, ItemFields, Links
<1>9. Alone(x, w)
  <2>1. Hld(w, x)
    BY <1>1, <1>2, <1>3 DEF Hld, HldR
  <2> QED BY <1>3, <1>6, <2>1, AloneWhen
<1>10. Tables(w, x) /\ table'[k] = x /\ \A j \in Keys \ {k} : table'[j] = table[j]
  BY <1>3, <1>5, TableStep
<1>11. Others(w, x, s)
  <2>1. \A y \in Items \ {x} : SameRec(r, s, y)
    BY ONLY <1>1, <1>2, <1>3, <1>7 DEF SameRec, UnlR, LnkR, MovR, HldR
  <2>2. Locks(w) /\ LruLocks(w)
    BY <1>5, LockSame, LruLockSame
  <2> QED BY <1>1, <1>2, <1>3, <1>5, <1>7, <1>10, <2>1, <2>2 DEF Others
<1>12. /\ n \in Nat /\ Place(x) = PlaceIn(f, r, x, l)
       /\ item[x].ref = LinkOf(f, r, x) + h + HoldOf(r, x) + n
  BY <1>1, <1>3, <1>4, <1>9, Refs
<1>13. h = 0 /\ n = 0 /\ Place(x) = None
  <2>1. LinkOf(f, r, x) = 0 /\ HoldOf(r, x) = 1 /\ PlaceIn(f, r, x, l) = None
    BY ONLY <1>1, <1>2, <1>6 DEF LinkOf, HoldOf, PlaceIn, UnlR, LnkR, MovR, HldR
  <2> QED BY ONLY <1>6, <1>12, <2>1
<1>14. LinkOf(p.flags, s, x) = 0 /\ HoldOf(s, x) = 1 /\ PlaceIn(p.flags, s, x, l) = l
  BY ONLY <1>7, <1>8 DEF LinkOf, HoldOf, PlaceIn, UnlR, LnkR, MovR, HldR
<1>15. Refers(x, p, s, h)
  BY ONLY <1>4, <1>8, <1>13, <1>14 DEF Refers
<1>16. Puts(w, x, p, s, l)
  <2>1. \A j \in Lrus : Place(x) # j
    BY <1>13, Constants
  <2> QED BY ONLY <1>8, <1>14, <2>1 DEF Puts
<1>17. Good(q', P, enabled, remaining)
  <2>1. IsPlaces(Places) /\ Places[x] = None /\ Good(q, Places, enabled, remaining)
    BY <1>3, <1>13, PlacesAre DEF IInv, ListsInv
  <2>2. Good(do_item_link_q(x, l), [Places EXCEPT ![x] = l], enabled, remaining)
    BY <1>3, <1>6, <2>1, LinkGood
  <2> QED BY ONLY <1>4, <1>5, <2>2
<1>18. Hash(x, p)
  <2>1. \A j \in Keys : table[j] # x
    BY <1>3, <1>4, <1>6, Hashed
  <2> QED BY <1>3, <1>8, <1>10, <2>1 DEF Hash
<1>19. Fits(w, s, P)
  <2>1. item'[x] = p
    BY <1>3, <1>5, <1>8, ItemTyped
  <2>2. th'[w] = s
    BY <1>3, <1>5, <1>7, ThreadTyped
  <2>3. WorkerOK(w)'
    BY ONLY <1>3, <1>5, <1>7, <1>8, <2>1, <2>2 DEF WorkerOK, Owns
  <2> QED BY <1>3, <1>7, <2>3 DEF Fits, Strolls, Pulls
<1>20. held' = [held EXCEPT ![x] = h]
  BY <1>3, <1>4, <1>5, SameHeld
<1>21. item' = [item EXCEPT ![x] = p] /\ P = [Places EXCEPT ![x] = l] /\ x \in Items
  BY <1>3, <1>4, <1>5
<1> QED BY ONLY IInv, <1>3, <1>6, <1>8, <1>9, <1>11, <1>15, <1>16, <1>17, <1>18, <1>19,
                <1>20, <1>21, ItemStep

LEMMA Step_Linked ==
    ASSUME IInv, NEW w \in Workers, Linked(w)
    PROVE  IInv'
<1>1. PICK k, x, r : k = th[w].key /\ x = th[w].it /\ r = th[w]
  OBVIOUS
<1>2. r.pc = "linked"
  BY <1>1 DEF Linked
<1>3. /\ w \in Pullers /\ w \in Threads /\ w # Maintainer /\ w # None /\ IsThread(r)
      /\ k \in Keys /\ x \in Items /\ item[x].key = k /\ r.own = 0 /\ lock[k] = w
      /\ "LINKED" \in item[x].flags
  BY <1>1, <1>2, WorkerIs DEF WorkerOK, Owns
<1>4. PICK l, p, f, n, g, h, P : /\ l = item[x].lru /\ f = item[x].flags /\ n = Cardinality(Bumps(x))
                                 /\ p = refcount_incr(item[x]) /\ g = held[x] /\ h = g + 1
                                 /\ P = [Places EXCEPT ![x] = l]
  OBVIOUS
<1>5. /\ item' = [item EXCEPT ![x] = p] /\ held' = [held EXCEPT ![x] = h]
      /\ lock' = [lock EXCEPT ![k] = None] /\ th' = [th EXCEPT ![w] = Idle]
      /\ table' = table /\ q' = q /\ lru_lock' = lru_lock /\ buf' = buf /\ crawlVars' = crawlVars
  BY <1>1, <1>4 DEF Linked, refcount_incr
<1>6. item[x].ref \in Nat /\ g \in Nat /\ h \in Nat /\ l \in Lrus /\ item[x] \in ItemRecords
  BY <1>3, <1>4, ItemFields
<1>7. Idle.pc = "idle" /\ Idle.own = 0 /\ IsThread(Idle)
  BY ONLY DEF Idle, IsThread
<1>8. /\ p \in ItemRecords /\ p.key = k /\ p.lru = l /\ p.ref = item[x].ref + 1 /\ p.ref # 0
      /\ p.flags = f
  BY ONLY <1>3, <1>4, <1>6, Increments
<1>9. Alone(x, w)
  BY <1>3, AloneWhen
<1>10. Locks(w) /\ LruLocks(w) /\ Tables(w, x)
  BY <1>3, <1>5, LockStep, LruLockSame, TableSame
<1>11. Others(w, x, Idle)
  <2>1. \A y \in Items \ {x} : SameRec(r, Idle, y)
    BY ONLY <1>1, <1>2, <1>3, <1>7 DEF SameRec, UnlR, LnkR, MovR, HldR
  <2> QED BY <1>1, <1>2, <1>3, <1>5, <1>7, <1>10, <2>1 DEF Others
<1>12. /\ n \in Nat /\ Place(x) = PlaceIn(f, r, x, l)
       /\ item[x].ref = LinkOf(f, r, x) + g + HoldOf(r, x) + n
  BY <1>1, <1>3, <1>4, <1>9, Refs
<1>13. item[x].ref = 0 + g + 1 + n /\ Place(x) = l
  <2>1. LinkOf(f, r, x) = 0 /\ HoldOf(r, x) = 1 /\ PlaceIn(f, r, x, l) = l
    BY ONLY <1>1, <1>2, <1>3, <1>4 DEF LinkOf, HoldOf, PlaceIn, UnlR, LnkR, MovR, HldR
  <2> QED BY ONLY <1>12, <2>1
<1>14. LinkOf(p.flags, Idle, x) = 1 /\ HoldOf(Idle, x) = 0 /\ PlaceIn(p.flags, Idle, x, l) = l
  BY ONLY <1>3, <1>4, <1>7, <1>8 DEF LinkOf, HoldOf, PlaceIn, UnlR, LnkR, MovR, HldR
<1>15. Refers(x, p, Idle, h)
  BY ONLY <1>4, <1>6, <1>8, <1>12, <1>13, <1>14 DEF Refers
<1>16. Puts(w, x, p, Idle, l)
  BY ONLY <1>8, <1>13, <1>14 DEF Puts
<1>17. Good(q', P, enabled, remaining)
  BY <1>3, <1>4, <1>5, <1>13, SamePlace
<1>18. Hash(x, p)
  BY <1>3, <1>4, <1>5, <1>8, HashKept
<1>19. Fits(w, Idle, P)
  <2>1. th'[w] = Idle
    BY <1>3, <1>5, <1>7, ThreadTyped
  <2>2. WorkerOK(w)'
    BY <1>7, <2>1, WorkerAway
  <2> QED BY <1>3, <1>7, <2>2 DEF Fits, Strolls, Pulls
<1>20. /\ item' = [item EXCEPT ![x] = p] /\ held' = [held EXCEPT ![x] = h]
       /\ P = [Places EXCEPT ![x] = l] /\ x \in Items
  BY <1>3, <1>4, <1>5
<1> QED BY ONLY IInv, <1>3, <1>6, <1>8, <1>9, <1>11, <1>15, <1>16, <1>17, <1>18, <1>19, <1>20, ItemStep

LEMMA Step_item_unlink_q ==
    ASSUME IInv, NEW w \in Workers, item_unlink_q(w)
    PROVE  IInv'
<1>1. PICK k, x, z, r, s : /\ k = th[w].key /\ x = th[w].it /\ z = th[w].search /\ r = th[w]
                           /\ s = IF r.pc = "unlink" THEN Idle
                                  ELSE [Idle EXCEPT !.pc = "link", !.key = k, !.it = z]
  OBVIOUS
<1>2. r.pc \in {"unlink", "replace"}
  BY <1>1 DEF item_unlink_q
<1>3. /\ w \in Pullers /\ w \in Threads /\ w # Maintainer /\ w # None /\ IsThread(r)
      /\ k \in Keys /\ x \in Items /\ item[x].key = k /\ lock[k] = w
      /\ "LINKED" \notin item[x].flags /\ r.own \in {0, 1}
      /\ r.pc = "replace" => r.own = 1 /\ z \in Items /\ New(z, k) /\ table[k] = None
  BY <1>1, <1>2, WorkerIs DEF WorkerOK, Owns
<1>4. PICK l, p0, p, f, n, h, P : /\ l = item[x].lru /\ f = item[x].flags /\ n = Cardinality(Bumps(x))
                                  /\ p0 = do_item_remove(item[x])
                                  /\ p = IF r.own = 1 THEN do_item_remove(p0) ELSE p0
                                  /\ h = held[x] /\ P = [Places EXCEPT ![x] = None]
  OBVIOUS
<1>5. /\ item' = [item EXCEPT ![x] = p] /\ q' = do_item_unlink_q(x, l) /\ lru_lock[l] = None
      /\ held' = held /\ table' = table /\ lru_lock' = lru_lock /\ buf' = buf /\ crawlVars' = crawlVars
  BY <1>1, <1>4 DEF item_unlink_q
<1>6. /\ th' = [th EXCEPT ![w] = s]
      /\ lock' = [lock EXCEPT ![k] = IF r.pc = "unlink" THEN None ELSE w]
  BY <1>1, <1>2, <1>3 DEF item_unlink_q, IInv, Types
<1>7. /\ IsThread(s) /\ s.own = 0 /\ s.search = None
      /\ r.pc = "unlink" => s.pc = "idle"
      /\ r.pc = "replace" => s.pc = "link" /\ s.key = k /\ s.it = z
  BY ONLY <1>1, <1>2 DEF Idle, IsThread
<1>8. Unl(w, x)
  BY <1>1, <1>2, <1>3 DEF Unl, UnlR
<1>9. Alone(x, w)
  BY <1>3, <1>8, AloneWhen
<1>10. item[x].ref \in Nat /\ h \in Nat /\ item[x] \in ItemRecords /\ l \in Lrus
  BY <1>3, <1>4, ItemFields
<1>11. /\ n \in Nat /\ Place(x) = PlaceIn(f, r, x, l)
       /\ item[x].ref = LinkOf(f, r, x) + h + HoldOf(r, x) + n
  BY <1>1, <1>3, <1>4, <1>9, Refs
<1>12. LinkOf(f, r, x) = 1 /\ PlaceIn(f, r, x, l) = l /\ HoldOf(r, x) \in {0, 1} /\ (r.own = 1 => HoldOf(r, x) = 1)
  BY ONLY <1>1, <1>2 DEF LinkOf, HoldOf, PlaceIn, UnlR, LnkR, MovR, HldR
<1>13. r.pc = "replace" => z # x
  BY ONLY <1>3, <1>10, <1>11, <1>12 DEF New
<1>14. HoldOf(r, x) = r.own
  BY ONLY <1>1, <1>2, <1>3, <1>13 DEF HoldOf, HldR
<1>15. item[x].ref = 1 + h + r.own + n /\ Place(x) = l
  BY ONLY <1>11, <1>12, <1>14
<1>16. /\ p0 \in ItemRecords /\ p0.ref = h + r.own + n /\ (p0 = Free \/ (p0.ref # 0 /\ p0.key \in Keys))
       /\ "LINKED" \notin p0.flags /\ item[x].ref # 0
  <2>1. item[x].ref # 0
    BY ONLY <1>3, <1>10, <1>11, <1>15
  <2>2. /\ p0 \in ItemRecords /\ p0.ref = item[x].ref - 1 /\ (p0 = Free \/ (p0.ref # 0 /\ p0.key \in Keys))
        /\ item[x].ref # 1 => p0.key = item[x].key /\ p0.lru = item[x].lru /\ p0.flags = item[x].flags
        /\ item[x].ref = 1 => p0.flags = {}
    BY ONLY <1>3, <1>4, <1>10, <2>1, Removed
  <2> QED BY ONLY <1>3, <1>10, <1>11, <1>15, <2>1, <2>2
<1>17. /\ p \in ItemRecords /\ p.ref = h + n /\ (p = Free \/ (p.ref # 0 /\ p.key \in Keys))
       /\ "LINKED" \notin p.flags
  <2>1. CASE r.own = 0
    BY ONLY <1>4, <1>10, <1>11, <1>16, <2>1
  <2>2. CASE r.own = 1
    <3>1. p0.ref # 0 /\ p0.key \in Keys /\ p = do_item_remove(p0)
      BY ONLY <1>4, <1>10, <1>11, <1>16, <2>2 DEF Free
    <3>2. /\ p \in ItemRecords /\ p.ref = p0.ref - 1 /\ (p = Free \/ (p.ref # 0 /\ p.key \in Keys))
          /\ p0.ref # 1 => p.flags = p0.flags
          /\ p0.ref = 1 => p.flags = {}
      BY ONLY <1>16, <3>1, Removed
    <3> QED BY ONLY <1>10, <1>11, <1>16, <2>2, <3>1, <3>2
  <2> QED BY <1>3, <2>1, <2>2
<1>18. Locks(w) /\ LruLocks(w) /\ Tables(w, x) /\ (r.pc = "replace" => lock'[k] = w)
  <2>1. PICK v : v = IF r.pc = "unlink" THEN None ELSE w
    OBVIOUS
  <2>2. v \in {None, w} /\ lock' = [lock EXCEPT ![k] = v] /\ (r.pc = "replace" => v = w)
    BY <1>6, <2>1
  <2>3. Locks(w) /\ lock'[k] = v
    BY ONLY IInv, <1>3, <2>2, LockStep
  <2> QED BY <1>5, <2>2, <2>3, LruLockSame, TableSame
<1>19. Others(w, x, s)
  <2>1. \A y \in Items \ {x} : SameRec(r, s, y)
    <3>1. None \notin Items
      BY Constants DEF Nodes
    <3> QED BY ONLY <1>1, <1>2, <1>3, <1>7, <3>1 DEF SameRec, UnlR, LnkR, MovR, HldR
  <2> QED BY <1>1, <1>2, <1>3, <1>5, <1>6, <1>7, <1>18, <2>1 DEF Others
<1>20. LinkOf(p.flags, s, x) = 0 /\ HoldOf(s, x) = 0 /\ PlaceIn(p.flags, s, x, p.lru) = None
  <2>1. None \notin Items
    BY Constants DEF Nodes
  <2> QED BY ONLY <1>2, <1>3, <1>7, <1>13, <1>17, <2>1 DEF LinkOf, HoldOf, PlaceIn, UnlR, LnkR, MovR, HldR
<1>21. Refers(x, p, s, h)
  BY ONLY <1>4, <1>10, <1>11, <1>17, <1>20 DEF Refers
<1>22. Puts(w, x, p, s, None)
  BY ONLY <1>5, <1>15, <1>20 DEF Puts
<1>23. Good(q', P, enabled, remaining)
  <2>1. IsPlaces(Places) /\ Places[x] = l /\ Good(q, Places, enabled, remaining)
        /\ remaining \in [Lrus -> Nat]
    BY <1>3, <1>15, PlacesAre DEF IInv, ListsInv, Types
  <2>2. Good(do_item_unlink_q(x, l), [Places EXCEPT ![x] = None], enabled, remaining)
    BY ONLY <1>3, <1>10, <2>1, UnlinkGood
  <2> QED BY ONLY <1>4, <1>5, <2>2
<1>24. Hash(x, p)
  BY <1>3, <1>5, <1>17, Hashed DEF Hash
<1>25. Fits(w, s, P)
  <2>1. r.pc = "replace" => item'[z] = item[z]
    BY <1>3, <1>5, <1>13, <1>17, ItemTyped
  <2>2. th'[w] = s
    BY <1>3, <1>6, <1>7, ThreadTyped
  <2>3. WorkerOK(w)'
    BY ONLY <1>2, <1>3, <1>5, <1>7, <1>18, <2>1, <2>2 DEF WorkerOK, New
  <2> QED BY <1>2, <1>3, <1>7, <2>3 DEF Fits, Strolls, Pulls
<1>26. held' = [held EXCEPT ![x] = h]
  BY <1>3, <1>4, <1>5, SameHeld
<1> QED BY ONLY IInv, <1>3, <1>4, <1>5, <1>9, <1>10, <1>17, <1>19, <1>21, <1>22, <1>23, <1>24, <1>25,
                <1>26, ItemStep

-----------------------------------------------------------------------------
(* lru_pull_tail.                                                          *)

LEMMA PullerIs ==
    ASSUME IInv, NEW t \in Pullers
    PROVE  /\ t \in Threads /\ t # None /\ t # Crawler /\ IsThread(th[t]) /\ PullerOK(t)
           /\ t \in Workers \/ t = Maintainer
           /\ t \in Workers => WorkerOK(t) /\ t # Maintainer
           /\ t = Maintainer => MaintainerOK /\ t \notin Workers
           /\ th[t].pc \notin {"unlink", "replace"} => th[t].own = 0
           /\ t \in Workers /\ th[t].pc \notin {"idle", "starting"} => th[t].key \in Keys
<1>1. /\ t \in Threads /\ t # None /\ t # Crawler /\ IsThread(th[t]) /\ PullerOK(t)
      /\ t \in Workers \/ t = Maintainer
      /\ t \in Workers => WorkerOK(t) /\ t # Maintainer
      /\ t = Maintainer => MaintainerOK /\ t \notin Workers
  BY Constants DEF IInv, ThreadsOK, Types, Threads
<1>2. t \in Workers => /\ th[t].pc \notin {"unlink", "replace"} => th[t].own = 0
                       /\ th[t].pc \notin {"idle", "starting"} => th[t].key \in Keys
  BY <1>1 DEF WorkerOK
<1>3. t = Maintainer => th[t].own = 0
  BY <1>1 DEF MaintainerOK
<1> QED BY ONLY <1>1, <1>2, <1>3

\* A thread that deals with no item.
Quiet(r) == r.pc \notin {"unlink", "replace", "store", "link", "linked", "pulled"} /\ r.own = 0

LEMMA QuietSame ==
    ASSUME NEW r, NEW s, Quiet(r), Quiet(s), NEW y
    PROVE  SameRec(r, s, y)
BY DEF Quiet, SameRec, UnlR, LnkR, MovR, HldR

LEMMA QuietRels ==
    ASSUME NEW r, Quiet(r), NEW f, NEW x, NEW l
    PROVE  /\ "LINKED" \in f => LinkOf(f, r, x) = 1 /\ PlaceIn(f, r, x, l) = l
           /\ "LINKED" \notin f => LinkOf(f, r, x) = 0 /\ PlaceIn(f, r, x, l) = None
           /\ HoldOf(r, x) = 0
<1>1. r.pc \notin {"unlink", "replace", "store", "link", "linked", "pulled"} /\ r.own # 1
  BY DEF Quiet
<1> QED BY <1>1, IdleRels

LEMMA FitsBack ==
    ASSUME NEW t \in Pullers, NEW s, NEW P, th'[t] = s, s.pc \in {"idle", "alloc", "evicted0"},
           s.own = 0, t = Maintainer => s.pc = "idle", s.pc = "idle" \/ s.key \in Keys
    PROVE  Fits(t, s, P)
<1>1. t \in Workers => WorkerOK(t)'
  BY WorkerAway
<1> QED BY <1>1 DEF Fits, Strolls, Pulls, Maintains

LEMMA FitsWalk ==
    ASSUME NEW t \in Pullers, NEW s, NEW P, th'[t] = s, s.pc = "walk", s.own = 0,
           t \in Workers => s.key \in Keys, s.lru \in Lrus, lru_lock'[s.lru] = t,
           s.search = None \/ Member(P, enabled, s.search, s.lru)
    PROVE  Fits(t, s, P)
<1>1. t \in Workers => WorkerOK(t)'
  BY WorkerAway
<1> QED BY <1>1 DEF Fits, Strolls, Pulls, Maintains

LEMMA ReturnedIs ==
    ASSUME IInv, NEW t \in Pullers, th[t].pc \in {"walk", "pulled"}, NEW s, s = Returned(t)
    PROVE  /\ IsThread(s) /\ s.pc \in {"idle", "alloc", "evicted0"} /\ s.own = 0 /\ Quiet(s)
           /\ t = Maintainer => s.pc = "idle"
           /\ s.pc = "idle" \/ s.key \in Keys
<1>1. PICK k, pc : /\ k = th[t].key
                   /\ pc = IF "EVICT" \in th[t].flags /\ th[t].removed = 0 THEN "evicted0" ELSE "alloc"
  OBVIOUS
<1>2. s = IF t = Maintainer THEN Idle ELSE [Idle EXCEPT !.key = k, !.pc = pc]
  BY <1>1 DEF Returned
<1>3. t # Maintainer => k \in Keys
  BY <1>1, PullerIs
<1>4. pc \in {"evicted0", "alloc"}
  BY <1>1
<1>5. CASE t = Maintainer
  BY ONLY <1>2, <1>5 DEF Idle, IsThread, Quiet
<1>6. CASE t # Maintainer
  BY ONLY <1>2, <1>3, <1>4, <1>6 DEF Idle, IsThread, Quiet
<1> QED BY <1>5, <1>6

LEMMA TailIs ==
    ASSUME IInv, NEW l \in Lrus
    PROVE  q.tails[l] = None \/ Member(Places, enabled, q.tails[l], l)
<1>1. PICK s \in Lists(l) : ListOK(q, Places, enabled, remaining, l, s)
  BY DEF IInv, ListsInv, Good
<1> QED BY <1>1, Neighbours

\* The node before one of a list, and the lists that have it.
LEMMA PrevIs ==
    ASSUME IInv, NEW l \in Lrus, NEW y, Member(Places, enabled, y, l)
    PROVE  /\ q.prev[y] = None \/ Member(Places, enabled, q.prev[y], l)
           /\ q.prev[y] # y
<1>1. PICK s \in Lists(l) : ListOK(q, Places, enabled, remaining, l, s)
  BY DEF IInv, ListsInv, Good
<1>2. y \in Nodes /\ y # None
  BY Constants DEF Member, Nodes
<1>3. q.prev[y] # None => Member(Places, enabled, q.prev[y], l)
  BY <1>1, <1>2, Neighbours
<1>4. PICK i \in 1 .. Len(s) : s[i] = y
  BY <1>1, <1>2 DEF ListOK, In
<1>5. Len(s) \in Nat
  BY ListSeq
<1>6. q.prev[y] = (IF i = 1 THEN None ELSE s[i - 1]) /\ Once(s)
  BY <1>1, <1>4 DEF ListOK, Chain
<1>7. q.prev[y] # y
  <2>1. CASE i = 1
    BY <1>2, <1>6, <2>1
  <2>2. CASE i # 1
    <3>1. i - 1 \in 1 .. Len(s) /\ i - 1 # i
      BY ONLY <1>4, <1>5, <2>2
    <3> QED BY ONLY <1>4, <1>6, <2>2, <3>1 DEF Once
  <2> QED BY <2>1, <2>2
<1> QED BY <1>3, <1>7

LEMMA Step_PullFrom ==
    ASSUME IInv, NEW t \in Pullers, NEW k, NEW l \in Lrus, NEW fl, PullFrom(t, k, l, fl),
           Quiet(th[t]), Away(th[t]), th[t].pc # "starting", t \in Workers => k \in Keys
    PROVE  IInv'
<1>1. PICK s, y : /\ y = q.tails[l]
                  /\ s = [Idle EXCEPT !.pc = "walk", !.key = k, !.lru = l, !.flags = fl,
                                      !.search = y, !.tries = Tries]
  OBVIOUS
<1>2. /\ lru_lock[l] = None /\ lru_lock' = [lru_lock EXCEPT ![l] = t] /\ th' = [th EXCEPT ![t] = s]
      /\ q' = q /\ item' = item /\ table' = table /\ held' = held /\ lock' = lock /\ buf' = buf
      /\ crawlVars' = crawlVars
  BY <1>1 DEF PullFrom, memoryVars
<1>3. /\ IsThread(s) /\ s.pc = "walk" /\ s.own = 0 /\ s.key = k /\ s.lru = l /\ s.search = y /\ Quiet(s)
  BY ONLY <1>1 DEF Idle, IsThread, Quiet
<1>4. LruLocks(t) /\ lru_lock'[l] = t
  BY <1>2, LruLockStep
<1>5. Others(t, None, s)
  <2>1. \A y2 \in Items \ {None} : SameRec(th[t], s, y2)
    BY <1>3, QuietSame
  <2>2. Locks(t) /\ Tables(t, None)
    BY <1>2, LockSame, TableSame
  <2> QED BY <1>2, <1>3, <1>4, <2>1, <2>2 DEF Others
<1>6. th'[t] = s
  BY <1>2, <1>3, ThreadTyped
<1>7. y = None \/ Member(Places, enabled, y, l)
  BY <1>1, TailIs
<1>8. Fits(t, s, Places)
  BY <1>3, <1>4, <1>6, <1>7, FitsWalk
<1> QED BY <1>2, <1>5, <1>8, ThreadStep

LEMMA Step_do_item_alloc_pull ==
    ASSUME IInv, NEW w \in Workers, NEW k \in Keys, do_item_alloc_pull(w, k)
    PROVE  IInv'
<1>1. /\ w \in Pullers /\ WorkerOK(w)
  BY WorkerIs
<1>2. PICK l, fl : l \in {COLD, HOT} /\ PullFrom(w, k, l, fl)
  BY DEF do_item_alloc_pull
<1>3. th[w].pc \in {"idle", "alloc", "evicted0"}
  BY DEF do_item_alloc_pull, Allocates, Begins
<1>4. Quiet(th[w]) /\ Away(th[w]) /\ th[w].pc # "starting"
  BY <1>1, <1>3, PullerIs DEF Quiet, Away
<1>5. l \in Lrus
  BY <1>2, Constants
<1> QED BY <1>1, <1>2, <1>4, <1>5, Step_PullFrom

LEMMA Step_lru_maintainer_juggle ==
    ASSUME IInv, NEW l \in Lrus, lru_maintainer_juggle(l)
    PROVE  IInv'
<1>1. Maintainer \in Pullers /\ Maintainer \notin Workers
  BY Constants
<1>2. PICK fl : PullFrom(Maintainer, None, l, fl)
  BY DEF lru_maintainer_juggle
<1>3. th[Maintainer].pc = "idle"
  BY DEF lru_maintainer_juggle
<1>4. Quiet(th[Maintainer]) /\ Away(th[Maintainer]) /\ th[Maintainer].pc # "starting"
  BY <1>1, <1>3, PullerIs DEF Quiet, Away
<1> QED BY <1>1, <1>2, <1>4, Step_PullFrom

\* A thread goes on with s, and changes nothing else but an LRU lock.
LEMMA Step_thread ==
    ASSUME IInv, NEW t \in Pullers, NEW s, IsThread(s), Quiet(th[t]), Quiet(s), Away(th[t]),
           th[t].pc # "starting", th' = [th EXCEPT ![t] = s], LruLocks(t),
           UNCHANGED <<q, memoryVars, lock, buf, crawlVars>>, Fits(t, s, Places)
    PROVE  IInv'
<1>1. \A y \in Items \ {None} : SameRec(th[t], s, y)
  BY QuietSame
<1>2. /\ q' = q /\ item' = item /\ table' = table /\ held' = held /\ lock' = lock /\ buf' = buf
      /\ crawlVars' = crawlVars
  BY DEF memoryVars
<1>3. Locks(t) /\ Tables(t, None)
  BY <1>2, LockSame, TableSame
<1>4. Others(t, None, s)
  BY <1>1, <1>2, <1>3 DEF Others
<1> QED BY <1>2, <1>4, ThreadStep

LEMMA Step_AllocFails ==
    ASSUME IInv, NEW w \in Workers, AllocFails(w)
    PROVE  IInv'
<1>1. /\ th[w].pc = "alloc" /\ th' = [th EXCEPT ![w] = Idle] /\ lru_lock' = lru_lock
      /\ UNCHANGED <<q, memoryVars, lock, buf, crawlVars>>
  BY DEF AllocFails
<1>2. w \in Pullers /\ w # Maintainer
  BY WorkerIs
<1>3. Quiet(th[w]) /\ Away(th[w]) /\ th[w].pc # "starting"
  BY <1>1, <1>2, PullerIs DEF Quiet, Away
<1>4. IsThread(Idle) /\ Quiet(Idle) /\ Idle.pc = "idle" /\ Idle.own = 0
  BY ONLY DEF Idle, IsThread, Quiet
<1>5. th'[w] = Idle
  BY <1>1, <1>2, <1>4, ThreadTyped
<1>6. Fits(w, Idle, Places)
  BY <1>2, <1>4, <1>5, FitsBack
<1>7. LruLocks(w)
  BY <1>1, LruLockSame
<1> QED BY <1>1, <1>2, <1>3, <1>4, <1>6, <1>7, Step_thread

LEMMA Step_WalkEnds ==
    ASSUME IInv, NEW t \in Pullers, WalkEnds(t)
    PROVE  IInv'
<1>1. PICK s, l : s = Returned(t) /\ l = th[t].lru
  OBVIOUS
<1>2. /\ th[t].pc = "walk" /\ th' = [th EXCEPT ![t] = s] /\ lru_lock' = [lru_lock EXCEPT ![l] = None]
      /\ UNCHANGED <<q, memoryVars, lock, buf, crawlVars>>
  BY <1>1 DEF WalkEnds, Walking
<1>3. Quiet(th[t]) /\ Away(th[t]) /\ th[t].pc # "starting"
  BY <1>2, PullerIs DEF Quiet, Away
<1>4. /\ IsThread(s) /\ s.pc \in {"idle", "alloc", "evicted0"} /\ s.own = 0 /\ Quiet(s)
      /\ t = Maintainer => s.pc = "idle"
      /\ s.pc = "idle" \/ s.key \in Keys
  BY <1>1, <1>2, ReturnedIs
<1>5. th'[t] = s
  BY <1>2, <1>4, ThreadTyped
<1>6. Fits(t, s, Places)
  BY <1>4, <1>5, FitsBack
<1>7. LruLocks(t)
  <2>1. l \in Lrus /\ lru_lock[l] = t
    BY <1>1, <1>2, PullerIs DEF PullerOK
  <2> QED BY <1>2, <2>1, LruLockStep
<1> QED BY <1>2, <1>3, <1>4, <1>6, <1>7, Step_thread

\* The walk goes on with node y.
Goes(r, y, s) == \/ s = [r EXCEPT !.search = y]
                 \/ \E n : \/ s = [r EXCEPT !.search = y, !.tries = n]
                           \/ s = [r EXCEPT !.search = y, !.tries = n, !.removed = 1]

LEMMA GoesOn ==
    ASSUME NEW r, IsThread(r), NEW y, NEW s, Goes(r, y, s)
    PROVE  /\ IsThread(s) /\ s.pc = r.pc /\ s.key = r.key /\ s.it = r.it /\ s.own = r.own
           /\ s.search = y /\ s.move = r.move /\ s.lru = r.lru
<1>1. PICK pc, k, x, o, rem, l, f, z, tr, m, b, at, size, ids :
        /\ pc = r.pc /\ k = r.key /\ x = r.it /\ o = r.own /\ rem = r.removed /\ l = r.lru /\ f = r.flags
        /\ z = r.search /\ tr = r.tries /\ m = r.move /\ b = r.buf /\ at = r.at /\ size = r.size
        /\ ids = r.ids
  OBVIOUS
<1>2. r = [pc |-> pc, key |-> k, it |-> x, own |-> o, removed |-> rem,
           lru |-> l, flags |-> f, search |-> z, tries |-> tr,
           move |-> m, buf |-> b, at |-> at, size |-> size, ids |-> ids]
  BY <1>1 DEF IsThread
<1>3. PICK n, rem2 :
      s = [pc |-> pc, key |-> k, it |-> x, own |-> o, removed |-> rem2,
           lru |-> l, flags |-> f, search |-> y, tries |-> n,
           move |-> m, buf |-> b, at |-> at, size |-> size, ids |-> ids]
  <2>1. CASE s = [r EXCEPT !.search = y]
    BY ONLY <1>2, <2>1
  <2>2. CASE \E n : s = [r EXCEPT !.search = y, !.tries = n]
    BY ONLY <1>2, <2>2
  <2>3. CASE \E n : s = [r EXCEPT !.search = y, !.tries = n, !.removed = 1]
    BY ONLY <1>2, <2>3
  <2> QED BY <2>1, <2>2, <2>3 DEF Goes
<1> QED BY ONLY <1>1, <1>3 DEF IsThread

LEMMA Step_WalkSkips ==
    ASSUME IInv, NEW t \in Pullers, WalkSkips(t)
    PROVE  IInv'
<1>1. PICK r, y, z, l : r = th[t] /\ y = th[t].search /\ z = q.prev[y] /\ l = th[t].lru
  OBVIOUS
<1>2. /\ r.pc = "walk" /\ y # None /\ lru_lock' = lru_lock
      /\ UNCHANGED <<q, memoryVars, lock, buf, crawlVars>>
  BY <1>1 DEF WalkSkips, Looks, Walking
<1>3. PICK s : th' = [th EXCEPT ![t] = s] /\ Goes(r, z, s)
  <2>1. CASE th' = [th EXCEPT ![t].search = z]
    <3>1. th' = [th EXCEPT ![t] = [r EXCEPT !.search = z]]
      BY <1>1, <2>1
    <3> QED BY <3>1 DEF Goes
  <2>2. CASE th' = [th EXCEPT ![t].search = z, ![t].tries = @ - 1]
    <3>1. th' = [th EXCEPT ![t] = [r EXCEPT !.search = z, !.tries = r.tries - 1]]
      BY <1>1, <2>2
    <3> QED BY <3>1 DEF Goes
  <2> QED BY <1>1, <2>1, <2>2 DEF WalkSkips
<1>4. /\ IsThread(s) /\ s.pc = "walk" /\ s.key = r.key /\ s.own = r.own /\ s.search = z /\ s.lru = l
  BY <1>1, <1>2, <1>3, PullerIs, GoesOn
<1>5. Quiet(r) /\ Away(r) /\ r.pc # "starting" /\ Quiet(s) /\ s.own = 0 /\ (t \in Workers => s.key \in Keys)
  BY <1>1, <1>2, <1>4, PullerIs DEF Quiet, Away
<1>6. l \in Lrus /\ lru_lock'[l] = t /\ Member(Places, enabled, y, l)
  BY <1>1, <1>2, PullerIs DEF PullerOK
<1>7. z = None \/ Member(Places, enabled, z, l)
  BY <1>1, <1>6, PrevIs
<1>8. th'[t] = s
  BY <1>3, <1>4, ThreadTyped
<1>9. Fits(t, s, Places)
  BY <1>4, <1>5, <1>6, <1>7, <1>8, FitsWalk
<1>10. LruLocks(t)
  BY <1>2, LruLockSame
<1> QED BY <1>1, <1>2, <1>3, <1>4, <1>5, <1>9, <1>10, Step_thread

LEMMA AtItemIs ==
    ASSUME IInv, NEW t \in Pullers, AtItem(t), NEW x, x = th[t].search, NEW l, l = th[t].lru,
           NEW k, k = item[x].key, NEW h, h = held[x], NEW n, n = Cardinality(Bumps(x))
    PROVE  /\ th[t].pc = "walk" /\ Quiet(th[t]) /\ Away(th[t])
           /\ x \in Items /\ l \in Lrus /\ k \in Keys /\ lru_lock[l] = t /\ lock[k] = None
           /\ Place(x) = l /\ item[x].lru = l /\ "LINKED" \in item[x].flags /\ table[k] = x
           /\ Alone(x, t) /\ h \in Nat /\ n \in Nat /\ item[x].ref = 1 + h + n
           /\ item[x] \in ItemRecords /\ item[x].ref \in Nat
           /\ Member(Places, enabled, x, l)
<1>1. /\ th[t].pc = "walk" /\ x # None /\ x \notin Lrus /\ lock[k] = None
  BY DEF AtItem, Looks, Walking, IsCrawler, ItemLocked
<1>2. l \in Lrus /\ lru_lock[l] = t /\ Member(Places, enabled, x, l)
  BY <1>1, PullerIs DEF PullerOK
<1>3. x \in Items /\ Places[x] = l
  BY <1>1, <1>2 DEF Member
<1>4. Place(x) = l /\ l # None
  BY <1>2, <1>3, PlacesAre, Constants DEF Nodes
<1>5. item[x].lru = l /\ ("LINKED" \in item[x].flags \/ Unlinking(x))
  BY <1>4 DEF Place
<1>6. ~Unlinking(x)
  <2>1. SUFFICES ASSUME NEW w \in Workers, th[w].pc \in {"unlink", "replace"}, th[w].it = x
                 PROVE  FALSE
    BY DEF Unlinking
  <2>2. WorkerOK(w) /\ w # None
    BY WorkerIs
  <2>3. lock[k] = w
    BY <2>1, <2>2 DEF WorkerOK, Owns
  <2> QED BY <1>1, <2>2, <2>3
<1>7. k \in Keys /\ table[k] = x /\ "LINKED" \in item[x].flags
  BY <1>3, <1>5, <1>6, Hashed
<1>8. Alone(x, t)
  BY <1>1, <1>3, <1>7, AloneWhen, PullerIs
<1>9. Quiet(th[t]) /\ Away(th[t])
  BY <1>1, PullerIs DEF Quiet, Away
<1>10. PICK r, f : r = th[t] /\ f = item[x].flags
  OBVIOUS
<1>11. n \in Nat /\ item[x].ref = LinkOf(f, r, x) + h + HoldOf(r, x) + n
  BY <1>3, <1>8, <1>9, <1>10, Refs
<1>12. LinkOf(f, r, x) = 1 /\ HoldOf(r, x) = 0
  BY <1>7, <1>9, <1>10, QuietRels
<1>13. h \in Nat /\ item[x] \in ItemRecords /\ item[x].ref \in Nat
  BY <1>3, ItemFields
<1>14. item[x].ref = 1 + h + n
  BY ONLY <1>11, <1>12, <1>13
<1> QED BY ONLY <1>1, <1>2, <1>3, <1>4, <1>5, <1>7, <1>8, <1>9, <1>11, <1>13, <1>14

LEMMA MemberStill ==
    ASSUME NEW x, NEW l, NEW m, NEW z, z # x, Member(Places, enabled, z, l),
           NEW P, P = [Places EXCEPT ![x] = m]
    PROVE  Member(P, enabled, z, l)
BY DEF Member, Places

\* The references of item x, now p, which is in list l if it is linked.
Counted(p, x) ==
    p.ref = (IF "LINKED" \in p.flags THEN 1 ELSE 0) + held[x] + Cardinality(Bumps(x))
Stays(p, l, m) == /\ m = IF "LINKED" \in p.flags THEN l ELSE None
                  /\ p.lru = l \/ "LINKED" \notin p.flags

WalkFrame == UNCHANGED <<held, lock, lru_lock, buf, crawlVars>>

\* A step of a walk at item x, which goes on with the node before.
LEMMA WalkStep ==
    ASSUME IInv, NEW t \in Pullers, AtItem(t), NEW x, x = th[t].search, NEW l, l = th[t].lru,
           NEW s, th' = [th EXCEPT ![t] = s], Goes(th[t], q.prev[x], s),
           WalkFrame, Tables(t, x),
           NEW p, p \in ItemRecords, item' = [item EXCEPT ![x] = p], Hash(x, p),
           Counted(p, x), NEW m, Stays(p, l, m),
           NEW P, P = [Places EXCEPT ![x] = m], Good(q', P, enabled, remaining)
    PROVE  IInv'
<1>1. PICK r, z, h, n, k : /\ r = th[t] /\ z = q.prev[x] /\ h = held[x] /\ n = Cardinality(Bumps(x))
                           /\ k = item[x].key
  OBVIOUS
<1>2. /\ r.pc = "walk" /\ Quiet(r) /\ Away(r)
      /\ x \in Items /\ l \in Lrus /\ lru_lock[l] = t /\ Place(x) = l
      /\ Alone(x, t) /\ h \in Nat /\ n \in Nat /\ Member(Places, enabled, x, l)
  BY <1>1, AtItemIs
<1>3. /\ IsThread(s) /\ s.pc = "walk" /\ s.key = r.key /\ s.own = r.own /\ s.search = z /\ s.lru = l
  <2>1. IsThread(r) /\ Goes(r, z, s) /\ l = r.lru
    BY <1>1, PullerIs
  <2> QED BY ONLY <1>2, <2>1, GoesOn
<1>4. s.own = 0 /\ (t \in Workers => s.key \in Keys) /\ Quiet(s)
  BY <1>1, <1>2, <1>3, PullerIs DEF Quiet
<1>5. th'[t] = s
  BY <1>3, ThreadTyped
<1>6. Member(P, enabled, z, l) \/ z = None
  BY <1>1, <1>2, PrevIs, MemberStill
<1>7. /\ lru_lock'[l] = t /\ held' = held /\ lock' = lock /\ lru_lock' = lru_lock /\ buf' = buf
      /\ crawlVars' = crawlVars
  BY <1>2 DEF WalkFrame
<1>8. Fits(t, s, P)
  BY <1>2, <1>3, <1>4, <1>5, <1>6, <1>7, FitsWalk
<1>9. Others(t, x, s)
  <2>1. \A y \in Items \ {x} : SameRec(th[t], s, y)
    BY <1>1, <1>2, <1>4, QuietSame
  <2>2. Locks(t) /\ LruLocks(t)
    BY <1>7, LockSame, LruLockSame
  <2> QED BY <1>1, <1>2, <1>3, <1>7, <2>1, <2>2 DEF Others
<1>10. /\ HoldOf(s, x) = 0
       /\ "LINKED" \in p.flags => LinkOf(p.flags, s, x) = 1 /\ PlaceIn(p.flags, s, x, p.lru) = p.lru
       /\ "LINKED" \notin p.flags => LinkOf(p.flags, s, x) = 0 /\ PlaceIn(p.flags, s, x, p.lru) = None
  BY <1>4, QuietRels
<1>11. Refers(x, p, s, h)
  <2>1. p.ref = (IF "LINKED" \in p.flags THEN 1 ELSE 0) + h + n
    BY <1>1 DEF Counted
  <2> QED BY ONLY <1>1, <1>2, <1>10, <2>1 DEF Refers
<1>12. Puts(t, x, p, s, m)
  <2>1. m = PlaceIn(p.flags, s, x, p.lru)
    BY <1>10 DEF Stays
  <2> QED BY <1>2, <2>1 DEF Puts
<1>13. held' = [held EXCEPT ![x] = h]
  BY <1>1, <1>2, <1>7, SameHeld
<1> QED BY <1>2, <1>7, <1>8, <1>9, <1>11, <1>12, <1>13, ItemStep

LEMMA Step_WalkReclaims ==
    ASSUME IInv, NEW t \in Pullers, WalkReclaims(t)
    PROVE  IInv'
<1>1. PICK x, l, k, h, n, r, z, p0, p, P :
        /\ x = th[t].search /\ l = th[t].lru /\ k = item[x].key /\ h = held[x]
        /\ n = Cardinality(Bumps(x)) /\ r = th[t] /\ z = q.prev[x]
        /\ p0 = MarkUnlinked(item[x]) /\ p = do_item_remove(p0) /\ P = [Places EXCEPT ![x] = None]
  OBVIOUS
<1>2. AtItem(t)
  BY DEF WalkReclaims
<1>3. /\ x \in Items /\ l \in Lrus /\ k \in Keys /\ lru_lock[l] = t /\ lock[k] = None
      /\ Place(x) = l /\ item[x].lru = l /\ table[k] = x
      /\ h \in Nat /\ n \in Nat /\ item[x].ref = 1 + h + n
      /\ item[x] \in ItemRecords
  BY <1>1, <1>2, AtItemIs
<1>4. /\ q' = do_item_unlink_q(x, l) /\ table' = [table EXCEPT ![k] = None]
      /\ item' = [item EXCEPT ![x] = p] /\ WalkFrame
  BY <1>1, <1>3 DEF WalkReclaims, do_item_unlink_nolock, WalkFrame
<1>5. PICK s : th' = [th EXCEPT ![t] = s] /\ Goes(th[t], q.prev[x], s)
  <2>1. th' = [th EXCEPT ![t].search = z, ![t].tries = @ - 1, ![t].removed = 1]
    BY <1>1 DEF WalkReclaims
  <2>2. th' = [th EXCEPT ![t] = [r EXCEPT !.search = z, !.tries = r.tries - 1, !.removed = 1]]
    BY <1>1, <2>1
  <2> QED BY <1>1, <2>2 DEF Goes
<1>6. p0 \in ItemRecords /\ p0.key = k /\ p0.ref = item[x].ref /\ "LINKED" \notin p0.flags
  BY ONLY <1>1, <1>3, Unlinks
<1>7. /\ p \in ItemRecords /\ p.ref = h + n /\ (p = Free \/ (p.ref # 0 /\ p.key \in Keys))
      /\ "LINKED" \notin p.flags
  <2>1. p0.ref # 0
    BY ONLY <1>3, <1>6
  <2>2. /\ p \in ItemRecords /\ p.ref = p0.ref - 1 /\ (p = Free \/ (p.ref # 0 /\ p.key \in Keys))
        /\ p0.ref # 1 => p.flags = p0.flags
        /\ p0.ref = 1 => p.flags = {}
    BY ONLY <1>1, <1>3, <1>6, <2>1, Removed
  <2> QED BY ONLY <1>3, <1>6, <2>2
<1>8. Tables(t, x) /\ table'[k] = None /\ \A j \in Keys \ {k} : table'[j] = table[j]
  BY <1>3, <1>4, TableStep
<1>9. Hash(x, p)
  BY <1>3, <1>7, <1>8, HashCut
<1>10. Good(q', P, enabled, remaining)
  <2>1. IsPlaces(Places) /\ Places[x] = l /\ Good(q, Places, enabled, remaining)
        /\ remaining \in [Lrus -> Nat]
    BY <1>3, PlacesAre DEF IInv, ListsInv, Types
  <2>2. Good(do_item_unlink_q(x, l), [Places EXCEPT ![x] = None], enabled, remaining)
    BY ONLY <1>3, <2>1, UnlinkGood
  <2> QED BY ONLY <1>1, <1>4, <2>2
<1>11. Counted(p, x)
  BY ONLY <1>1, <1>3, <1>7 DEF Counted
<1>12. PICK m : m = None
  OBVIOUS
<1>13. Stays(p, l, m) /\ P = [Places EXCEPT ![x] = m]
  BY ONLY <1>1, <1>7, <1>12 DEF Stays
<1>14. x = th[t].search /\ l = th[t].lru /\ p \in ItemRecords /\ WalkFrame /\ item' = [item EXCEPT ![x] = p]
  BY ONLY <1>1, <1>4, <1>7
<1>15. Tables(t, x)
  BY ONLY <1>8
<1> QED BY ONLY IInv, t \in Pullers, <1>2, <1>5, <1>9, <1>10, <1>11, <1>13, <1>14, <1>15, WalkStep

LEMMA Step_WalkRescues ==
    ASSUME IInv, NEW t \in Pullers, WalkRescues(t)
    PROVE  IInv'
<1>1. PICK x, l, k, h, n, r, z, p, P :
        /\ x = th[t].search /\ l = th[t].lru /\ k = item[x].key /\ h = held[x]
        /\ n = Cardinality(Bumps(x)) /\ r = th[t] /\ z = q.prev[x]
        /\ p = MarkInactive(item[x]) /\ P = [Places EXCEPT ![x] = l]
  OBVIOUS
<1>2. AtItem(t)
  BY DEF WalkRescues
<1>3. /\ x \in Items /\ l \in Lrus /\ k \in Keys /\ "LINKED" \in item[x].flags
      /\ Place(x) = l /\ item[x].lru = l
      /\ h \in Nat /\ n \in Nat /\ item[x].ref = 1 + h + n
      /\ item[x] \in ItemRecords
  BY <1>1, <1>2, AtItemIs
<1>4. /\ q' \in {q, do_item_update_nolock(x, l)} /\ table' = table
      /\ WalkFrame
  BY <1>1 DEF WalkRescues, WalkFrame
<1>5. item' = [item EXCEPT ![x] = p]
  BY <1>1 DEF WalkRescues, MarkInactive
<1>6. PICK s : th' = [th EXCEPT ![t] = s] /\ Goes(th[t], q.prev[x], s)
  <2>1. th' = [th EXCEPT ![t].search = z, ![t].tries = @ - 1, ![t].removed = 1]
    BY <1>1 DEF WalkRescues
  <2>2. th' = [th EXCEPT ![t] = [r EXCEPT !.search = z, !.tries = r.tries - 1, !.removed = 1]]
    BY <1>1, <2>1
  <2> QED BY <1>1, <2>2 DEF Goes
<1>7. p \in ItemRecords /\ p.key = k /\ p.lru = l /\ p.ref = item[x].ref /\ "LINKED" \in p.flags
  BY ONLY <1>1, <1>3, Inactivates
<1>8. Tables(t, x) /\ table' = table
  BY <1>4, TableSame
<1>9. Hash(x, p)
  <2>1. p = Free \/ (p.ref # 0 /\ p.key \in Keys)
    BY ONLY <1>3, <1>7
  <2> QED BY <1>1, <1>3, <1>4, <1>7, <2>1, HashKept
<1>10. Good(q', P, enabled, remaining)
  <2>1. IsPlaces(Places) /\ Places[x] = l /\ Good(q, Places, enabled, remaining)
        /\ remaining \in [Lrus -> Nat]
    BY <1>3, PlacesAre DEF IInv, ListsInv, Types
  <2>2. Good(do_item_update_nolock(x, l), Places, enabled, remaining)
    BY ONLY <1>3, <2>1, UpdateGood
  <2>3. P = Places
    BY <1>1, <1>3 DEF Places
  <2> QED BY ONLY <1>4, <2>1, <2>2, <2>3
<1>11. Counted(p, x)
  BY ONLY <1>1, <1>3, <1>7 DEF Counted
<1>12. Stays(p, l, l) /\ P = [Places EXCEPT ![x] = l]
  BY ONLY <1>1, <1>7 DEF Stays
<1>14. x = th[t].search /\ l = th[t].lru /\ p \in ItemRecords /\ WalkFrame
  BY ONLY <1>1, <1>4, <1>7
<1>15. Tables(t, x)
  BY ONLY <1>8
<1> QED BY ONLY IInv, t \in Pullers, <1>2, <1>5, <1>6, <1>9, <1>10, <1>11, <1>12, <1>14, <1>15, WalkStep

\* A thread's record when its walk stops.
Stop(r, x, to, rem) == [r EXCEPT !.pc = "pulled", !.it = x, !.move = to, !.search = None, !.tries = 0,
                                 !.removed = rem]

LEMMA StopRecord ==
    ASSUME NEW r, IsThread(r), NEW x, NEW to, NEW rem, NEW s, s = Stop(r, x, to, rem)
    PROVE  /\ IsThread(s) /\ s.pc = "pulled" /\ s.key = r.key /\ s.it = x /\ s.own = r.own
           /\ s.search = None /\ s.move = to
<1>1. PICK pc, k, y, o, rem0, l, f, z, tr, m, b, at, size, ids :
        /\ pc = r.pc /\ k = r.key /\ y = r.it /\ o = r.own /\ rem0 = r.removed /\ l = r.lru /\ f = r.flags
        /\ z = r.search /\ tr = r.tries /\ m = r.move /\ b = r.buf /\ at = r.at /\ size = r.size
        /\ ids = r.ids
  OBVIOUS
<1>2. r = [pc |-> pc, key |-> k, it |-> y, own |-> o, removed |-> rem0,
           lru |-> l, flags |-> f, search |-> z, tries |-> tr,
           move |-> m, buf |-> b, at |-> at, size |-> size, ids |-> ids]
  BY <1>1 DEF IsThread
<1>3. s = [pc |-> "pulled", key |-> k, it |-> x, own |-> o, removed |-> rem,
           lru |-> l, flags |-> f, search |-> None, tries |-> 0,
           move |-> to, buf |-> b, at |-> at, size |-> size, ids |-> ids]
  BY ONLY <1>2, s = Stop(r, x, to, rem) DEF Stop
<1> QED BY ONLY <1>1, <1>3 DEF IsThread

\* The walk of thread t stops at item x, which is to be moved to list to.
StopFrame(t, x, to, s) ==
    /\ IsThread(s) /\ s.pc = "pulled" /\ s.key = th[t].key /\ s.it = x /\ s.own = th[t].own
    /\ s.search = None /\ s.move = to /\ to \in Lrus \cup {None}
    /\ th' = [th EXCEPT ![t] = s] /\ lock' = [lock EXCEPT ![item[x].key] = t]
    /\ lru_lock' = [lru_lock EXCEPT ![th[t].lru] = None]
    /\ held' = held /\ buf' = buf /\ crawlVars' = crawlVars

\* Item x stays in its list just if it stays linked and does not move.
Stopped(p, l, to, m) == m = IF "LINKED" \in p.flags /\ to = None THEN l ELSE None

\* The references of item x, now p, one of them for the thread that has it.
CountedHere(p, x) ==
    p.ref = (IF "LINKED" \in p.flags THEN 1 ELSE 0) + held[x] + 1 + Cardinality(Bumps(x))

LEMMA StopStep ==
    ASSUME IInv, NEW t \in Pullers, AtItem(t), NEW x, x = th[t].search, NEW l, l = th[t].lru,
           NEW s, NEW to, StopFrame(t, x, to, s), Tables(t, x),
           NEW p, p \in ItemRecords, item' = [item EXCEPT ![x] = p], Hash(x, p), CountedHere(p, x),
           p.key = item[x].key, p.lru = l, to # None => "LINKED" \in p.flags,
           NEW m, Stopped(p, l, to, m),
           NEW P, P = [Places EXCEPT ![x] = m], Good(q', P, enabled, remaining)
    PROVE  IInv'
<1>1. PICK r, h, n, k : /\ r = th[t] /\ h = held[x] /\ n = Cardinality(Bumps(x)) /\ k = item[x].key
  OBVIOUS
<1>2. /\ r.pc = "walk" /\ Quiet(r) /\ Away(r)
      /\ x \in Items /\ l \in Lrus /\ k \in Keys /\ lru_lock[l] = t /\ lock[k] = None /\ Place(x) = l
      /\ Alone(x, t) /\ h \in Nat /\ n \in Nat
  BY <1>1, AtItemIs
<1>3. /\ IsThread(s) /\ s.pc = "pulled" /\ s.key = r.key /\ s.it = x /\ s.own = r.own
      /\ s.search = None /\ s.move = to /\ to \in Lrus \cup {None}
      /\ th' = [th EXCEPT ![t] = s] /\ lock' = [lock EXCEPT ![k] = t]
      /\ lru_lock' = [lru_lock EXCEPT ![l] = None]
      /\ held' = held /\ buf' = buf /\ crawlVars' = crawlVars
  BY <1>1 DEF StopFrame
<1>4. s.own = 0 /\ (t \in Workers => s.key \in Keys) /\ r.own = 0
  BY <1>1, <1>2, <1>3, PullerIs DEF Quiet
<1>5. th'[t] = s /\ item'[x] = p
  BY <1>2, <1>3, ThreadTyped, ItemTyped
<1>6. Locks(t) /\ lock'[k] = t /\ LruLocks(t)
  <2>1. t \in Threads /\ t \in Pullers
    BY PullerIs
  <2>2. Locks(t) /\ lock'[k] = t
    BY ONLY IInv, <1>2, <1>3, <2>1, LockStep
  <2>3. LruLocks(t)
    BY ONLY IInv, <1>2, <1>3, <2>1, LruLockStep
  <2> QED BY <2>2, <2>3
<1>7. Fits(t, s, P)
  <2>1. t \in Workers => WorkerOK(t)'
    BY <1>3, <1>4, <1>5, WorkerAway
  <2> QED BY <1>1, <1>2, <1>3, <1>4, <1>5, <1>6, <2>1 DEF Fits, Strolls, Pulls, Maintains
<1>8. Others(t, x, s)
  <2>1. \A y \in Items \ {x} : SameRec(r, s, y)
    <3>1. None \notin Items
      BY Constants DEF Nodes
    <3> QED BY ONLY <1>2, <1>3, <1>4, <3>1 DEF SameRec, UnlR, LnkR, MovR, HldR
  <2> QED BY <1>1, <1>2, <1>3, <1>6, <2>1 DEF Others
<1>9. /\ HoldOf(s, x) = 1
      /\ LinkOf(p.flags, s, x) = IF "LINKED" \in p.flags THEN 1 ELSE 0
      /\ PlaceIn(p.flags, s, x, p.lru) = IF "LINKED" \in p.flags /\ to = None THEN p.lru ELSE None
  BY ONLY <1>3, <1>4 DEF LinkOf, HoldOf, PlaceIn, UnlR, LnkR, MovR, HldR
<1>10. Refers(x, p, s, h)
  <2>1. p.ref = (IF "LINKED" \in p.flags THEN 1 ELSE 0) + h + 1 + n
    BY <1>1 DEF CountedHere
  <2> QED BY ONLY <1>1, <1>2, <1>9, <2>1 DEF Refers
<1>11. Puts(t, x, p, s, m)
  <2>1. m = PlaceIn(p.flags, s, x, p.lru)
    BY <1>9 DEF Stopped
  <2> QED BY <1>2, <2>1 DEF Puts
<1>12. held' = [held EXCEPT ![x] = h]
  BY <1>1, <1>2, <1>3, SameHeld
<1> QED BY ONLY IInv, t \in Pullers, p \in ItemRecords, item' = [item EXCEPT ![x] = p], Hash(x, p),
                P = [Places EXCEPT ![x] = m], Good(q', P, enabled, remaining),
                <1>2, <1>7, <1>8, <1>10, <1>11, <1>12, ItemStep

\* The walk evicts the item it stops at.
Evicts(t) == th[t].lru = COLD /\ "EVICT" \in th[t].flags

LEMMA MovesToIs ==
    ASSUME NEW l \in Lrus, NEW fl, NEW a \in BOOLEAN, NEW to, to \in MovesTo(l, fl, a)
    PROVE  /\ to \in Lrus \cup {None}
           /\ l = COLD /\ "EVICT" \in fl => to = None
<1>1. l = HOT \/ l = WARM \/ l = COLD \/ l = TEMP
  BY Constants
<1>2. HOT \in Lrus /\ WARM \in Lrus /\ COLD \in Lrus /\ TEMP \in Lrus
  BY Constants
<1>3. CASE l = HOT
  BY <1>2, <1>3, LruNames DEF MovesTo
<1>4. CASE l = WARM
  BY <1>2, <1>4, LruNames DEF MovesTo
<1>5. CASE l = COLD
  BY <1>2, <1>5, LruNames DEF MovesTo
<1>6. CASE l = TEMP
  BY <1>2, <1>6, LruNames DEF MovesTo
<1> QED BY <1>1, <1>3, <1>4, <1>5, <1>6

LEMMA Step_WalkStops ==
    ASSUME IInv, NEW t \in Pullers, WalkStops(t)
    PROVE  IInv'
<1>1. PICK x, l, k, h, n, r, p0 :
        /\ x = th[t].search /\ l = th[t].lru /\ k = item[x].key /\ h = held[x]
        /\ n = Cardinality(Bumps(x)) /\ r = th[t] /\ p0 = refcount_incr(item[x])
  OBVIOUS
<1>2. AtItem(t)
  BY DEF WalkStops
<1>3. /\ x \in Items /\ l \in Lrus /\ k \in Keys /\ lru_lock[l] = t /\ lock[k] = None
      /\ Place(x) = l /\ item[x].lru = l /\ "LINKED" \in item[x].flags /\ table[k] = x
      /\ h \in Nat /\ n \in Nat /\ item[x].ref = 1 + h + n
      /\ item[x] \in ItemRecords
  BY <1>1, <1>2, AtItemIs
<1>4. PICK to :
        /\ to \in MovesTo(l, r.flags, "ACTIVE" \in item[x].flags)
        /\ th' = [th EXCEPT ![t].pc = "pulled", ![t].it = x, ![t].move = to,
                            ![t].search = None, ![t].tries = 0,
                            ![t].removed = IF Evicts(t) \/ to # None THEN 1 ELSE @]
        /\ Evicts(t) => /\ do_item_unlink_nolock(x)
                    /\ item' = [item EXCEPT ![x] = do_item_remove(MarkUnlinked(p0))]
        /\ ~Evicts(t) => /\ q' = IF to = None THEN q ELSE do_item_unlink_q(x, l)
                     /\ item' = [item EXCEPT ![x] = IF to = None THEN p0 ELSE MarkInactive(p0)]
                     /\ table' = table
  BY <1>1 DEF WalkStops, Evicts
<1>5. /\ to \in Lrus \cup {None}
      /\ Evicts(t) => to = None
  <2>1. PICK fl, a : fl = r.flags /\ a = ("ACTIVE" \in item[x].flags)
    OBVIOUS
  <2>2. a \in BOOLEAN /\ to \in MovesTo(l, fl, a)
    BY <1>4, <2>1
  <2>3. to \in Lrus \cup {None} /\ (l = COLD /\ "EVICT" \in fl => to = None)
    BY ONLY <1>3, <2>2, MovesToIs
  <2> QED BY <1>1, <2>1, <2>3 DEF Evicts
<1>6. PICK s : StopFrame(t, x, to, s)
  <2>1. PICK rem : rem = IF Evicts(t) \/ to # None THEN 1 ELSE r.removed
    OBVIOUS
  <2>2. PICK s : s = Stop(r, x, to, rem)
    OBVIOUS
  <2>3. th' = [th EXCEPT ![t] = s]
    BY <1>1, <1>4, <2>1, <2>2 DEF Stop
  <2>4. /\ IsThread(s) /\ s.pc = "pulled" /\ s.key = r.key /\ s.it = x /\ s.own = r.own
        /\ s.search = None /\ s.move = to
    <3>1. IsThread(r)
      BY <1>1, PullerIs
    <3> QED BY ONLY <2>2, <3>1, StopRecord
  <2>5. /\ lock' = [lock EXCEPT ![k] = t] /\ lru_lock' = [lru_lock EXCEPT ![l] = None]
        /\ held' = held /\ buf' = buf /\ crawlVars' = crawlVars
    BY <1>1 DEF WalkStops
  <2> QED BY <1>1, <1>5, <2>3, <2>4, <2>5 DEF StopFrame
<1>7. IsPlaces(Places) /\ Places[x] = l /\ Good(q, Places, enabled, remaining) /\ remaining \in [Lrus -> Nat]
  BY <1>3, PlacesAre DEF IInv, ListsInv, Types
<1>8. Good(do_item_unlink_q(x, l), [Places EXCEPT ![x] = None], enabled, remaining)
  BY ONLY <1>3, <1>7, UnlinkGood
<1>9. /\ p0 \in ItemRecords /\ p0.key = k /\ p0.lru = l /\ p0.flags = item[x].flags
      /\ p0.ref = 2 + h + n /\ p0.ref # 0
  <2>1. /\ p0 \in ItemRecords /\ p0.key = item[x].key /\ p0.lru = item[x].lru /\ p0.flags = item[x].flags
        /\ p0.ref = item[x].ref + 1 /\ p0.ref # 0
    BY ONLY <1>1, <1>3, Increments
  <2> QED BY ONLY <1>1, <1>3, <2>1
<1>10. AtItem(t) /\ x = th[t].search /\ l = th[t].lru
  BY ONLY <1>1, <1>2
<1>11. CASE Evicts(t)
  <2>1. PICK p1, p, m, P : /\ p1 = MarkUnlinked(p0) /\ p = do_item_remove(p1) /\ m = None
                           /\ P = [Places EXCEPT ![x] = m]
    OBVIOUS
  <2>2. /\ q' = do_item_unlink_q(x, l) /\ table' = [table EXCEPT ![k] = None]
        /\ item' = [item EXCEPT ![x] = p]
    BY <1>1, <1>3, <1>4, <1>11, <2>1 DEF do_item_unlink_nolock
  <2>3. /\ p1 \in ItemRecords /\ p1.key = k /\ p1.lru = l /\ p1.ref = p0.ref /\ "LINKED" \notin p1.flags
    BY ONLY <1>9, <2>1, Unlinks
  <2>4. /\ p \in ItemRecords /\ p.ref = 1 + h + n /\ p.key = k /\ p.lru = l /\ "LINKED" \notin p.flags
        /\ (p = Free \/ (p.ref # 0 /\ p.key \in Keys))
    <3>1. p1.ref # 0 /\ p1.ref # 1
      BY ONLY <1>3, <1>9, <2>3
    <3>2. /\ p \in ItemRecords /\ p.ref = p1.ref - 1
          /\ (p = Free \/ (p.ref # 0 /\ p.key \in Keys))
          /\ p.key = p1.key /\ p.lru = p1.lru /\ p.flags = p1.flags
      BY ONLY <1>3, <2>1, <2>3, <3>1, Removed
    <3> QED BY ONLY <1>3, <1>9, <2>3, <3>2
  <2>5. Tables(t, x) /\ table'[k] = None /\ \A j \in Keys \ {k} : table'[j] = table[j]
    BY <1>3, <2>2, TableStep
  <2>6. Hash(x, p)
    BY <1>3, <2>4, <2>5, HashCut
  <2>7. Good(q', P, enabled, remaining)
    BY ONLY <1>8, <2>1, <2>2
  <2>8. CountedHere(p, x) /\ Stopped(p, l, to, m)
    BY ONLY <1>1, <1>3, <2>1, <2>4 DEF CountedHere, Stopped
  <2>9. /\ Tables(t, x) /\ p \in ItemRecords /\ p.key = item[x].key /\ p.lru = l
        /\ to # None => "LINKED" \in p.flags
        /\ item' = [item EXCEPT ![x] = p] /\ P = [Places EXCEPT ![x] = m]
    BY ONLY <1>1, <1>5, <1>11, <2>1, <2>2, <2>4, <2>5
  <2> QED BY ONLY IInv, t \in Pullers, <1>6, <1>10, <2>6, <2>7, <2>8, <2>9, StopStep
<1>12. CASE ~Evicts(t)
  <2>1. PICK p, m, P : /\ p = IF to = None THEN p0 ELSE MarkInactive(p0)
                       /\ m = IF to = None THEN l ELSE None
                       /\ P = [Places EXCEPT ![x] = m]
    OBVIOUS
  <2>2. /\ q' = (IF to = None THEN q ELSE do_item_unlink_q(x, l)) /\ table' = table
        /\ item' = [item EXCEPT ![x] = p]
    BY <1>1, <1>4, <1>12, <2>1
  <2>3. /\ p \in ItemRecords /\ p.ref = 2 + h + n /\ p.key = k /\ p.lru = l /\ "LINKED" \in p.flags
    <3>1. CASE to = None
      BY ONLY <1>3, <1>9, <2>1, <3>1
    <3>2. CASE to # None
      <4>1. p = MarkInactive(p0)
        BY <2>1, <3>2
      <4>2. /\ p \in ItemRecords /\ p.key = p0.key /\ p.lru = p0.lru /\ p.ref = p0.ref
            /\ "LINKED" \in p.flags <=> "LINKED" \in p0.flags
        BY ONLY <1>9, <4>1, Inactivates
      <4> QED BY ONLY <1>3, <1>9, <4>2
    <3> QED BY <3>1, <3>2
  <2>4. Tables(t, x)
    BY <2>2, TableSame
  <2>5. Hash(x, p)
    <3>1. p.ref # 0
      BY ONLY <1>3, <2>3
    <3> QED BY <1>1, <1>3, <2>2, <2>3, <3>1, HashKept
  <2>6. Good(q', P, enabled, remaining)
    <3>1. to = None => P = Places /\ q' = q
      BY <1>3, <2>1, <2>2 DEF Places
    <3>2. to # None => P = [Places EXCEPT ![x] = None] /\ q' = do_item_unlink_q(x, l)
      BY <2>1, <2>2
    <3> QED BY ONLY <1>7, <1>8, <3>1, <3>2
  <2>7. CountedHere(p, x) /\ Stopped(p, l, to, m)
    BY ONLY <1>1, <1>3, <2>1, <2>3 DEF CountedHere, Stopped
  <2>8. /\ p.key = item[x].key /\ p.lru = l /\ "LINKED" \in p.flags /\ p \in ItemRecords
        /\ item' = [item EXCEPT ![x] = p] /\ P = [Places EXCEPT ![x] = m]
    BY ONLY <1>1, <2>1, <2>2, <2>3
  <2> QED BY ONLY IInv, t \in Pullers, <1>6, <1>10, <2>4, <2>5, <2>6, <2>7, <2>8, StopStep
<1> QED BY <1>11, <1>12

\* An item that is in another list from here on.
To(z, l) == [z EXCEPT !.lru = l]

LEMMA Changes ==
    ASSUME NEW z, z \in ItemRecords, NEW l, l \in Lrus, NEW p, p = To(z, l)
    PROVE  p \in ItemRecords /\ p.key = z.key /\ p.lru = l /\ p.ref = z.ref /\ p.flags = z.flags
<1>1. IsItem(z) /\ z.ref \in Nat /\ z.flags \in FlagSets
  BY RecordFields
<1>2. PICK k, j, f, m, e : k = z.key /\ j = z.lru /\ f = z.flags /\ m = z.ref /\ e = z.expired
  OBVIOUS
<1>3. z = [key |-> k, lru |-> j, flags |-> f, ref |-> m, expired |-> e]
  BY <1>1, <1>2 DEF IsItem
<1>4. p = [key |-> k, lru |-> l, flags |-> f, ref |-> m, expired |-> e]
  BY ONLY <1>3, p = To(z, l) DEF To
<1>5. p = Rec(z, l, z.flags, z.ref)
  BY ONLY <1>2, <1>4 DEF Rec
<1> QED BY ONLY <1>1, <1>5, RecOK, z \in ItemRecords, l \in Lrus

LEMMA Step_Pulled ==
    ASSUME IInv, NEW t \in Pullers, Pulled(t)
    PROVE  IInv'
<1>1. PICK x, to, k, f, n, h, r, s, z :
        /\ x = th[t].it /\ to = th[t].move /\ k = item[x].key /\ f = item[x].flags
        /\ n = Cardinality(Bumps(x)) /\ h = held[x] /\ r = th[t] /\ s = Returned(t)
        /\ z = item[x]
  OBVIOUS
<1>2. /\ r.pc = "pulled" /\ lock' = [lock EXCEPT ![k] = None] /\ th' = [th EXCEPT ![t] = s]
      /\ table' = table /\ held' = held /\ lru_lock' = lru_lock /\ buf' = buf /\ crawlVars' = crawlVars
  BY <1>1 DEF Pulled
<1>3. /\ t \in Threads /\ r.own = 0 /\ Away(r) /\ x \in Items /\ k \in Keys /\ lock[k] = t
      /\ to \in Lrus \cup {None} /\ (to # None => "LINKED" \in f)
  BY <1>1, <1>2, PullerIs DEF PullerOK, Owns, Away
<1>4. /\ IsThread(s) /\ s.pc \in {"idle", "alloc", "evicted0"} /\ s.own = 0 /\ Quiet(s)
      /\ t = Maintainer => s.pc = "idle"
      /\ s.pc = "idle" \/ s.key \in Keys
  BY <1>1, <1>2, ReturnedIs
<1>5. Alone(x, t)
  <2>1. Hld(t, x)
    BY <1>1, <1>2 DEF Hld, HldR
  <2> QED BY <1>1, <1>3, <2>1, AloneWhen
<1>6. z \in ItemRecords /\ z.ref \in Nat /\ h \in Nat /\ z.lru \in Lrus
  BY <1>1, <1>3, ItemFields
<1>7. /\ n \in Nat /\ Place(x) = PlaceIn(f, r, x, z.lru)
      /\ z.ref = LinkOf(f, r, x) + h + HoldOf(r, x) + n
  BY <1>1, <1>3, <1>5, Refs
<1>8. /\ HoldOf(r, x) = 1 /\ LinkOf(f, r, x) = (IF "LINKED" \in f THEN 1 ELSE 0)
      /\ PlaceIn(f, r, x, z.lru) = IF "LINKED" \in f /\ to = None THEN z.lru ELSE None
  BY ONLY <1>1, <1>2, <1>3 DEF LinkOf, HoldOf, PlaceIn, UnlR, LnkR, MovR, HldR
<1>9. /\ z.ref # 0 /\ ("LINKED" \in f => z.ref # 1)
      /\ z.ref = (IF "LINKED" \in f THEN 1 ELSE 0) + h + 1 + n
      /\ Place(x) = IF "LINKED" \in f /\ to = None THEN z.lru ELSE None
  BY ONLY <1>6, <1>7, <1>8
<1>10. PICK z0, p, l, m, P : /\ z0 = (IF to = None THEN z ELSE To(z, to))
                             /\ p = do_item_remove(z0) /\ l = z0.lru
                             /\ m = (IF "LINKED" \in f THEN l ELSE None) /\ P = [Places EXCEPT ![x] = m]
  OBVIOUS
<1>11. /\ item' = [item EXCEPT ![x] = p]
       /\ q' = IF to = None THEN q ELSE do_item_link_q(x, to)
  BY <1>1, <1>10 DEF Pulled, To
<1>12. /\ z0 \in ItemRecords /\ z0.ref = z.ref /\ z0.key = k /\ z0.flags = f /\ l \in Lrus
       /\ l = IF to = None THEN z.lru ELSE to
  <2>1. CASE to = None
    BY ONLY <1>1, <1>6, <1>10, <2>1
  <2>2. CASE to # None
    <3>1. to \in Lrus /\ z0 = To(z, to)
      BY <1>3, <1>10, <2>2
    <3>2. z0 \in ItemRecords /\ z0.key = z.key /\ z0.lru = to /\ z0.ref = z.ref /\ z0.flags = z.flags
      BY ONLY <1>6, <3>1, Changes
    <3> QED BY ONLY <1>1, <1>10, <2>2, <3>1, <3>2
  <2> QED BY <2>1, <2>2
<1>13. /\ p \in ItemRecords /\ p.ref = z.ref - 1
       /\ p = Free \/ (p.ref # 0 /\ p.key \in Keys)
       /\ "LINKED" \in p.flags <=> "LINKED" \in f
       /\ z.ref # 1 => p.key = k /\ p.lru = l /\ p.flags = f
       /\ z.ref = 1 => p.flags = {}
  <2>1. z0.ref # 0 /\ z0.key \in Keys
    BY <1>3, <1>9, <1>12
  <2>2. /\ p \in ItemRecords /\ p.ref = z0.ref - 1
        /\ p = Free \/ (p.ref # 0 /\ p.key \in Keys)
        /\ z0.ref # 1 => p.key = z0.key /\ p.lru = z0.lru /\ p.flags = z0.flags
        /\ z0.ref = 1 => p.flags = {}
    BY ONLY <1>10, <1>12, <2>1, Removed
  <2> QED BY ONLY <1>9, <1>10, <1>12, <2>2
<1>14. /\ HoldOf(s, x) = 0
       /\ "LINKED" \in p.flags => LinkOf(p.flags, s, x) = 1 /\ PlaceIn(p.flags, s, x, p.lru) = p.lru
       /\ "LINKED" \notin p.flags => LinkOf(p.flags, s, x) = 0 /\ PlaceIn(p.flags, s, x, p.lru) = None
  BY <1>4, QuietRels
<1>15. Refers(x, p, s, h)
  <2>1. LinkOf(p.flags, s, x) = IF "LINKED" \in f THEN 1 ELSE 0
    BY ONLY <1>13, <1>14
  <2>2. p.ref = (IF "LINKED" \in f THEN 1 ELSE 0) + h + n
    BY ONLY <1>6, <1>7, <1>9, <1>13
  <2> QED BY ONLY <1>1, <1>6, <1>7, <1>14, <2>1, <2>2 DEF Refers
<1>16. Puts(t, x, p, s, m)
  <2>1. m = PlaceIn(p.flags, s, x, p.lru)
    BY ONLY <1>9, <1>10, <1>13, <1>14
  <2>2. \A j \in Lrus : Place(x) = j => m = j
    <3>1. None \notin Lrus
      BY Constants DEF Nodes
    <3> QED BY ONLY <1>9, <1>10, <1>12, <3>1
  <2> QED BY ONLY <2>1, <2>2 DEF Puts
<1>17. Good(q', P, enabled, remaining)
  <2>1. IsPlaces(Places) /\ Places[x] = Place(x) /\ Good(q, Places, enabled, remaining)
    BY <1>3, PlacesAre DEF IInv, ListsInv
  <2>2. CASE to = None
    <3>1. m = Place(x) /\ q' = q
      BY ONLY <1>9, <1>10, <1>11, <1>12, <2>2
    <3> QED BY ONLY IInv, <1>3, <1>10, <3>1, SamePlace
  <2>3. CASE to # None
    <3>1. Places[x] = None /\ l = to /\ q' = do_item_link_q(x, l) /\ P = [Places EXCEPT ![x] = l]
      BY ONLY <1>3, <1>9, <1>10, <1>11, <1>12, <2>1, <2>3
    <3>2. Good(do_item_link_q(x, l), [Places EXCEPT ![x] = l], enabled, remaining)
      BY ONLY <1>3, <1>12, <2>1, <3>1, LinkGood
    <3> QED BY ONLY <3>1, <3>2
  <2> QED BY <2>2, <2>3
<1>18. Hash(x, p)
  <2>1. CASE z.ref = 1
    <3>1. "LINKED" \notin p.flags /\ "LINKED" \notin f
      BY <1>9, <1>13, <2>1
    <3> QED BY <1>1, <1>2, <1>3, <1>13, <3>1, Hashed DEF Hash
  <2>2. CASE z.ref # 1
    BY <1>1, <1>2, <1>3, <1>13, <2>2, HashKept
  <2> QED BY <2>1, <2>2
<1>19. Locks(t) /\ LruLocks(t) /\ Tables(t, x)
  BY <1>2, <1>3, LockStep, LruLockSame, TableSame
<1>20. Others(t, x, s)
  <2>1. \A y \in Items \ {x} : SameRec(r, s, y)
    <3>1. None \notin Items /\ s.pc \notin {"unlink", "replace", "store", "link", "linked", "pulled"}
      BY <1>4, Constants DEF Nodes
    <3> QED BY ONLY <1>1, <1>2, <1>3, <1>4, <3>1 DEF SameRec, UnlR, LnkR, MovR, HldR
  <2> QED BY <1>1, <1>2, <1>3, <1>4, <1>19, <2>1 DEF Others
<1>21. Fits(t, s, P)
  <2>1. th'[t] = s
    BY <1>2, <1>4, ThreadTyped
  <2> QED BY <1>4, <2>1, FitsBack
<1>22. held' = [held EXCEPT ![x] = h] /\ h \in Nat
  BY <1>1, <1>2, <1>3, SameHeld
<1>23. P = [Places EXCEPT ![x] = m] /\ p \in ItemRecords /\ x \in Items
  BY <1>3, <1>10, <1>13
<1> QED BY ONLY IInv, t \in Pullers, <1>5, <1>11, <1>15, <1>16, <1>17, <1>18, <1>20, <1>21, <1>22, <1>23,
                ItemStep

-----------------------------------------------------------------------------
(* Steps in which the threads stay where they are.                         *)

LEMMA Step_Expire ==
    ASSUME IInv, NEW x \in Items, Expire(x)
    PROVE  IInv'
<1>1. PICK z, p : z = item[x] /\ p = item'[x]
  OBVIOUS
<1>2. /\ UNCHANGED <<q, table, held, lock, lru_lock, th, buf, crawlVars>>
      /\ "LINKED" \in z.flags /\ item' = [item EXCEPT ![x] = [z EXCEPT !.expired = TRUE]]
  BY <1>1 DEF Expire
<1>3. z \in ItemRecords /\ z.ref \in Nat /\ DOMAIN item = Items
  BY <1>1, ItemFields
<1>4. p = [z EXCEPT !.expired = TRUE]
  BY <1>1, <1>2, <1>3
<1>5. /\ p \in ItemRecords /\ p.key = z.key /\ p.lru = z.lru /\ p.flags = z.flags /\ p.ref = z.ref
  <2>1. IsItem(z) /\ z.key \in Keys \cup {None} /\ z.lru \in Lrus /\ z.flags \in FlagSets
    BY <1>3, RecordFields
  <2>2. PICK k, j, f, m, e : k = z.key /\ j = z.lru /\ f = z.flags /\ m = z.ref /\ e = z.expired
    OBVIOUS
  <2>3. z = [key |-> k, lru |-> j, flags |-> f, ref |-> m, expired |-> e]
    BY <2>1, <2>2 DEF IsItem
  <2>4. p = [key |-> k, lru |-> j, flags |-> f, ref |-> m, expired |-> TRUE]
    BY ONLY <1>4, <2>3
  <2> QED BY ONLY <1>3, <2>1, <2>2, <2>4 DEF ItemRecords
<1>6. /\ item' \in [Items -> ItemRecords] /\ \A y \in Items \ {x} : item'[y] = item[y]
  BY <1>2, <1>4, <1>5, ItemTyped
<1>7. SameItem(x)
  BY <1>1, <1>5 DEF SameItem
<1>8. /\ Crawler \in Threads /\ Crawler \notin Pullers /\ Crawler # Maintainer /\ Crawler \notin Workers
  BY Constants DEF Threads
<1>9. /\ q' = q /\ table' = table /\ held' = held /\ lock' = lock /\ lru_lock' = lru_lock /\ th' = th
      /\ buf' = buf /\ enabled' = enabled /\ remaining' = remaining /\ c' = c /\ starting' = starting
      /\ crawlVars' = crawlVars
  BY <1>2 DEF crawlVars
<1>10. \A y : Bumps(y)' = Bumps(y)
  BY <1>9 DEF Bumps
<1>11. \A y : /\ Unlinking(y)' <=> Unlinking(y)
              /\ Linking(y)' <=> Linking(y)
              /\ Moving(y)' <=> Moving(y)
              /\ Holders(y)' = Holders(y)
  BY <1>9 DEF Unlinking, Linking, Moving, Holders, Entry
<1>12. Types'
  BY <1>6, <1>9, TypesOf DEF IInv, Types, ThreadsTyped
<1>13. Frame(x, Crawler)
  <2>1. \A y \in Items \ {x} : SameRel(Crawler, y)
    BY <1>8, <1>9 DEF SameRel, Unl, Lnk, Mov, Hld, Evals, Threads
  <2>2. \A w \in Workers : buf[w].a_end \in Nat
    BY Buffers
  <2> QED BY <1>6, <1>7, <1>9, <1>10, <2>1, <2>2 DEF Frame
<1>14. EvalOK'
  <2>1. EvalOK
    BY DEF IInv, ThreadsOK
  <2>2. \A y \in Items : SameItem(y)
    BY <1>6, <1>7 DEF SameItem
  <2> QED BY <1>9, <2>1, <2>2 DEF EvalOK, Owns, SameItem
<1>15. StartingOK'
  BY <1>9 DEF IInv, ThreadsOK, StartingOK
<1>16. Place(x)' = Place(x)
  BY <1>7, <1>11 DEF Place, SameItem
<1>17. ItemOK(x)'
  <2>1. z.ref # 0
    BY <1>1, <1>2, Hashed
  <2>2. ItemOK(x)
    BY DEF IInv
  <2> QED BY <1>1, <1>5, <1>9, <2>1, <2>2 DEF ItemOK
<1>18. Exact(x)'
  <2>1. Exact(x)
    BY DEF IInv
  <2>2. LinkRef(x)' = LinkRef(x)
    BY <1>7, <1>11 DEF LinkRef, SameItem
  <2> QED BY <1>7, <1>9, <1>10, <1>11, <2>1, <2>2 DEF Exact, SameItem
<1>19. \A k \in Keys : table'[k] = x => TableOK(k)'
  BY <1>7, <1>9 DEF IInv, TableOK, SameItem
<1>20. MaintainerOK'
  BY <1>8, <1>12, <1>13, MaintainerKept
<1>21. Good(q', Places', enabled', remaining')
  <2>1. Places' = [Places EXCEPT ![x] = Place(x)']
    BY <1>8, <1>13, <1>20, PlacesStep
  <2>2. Places' = Places
    BY <1>16, <2>1 DEF Places
  <2> QED BY <1>9, <2>2 DEF IInv, ListsInv
<1>22. PlaceKept(x, Crawler)
  BY <1>16 DEF PlaceKept
<1>23. \A w \in Workers : BufferOK(buf'[w])
  BY <1>9 DEF IInv
<1> QED BY <1>8, <1>12, <1>13, <1>14, <1>15, <1>17, <1>18, <1>19, <1>21, <1>22, <1>23, Preserved

LEMMA Step_do_item_get ==
    ASSUME IInv, NEW w \in Workers, NEW k \in Keys, do_item_get(w, k)
    PROVE  IInv'
<1>1. PICK x : x = table[k]
  OBVIOUS
<1>2. /\ x \in Items /\ item[x].key = k /\ "LINKED" \in item[x].flags
      /\ \E fl, d :
           /\ item' = [item EXCEPT ![x] = Rec(item[x], item[x].lru, fl, item[x].ref + 1 + d)]
           /\ fl \in FlagSets /\ "LINKED" \in fl
           /\ Bumping(w, x, d)
  BY <1>1, GetItem
<1>3. PICK fl, d : /\ item' = [item EXCEPT ![x] = Rec(item[x], item[x].lru, fl, item[x].ref + 1 + d)]
                   /\ fl \in FlagSets /\ "LINKED" \in fl
                   /\ Bumping(w, x, d)
  BY <1>2
<1>4. PICK z, l, m, p, h, g, n, r :
        /\ z = item[x] /\ l = item[x].lru /\ m = item[x].ref + 1 + d /\ p = Rec(z, l, fl, m)
        /\ h = held[x] /\ g = held[x] + 1 /\ n = Cardinality(Bumps(x)) /\ r = th[w]
  OBVIOUS
<1>5. /\ r.pc = "idle" /\ lock[k] = None /\ held' = [held EXCEPT ![x] = g]
      /\ q' = q /\ table' = table /\ lock' = lock /\ lru_lock' = lru_lock /\ th' = th
      /\ crawlVars' = crawlVars
  BY <1>1, <1>4 DEF do_item_get, Begins
<1>6. enabled' = enabled /\ remaining' = remaining /\ c' = c /\ starting' = starting
  BY <1>5 DEF crawlVars
<1>7. /\ w \in Pullers /\ w \in Threads /\ w # Maintainer /\ w # None /\ r.own = 0 /\ WorkerOK(w)
      /\ w # Crawler
  BY <1>4, <1>5, WorkerIs, PullerIs
<1>8. /\ z \in ItemRecords /\ z.ref \in Nat /\ l \in Lrus /\ h \in Nat /\ n \in Nat /\ z.ref # 0
      /\ l = z.lru /\ z.key = k
  BY <1>2, <1>4, ItemFields, Counts, Hashed
<1>9. /\ d \in {0, 1} /\ Cardinality(Bumps(x)') = n + d
      /\ buf' \in [Workers -> BufferRecords] /\ \A v \in Workers : BufferOK(buf'[v])
      /\ \A v \in Workers : /\ buf'[v].a_start = buf[v].a_start /\ buf[v].a_end <= buf'[v].a_end
                            /\ \A i \in buf[v].a_start .. buf[v].a_end - 1 :
                                 buf'[v].data[i] = buf[v].data[i]
      /\ \A y \in Items \ {x} : Bumps(y)' = Bumps(y)
  BY <1>3, <1>4 DEF Bumping
<1>10. m \in Nat /\ m # 0 /\ m = z.ref + 1 + d /\ g \in Nat /\ g = h + 1
  BY ONLY <1>4, <1>8, <1>9
<1>11. p \in ItemRecords /\ p.key = k /\ p.lru = l /\ p.flags = fl /\ p.ref = m
  BY ONLY <1>3, <1>4, <1>8, <1>10, RecOK
<1>12. /\ item' \in [Items -> ItemRecords] /\ item'[x] = p
       /\ \A y \in Items \ {x} : item'[y] = item[y]
  BY <1>2, <1>3, <1>4, <1>11, ItemTyped
<1>13. /\ held' \in [Items -> Nat] /\ held'[x] = g
       /\ \A y \in Items \ {x} : held'[y] = held[y]
  BY <1>2, <1>5, <1>10, HeldTyped
<1>14. Types'
  BY <1>5, <1>9, <1>12, <1>13, TypesOf DEF IInv, Types, ThreadsTyped
<1>15. Alone(x, w)
  BY <1>2, <1>5, <1>7, AloneWhen
<1>16. \A y : SameRel(w, y)
  BY <1>5, <1>7 DEF SameRel, Unl, Lnk, Mov, Hld
<1>17. Frame(x, w)
  BY <1>5, <1>6, <1>7, <1>9, <1>12, <1>13, <1>15, <1>16 DEF Frame
<1>18. MaintainerOK'
  BY <1>7, <1>14, <1>17, MaintainerKept
<1>19. WorkerOK(w)' /\ PullerOK(w)'
  BY <1>4, <1>5, <1>7 DEF WorkerOK, PullerOK
<1>20. StartingOK'
  BY <1>5, <1>6 DEF IInv, ThreadsOK, StartingOK
<1>21. ~Unl(w, x) /\ ~Lnk(w, x) /\ ~Mov(w, x) /\ ~Hld(w, x)
  BY <1>4, <1>5, <1>7 DEF Unl, Lnk, Mov, Hld, UnlR, LnkR, MovR, HldR
<1>22. ~Unl(w, x)' /\ ~Lnk(w, x)' /\ ~Mov(w, x)' /\ ~Hld(w, x)'
  BY <1>16, <1>21 DEF SameRel
<1>23. /\ item[x].ref = LinkNum(item[x].flags, Unl(w, x), Lnk(w, x)) + held[x]
                        + Num(Hld(w, x)) + Cardinality(Bumps(x))
       /\ item'[x].ref = LinkNum(item'[x].flags, Unl(w, x)', Lnk(w, x)') + held'[x]
                         + Num(Hld(w, x)') + Cardinality(Bumps(x)') => Exact(x)'
       /\ Place(x) = PlaceOf(item[x].flags, Unl(w, x), Mov(w, x), item[x].lru)
       /\ Place(x)' = PlaceOf(item'[x].flags, Unl(w, x)', Mov(w, x)', item'[x].lru)
  BY <1>2, <1>7, <1>15, <1>17, <1>18, Touched
<1>24. /\ LinkNum(item[x].flags, Unl(w, x), Lnk(w, x)) = 1 /\ Num(Hld(w, x)) = 0
       /\ LinkNum(item'[x].flags, Unl(w, x)', Lnk(w, x)') = 1 /\ Num(Hld(w, x)') = 0
  BY <1>2, <1>3, <1>11, <1>12, <1>21, <1>22 DEF LinkNum, Num
<1>25. Exact(x)'
  <2>1. z.ref = 1 + h + 0 + n
    BY <1>4, <1>23, <1>24
  <2>2. p.ref = 1 + g + 0 + (n + d)
    BY ONLY <1>8, <1>9, <1>10, <1>11, <2>1
  <2> QED BY <1>9, <1>12, <1>13, <1>23, <1>24, <2>2
<1>26. Place(x)' = Place(x)
  BY <1>2, <1>3, <1>4, <1>11, <1>12, <1>21, <1>22, <1>23 DEF PlaceOf
<1>27. ItemOK(x)'
  BY <1>1, <1>5, <1>10, <1>11, <1>12 DEF ItemOK
<1>28. \A j \in Keys : table'[j] = x => TableOK(j)'
  <2>1. \A j \in Keys : table[j] = x => j = k
    BY <1>2, Hashed
  <2> QED BY <1>2, <1>3, <1>5, <1>11, <1>12, <2>1 DEF TableOK
<1>29. Good(q', Places', enabled', remaining')
  <2>1. Places' = [Places EXCEPT ![x] = Place(x)']
    BY <1>2, <1>7, <1>17, <1>18, PlacesStep
  <2>2. Places' = Places
    BY <1>26, <2>1 DEF Places
  <2> QED BY <1>5, <1>6, <2>2 DEF IInv, ListsInv
<1>30. PlaceKept(x, w)
  BY <1>26 DEF PlaceKept
<1> QED BY <1>7, <1>9, <1>14, <1>17, <1>18, <1>19, <1>20, <1>25, <1>27, <1>28, <1>29, <1>30, Preserved

-----------------------------------------------------------------------------
(* lru_maintainer_bumps.                                                   *)

LEMMA PairIn ==
    ASSUME NEW y, NEW v \in Workers, NEW j \in 0 .. BumpSize - 1
    PROVE  <<v, j>> \in Bumps(y) <=>
             /\ buf[v].data[j] = y
             /\ ~(/\ th[Maintainer].pc \in {"bump", "bumped"} /\ th[Maintainer].buf = v
                  /\ j \in buf[v].a_start .. th[Maintainer].at - 1)
BY DEF Bumps

LEMMA PairInNext ==
    ASSUME NEW y, NEW v \in Workers, NEW j \in 0 .. BumpSize - 1
    PROVE  <<v, j>> \in Bumps(y)' <=>
             /\ buf'[v].data[j] = y
             /\ ~(/\ th'[Maintainer].pc \in {"bump", "bumped"} /\ th'[Maintainer].buf = v
                  /\ j \in buf'[v].a_start .. th'[Maintainer].at - 1)
BY DEF Bumps

LEMMA PairsOf ==
    ASSUME NEW y
    PROVE  \A e \in Bumps(y) \cup Bumps(y)' : \E v \in Workers, j \in 0 .. BumpSize - 1 : e = <<v, j>>
BY DEF Bumps

LEMMA BumpsMap ==
    ASSUME NEW y, \A v \in Workers, j \in 0 .. BumpSize - 1 : <<v, j>> \in Bumps(y)' <=> <<v, j>> \in Bumps(y)
    PROVE  Bumps(y)' = Bumps(y)
<1>1. PICK V, J, A, B : V = Workers /\ J = 0 .. BumpSize - 1 /\ A = Bumps(y) /\ B = Bumps(y)'
  OBVIOUS
<1>2. \A e \in A \cup B : \E v \in V, j \in J : e = <<v, j>>
  BY <1>1, PairsOf
<1>3. \A v \in V, j \in J : <<v, j>> \in B <=> <<v, j>> \in A
  BY <1>1
<1>4. B = A
  BY ONLY <1>2, <1>3, PairsSame
<1> QED BY ONLY <1>1, <1>4

\* The maintainer is at an entry of a bump buffer.
LEMMA EntryIs ==
    ASSUME IInv, th[Maintainer].pc \in {"bump", "bumped"}, MoreEntries,
           NEW b, b = th[Maintainer].buf, NEW at, at = th[Maintainer].at,
           NEW sz, sz = th[Maintainer].size
    PROVE  /\ b \in Workers /\ at \in 0 .. BumpSize - 1 /\ sz \in Nat
           /\ buf[b].a_start \in Nat /\ buf[b].a_start <= at /\ at < buf[b].a_start + sz
           /\ buf[b].a_start + sz <= buf[b].a_end /\ buf[b].a_end \in Nat
           /\ Entry = buf[b].data[at] /\ Entry \in Items
           /\ <<b, at>> \in Bumps(Entry)
<1>1. MaintainerOK
  BY DEF IInv, ThreadsOK
<1>2. /\ b \in Workers /\ sz \in Nat /\ at \in Nat /\ buf[b].a_start <= at
      /\ buf[b].a_start + sz <= buf[b].a_end
  BY <1>1 DEF MaintainerOK
<1>3. at < buf[b].a_start + sz /\ Entry = buf[b].data[at]
  BY DEF MoreEntries, Entry
<1>4. /\ buf[b].a_start \in Nat /\ buf[b].a_end \in Nat /\ buf[b].a_end <= BumpSize /\ BumpSize \in Nat
  BY <1>2, Buffers, Size DEF Regions
<1>5. at \in 0 .. BumpSize - 1 /\ at \notin buf[b].a_start .. at - 1
  BY ONLY <1>2, <1>3, <1>4
<1>6. <<b, at>> \in Bumps(Entry)
  BY <1>2, <1>3, <1>5, PairIn
<1> QED BY <1>2, <1>3, <1>4, <1>5, <1>6, EntryItem

\* The thread of record r, which is the maintainer, has no item of its own.
LEMMA MaintainerRels ==
    ASSUME NEW r, r.pc \in {"idle", "bump", "bumped"}, r.own = 0, NEW x
    PROVE  ~UnlR(r, x) /\ ~LnkR(r, x) /\ ~MovR(r, x) /\ ~HldR(r, x)
BY DEF UnlR, LnkR, MovR, HldR

BumpFrame == /\ table' = table /\ held' = held /\ lru_lock' = lru_lock /\ buf' = buf
             /\ crawlVars' = crawlVars /\ Locks(Maintainer)
BumpRecord(s) == IsThread(s) /\ s.own = 0 /\ th' = [th EXCEPT ![Maintainer] = s]

\* The entry that the maintainer deals with, or has dealt with, is item x,
\* which has d references less from here on.
Bumping1(x, s, d) ==
    /\ th[Maintainer].pc \in {"bump", "bumped"} /\ s.pc \in {"bump", "bumped"}
    /\ th[Maintainer].pc = "bumped" => Entry = x
    /\ s.pc = "bumped" => Entry' = x
    /\ d \in {0, 1} /\ Cardinality(Bumps(x)') = Cardinality(Bumps(x)) - d
    /\ \A y \in Items \ {x} : Bumps(y)' = Bumps(y)

\* Its references and its place.
BumpCounts(p, x, d) ==
    p.ref = (IF "LINKED" \in p.flags THEN 1 ELSE 0) + held[x] + Cardinality(Bumps(x)) - d
BumpPuts(p, x, s, m) ==
    /\ m = IF "LINKED" \in p.flags /\ s.pc # "bumped" THEN p.lru ELSE None
    /\ \A l \in Lrus : Place(x) = l => m = l \/ lru_lock[l] \in {None, Maintainer}

LEMMA BumpStep ==
    ASSUME IInv, NEW x, x \in Items, Alone(x, Maintainer), NEW s, BumpRecord(s), BumpFrame,
           NEW d, Bumping1(x, s, d), MaintainerOK',
           NEW p, p \in ItemRecords, item' = [item EXCEPT ![x] = p], Hash(x, p),
           BumpCounts(p, x, d), NEW m, BumpPuts(p, x, s, m),
           NEW P, P = [Places EXCEPT ![x] = m], Good(q', P, enabled, remaining)
    PROVE  IInv'
<1>1. /\ Maintainer \in Pullers /\ Maintainer \in Threads /\ Maintainer \notin Workers
      /\ Maintainer # Crawler /\ Maintainer # None
  BY Constants DEF Threads
<1>2. /\ item' \in [Items -> ItemRecords] /\ item'[x] = p
      /\ \A y \in Items \ {x} : item'[y] = item[y]
  BY ItemTyped
<1>3. held' = held /\ held' \in [Items -> Nat]
  BY DEF BumpFrame, IInv, Types
<1>4. /\ IsThread(s) /\ s.own = 0 /\ ThreadsTyped' /\ th'[Maintainer] = s
      /\ \A u \in Pullers \ {Maintainer} : th'[u] = th[u]
  BY <1>1, ThreadTyped DEF BumpRecord
<1>5. /\ table' = table /\ lru_lock' = lru_lock /\ buf' = buf /\ crawlVars' = crawlVars /\ Locks(Maintainer)
      /\ enabled' = enabled /\ remaining' = remaining /\ c' = c /\ starting' = starting
  BY DEF BumpFrame, crawlVars
<1>6. Types'
  BY <1>2, <1>3, <1>4, <1>5, TypesOf DEF IInv, Types, Locks
<1>7. PICK r : r = th[Maintainer]
  OBVIOUS
<1>8. /\ r.pc \in {"bump", "bumped"} /\ s.pc \in {"bump", "bumped"} /\ r.own = 0
      /\ r.pc = "bumped" => Entry = x
      /\ s.pc = "bumped" => Entry' = x
  BY <1>1, <1>7, PullerIs DEF Bumping1
<1>9. \A y : /\ ~UnlR(r, y) /\ ~LnkR(r, y) /\ ~MovR(r, y) /\ ~HldR(r, y)
             /\ ~UnlR(s, y) /\ ~LnkR(s, y) /\ ~MovR(s, y) /\ ~HldR(s, y)
  BY <1>4, <1>8, MaintainerRels
<1>10. \A y : /\ ~Unl(Maintainer, y) /\ ~Lnk(Maintainer, y) /\ ~Hld(Maintainer, y)
              /\ Mov(Maintainer, y) <=> Bumped(y)
              /\ ~Unl(Maintainer, y)' /\ ~Lnk(Maintainer, y)' /\ ~Hld(Maintainer, y)'
              /\ Mov(Maintainer, y)' <=> Bumped(y)'
  BY <1>1, <1>4, <1>7, <1>9, RelRecords, RelRecordsNext
<1>11. /\ \A y \in Items \ {x} : ~Bumped(y) /\ ~Bumped(y)'
       /\ Bumped(x)' <=> s.pc = "bumped"
  BY <1>4, <1>7, <1>8 DEF Bumped
<1>12. Frame(x, Maintainer)
  <2>1. \A y \in Items \ {x} : SameRel(Maintainer, y)
    BY <1>10, <1>11 DEF SameRel
  <2>2. \A k \in Keys : lock[k] \notin {None, Maintainer} => lock'[k] = lock[k]
    BY <1>5 DEF Locks
  <2>3. \A y \in Items \ {x} : Bumps(y)' = Bumps(y)
    BY DEF Bumping1
  <2> QED BY <1>1, <1>2, <1>3, <1>4, <1>5, <2>1, <2>2, <2>3 DEF Frame
<1>13. StartingOK'
  <2>1. StartingOK
    BY DEF IInv, ThreadsOK
  <2> QED BY <1>1, <1>4, <1>5, <1>7, <1>8, <2>1 DEF StartingOK
<1>14. PullerOK(Maintainer)'
  BY <1>4, <1>8 DEF PullerOK
<1>15. /\ item'[x].ref = LinkNum(item'[x].flags, Unl(Maintainer, x)', Lnk(Maintainer, x)') + held'[x]
                         + Num(Hld(Maintainer, x)') + Cardinality(Bumps(x)') => Exact(x)'
       /\ Place(x)' = PlaceOf(item'[x].flags, Unl(Maintainer, x)', Mov(Maintainer, x)', item'[x].lru)
  BY <1>1, <1>12, Touched
<1>16. Exact(x)'
  <2>1. LinkNum(p.flags, Unl(Maintainer, x)', Lnk(Maintainer, x)') = IF "LINKED" \in p.flags THEN 1 ELSE 0
    BY <1>10 DEF LinkNum
  <2>2. Num(Hld(Maintainer, x)') = 0
    BY <1>10 DEF Num
  <2>3. PICK h, n, j : h = held[x] /\ n = Cardinality(Bumps(x)) /\ j = Cardinality(Bumps(x)')
    OBVIOUS
  <2>4. h \in Nat /\ n \in Nat /\ d \in {0, 1} /\ j = n - d
    BY <2>3, Counts, ItemFields DEF Bumping1
  <2>5. p.ref = (IF "LINKED" \in p.flags THEN 1 ELSE 0) + h + n - d
    BY <2>3 DEF BumpCounts
  <2>6. p.ref = (IF "LINKED" \in p.flags THEN 1 ELSE 0) + h + 0 + j
    BY ONLY <2>4, <2>5
  <2> QED BY <1>2, <1>3, <1>15, <2>1, <2>2, <2>3, <2>6
<1>17. Place(x)' = m
  BY <1>2, <1>10, <1>11, <1>15 DEF PlaceOf, BumpPuts
<1>18. Places' = [Places EXCEPT ![x] = m]
  BY <1>1, <1>12, <1>17, PlacesStep
<1>19. PlaceKept(x, Maintainer)
  BY <1>17 DEF PlaceKept, BumpPuts
<1>20. ItemOK(x)'
  <2>1. p.ref = 0 => p = Free
    BY DEF Hash
  <2>2. p.ref # 0 => p.key \in Keys
    BY DEF Hash, Free
  <2>3. "LINKED" \in p.flags => table'[p.key] = x
    BY DEF Hash, Free
  <2> QED BY <1>2, <2>1, <2>2, <2>3 DEF ItemOK
<1>21. \A k \in Keys : table'[k] = x => TableOK(k)'
  BY <1>2 DEF TableOK, Hash
<1>22. Good(q', Places', enabled', remaining')
  BY <1>5, <1>18
<1>23. \A w \in Workers : BufferOK(buf'[w])
  BY <1>5 DEF IInv
<1> QED BY <1>1, <1>6, <1>12, <1>13, <1>14, <1>16, <1>19, <1>20, <1>21, <1>22, <1>23, Preserved

\* The references and the place of an item in a bump buffer that no thread
\* has to do with but the maintainer.
LEMMA BumpItem ==
    ASSUME IInv, NEW x \in Items, Alone(x, Maintainer), th[Maintainer].pc \in {"bump", "bumped"},
           NEW h, h = held[x], NEW n, n = Cardinality(Bumps(x))
    PROVE  /\ h \in Nat /\ n \in Nat
           /\ item[x].ref = (IF "LINKED" \in item[x].flags THEN 1 ELSE 0) + h + n
           /\ Place(x) = IF "LINKED" \in item[x].flags /\ ~Bumped(x) THEN item[x].lru ELSE None
<1>1. Maintainer \in Pullers /\ Maintainer \in Threads /\ MaintainerOK /\ th[Maintainer].own = 0 /\ Exact(x)
  BY Constants, PullerIs DEF IInv, Threads
<1>2. /\ Unlinking(x) <=> Unl(Maintainer, x)
      /\ Linking(x) <=> Lnk(Maintainer, x)
      /\ Moving(x) <=> Mov(Maintainer, x)
      /\ Cardinality(Holders(x)) = Num(Hld(Maintainer, x))
  BY <1>1, AloneNow DEF AloneIs
<1>3. /\ ~Unl(Maintainer, x) /\ ~Lnk(Maintainer, x) /\ ~Hld(Maintainer, x)
      /\ Mov(Maintainer, x) <=> Bumped(x)
  BY <1>1, RelRecords, MaintainerRels
<1>4. h \in Nat /\ n \in Nat
  BY Counts, ItemFields
<1>5. item[x].ref = LinkRef(x) + h + 0 + n
  BY <1>1, <1>2, <1>3 DEF Exact, Num
<1>6. LinkRef(x) = IF "LINKED" \in item[x].flags THEN 1 ELSE 0
  BY <1>2, <1>3 DEF LinkRef
<1>7. Place(x) = IF "LINKED" \in item[x].flags /\ ~Bumped(x) THEN item[x].lru ELSE None
  BY <1>2, <1>3 DEF Place
<1> QED BY ONLY <1>4, <1>5, <1>6, <1>7

\* The maintainer's record r with another place to be, or another entry.
Steps(r, s, pc, at) == \/ s = [r EXCEPT !.pc = pc] /\ at = r.at
                       \/ s = [r EXCEPT !.at = at] /\ pc = r.pc
                       \/ s = [r EXCEPT !.pc = pc, !.at = at]

LEMMA StepRecord ==
    ASSUME NEW r, IsThread(r), NEW pc, NEW at, NEW s, Steps(r, s, pc, at)
    PROVE  /\ IsThread(s) /\ s.pc = pc /\ s.at = at /\ s.own = r.own /\ s.buf = r.buf /\ s.size = r.size
<1>1. PICK pc0, k, y, o, rem, l, f, z, tr, m, b, at0, size, ids :
        /\ pc0 = r.pc /\ k = r.key /\ y = r.it /\ o = r.own /\ rem = r.removed /\ l = r.lru /\ f = r.flags
        /\ z = r.search /\ tr = r.tries /\ m = r.move /\ b = r.buf /\ at0 = r.at /\ size = r.size
        /\ ids = r.ids
  OBVIOUS
<1>2. r = [pc |-> pc0, key |-> k, it |-> y, own |-> o, removed |-> rem,
           lru |-> l, flags |-> f, search |-> z, tries |-> tr,
           move |-> m, buf |-> b, at |-> at0, size |-> size, ids |-> ids]
  BY <1>1 DEF IsThread
<1>3. s = [pc |-> pc, key |-> k, it |-> y, own |-> o, removed |-> rem,
           lru |-> l, flags |-> f, search |-> z, tries |-> tr,
           move |-> m, buf |-> b, at |-> at, size |-> size, ids |-> ids]
  <2>1. CASE s = [r EXCEPT !.pc = pc] /\ at = r.at
    BY ONLY <1>1, <1>2, <2>1
  <2>2. CASE s = [r EXCEPT !.at = at] /\ pc = r.pc
    BY ONLY <1>1, <1>2, <2>2
  <2>3. CASE s = [r EXCEPT !.pc = pc, !.at = at]
    BY ONLY <1>2, <2>3
  <2> QED BY <2>1, <2>2, <2>3 DEF Steps
<1> QED BY ONLY <1>1, <1>3 DEF IsThread

\* The bumps that are left when the maintainer is done with an entry.
LEMMA BumpsTaken ==
    ASSUME IInv, th[Maintainer].pc \in {"bump", "bumped"}, MoreEntries, buf' = buf,
           NEW b, b = th[Maintainer].buf, NEW at, at = th[Maintainer].at, NEW x, x = Entry,
           NEW s, th'[Maintainer] = s, s.pc \in {"bump", "bumped"}, s.buf = b, s.at = at + 1
    PROVE  /\ \A y \in Items \ {x} : Bumps(y)' = Bumps(y)
           /\ Cardinality(Bumps(x)') = Cardinality(Bumps(x)) - 1
<1>1. /\ b \in Workers /\ at \in 0 .. BumpSize - 1 /\ buf[b].a_start \in Nat /\ buf[b].a_start <= at
      /\ x = buf[b].data[at] /\ x \in Items /\ <<b, at>> \in Bumps(x)
  BY EntryIs
<1>2. BumpSize \in Nat
  BY Size
<1>3. ASSUME NEW y, NEW v \in Workers, NEW j \in 0 .. BumpSize - 1, ~(v = b /\ j = at)
      PROVE  <<v, j>> \in Bumps(y)' <=> <<v, j>> \in Bumps(y)
  <2>1. v = b => (j \in buf[v].a_start .. (at + 1) - 1 <=> j \in buf[v].a_start .. at - 1)
    BY ONLY <1>1, <1>2, <1>3
  <2>2. buf'[v] = buf[v] /\ th'[Maintainer].at = at + 1 /\ th'[Maintainer].buf = b
        /\ th'[Maintainer].pc \in {"bump", "bumped"}
    OBVIOUS
  <2> QED BY <1>3, <2>1, <2>2, PairIn, PairInNext
<1>4. ASSUME NEW y
      PROVE  <<b, at>> \notin Bumps(y)'
  <2>1. at \in buf[b].a_start .. (at + 1) - 1
    BY ONLY <1>1, <1>2
  <2> QED BY <1>1, <2>1, PairInNext
<1>5. ASSUME NEW y \in Items \ {x}
      PROVE  Bumps(y)' = Bumps(y)
  <2>1. <<b, at>> \notin Bumps(y)
    BY <1>1, PairIn
  <2>2. \A v \in Workers, j \in 0 .. BumpSize - 1 : <<v, j>> \in Bumps(y)' <=> <<v, j>> \in Bumps(y)
    BY <1>3, <1>4, <2>1
  <2> QED BY <2>2, BumpsMap
<1>6. Bumps(x)' = Bumps(x) \ {<<b, at>>}
  <2>1. PICK V, J, A, B : /\ V = Workers /\ J = 0 .. BumpSize - 1 /\ A = Bumps(x) \ {<<b, at>>}
                          /\ B = Bumps(x)'
    OBVIOUS
  <2>2. \A e \in A \cup B : \E v \in V, j \in J : e = <<v, j>>
    BY <2>1, PairsOf
  <2>3. ASSUME NEW v \in V, NEW j \in J
        PROVE  <<v, j>> \in B <=> <<v, j>> \in A
    <3>1. CASE v = b /\ j = at
      BY <2>1, <3>1, <1>4
    <3>2. CASE ~(v = b /\ j = at)
      <4>1. <<v, j>> # <<b, at>>
        BY <3>2
      <4> QED BY <2>1, <3>2, <4>1, <1>3
    <3> QED BY <3>1, <3>2
  <2>4. B = A
    BY ONLY <2>2, <2>3, PairsSame
  <2> QED BY ONLY <2>1, <2>4
<1> QED BY <1>1, <1>5, <1>6, Counts, CardDel

LEMMA BumpsKept ==
    ASSUME th[Maintainer].pc \in {"bump", "bumped"}, buf' = buf,
           NEW s, th'[Maintainer] = s, s.pc \in {"bump", "bumped"}, s.buf = th[Maintainer].buf,
           s.at = th[Maintainer].at
    PROVE  /\ \A y : Bumps(y)' = Bumps(y)
           /\ Entry' = Entry
BY DEF Bumps, Entry

LEMMA Step_BumpStays ==
    ASSUME IInv, BumpStays
    PROVE  IInv'
<1>1. PICK x, r, b, at, k, f, z, h, n, p, P :
        /\ x = Entry /\ r = th[Maintainer] /\ b = r.buf /\ at = r.at /\ k = item[x].key
        /\ f = item[x].flags /\ z = item[x] /\ h = held[x] /\ n = Cardinality(Bumps(x))
        /\ p = do_item_remove(z) /\ P = [Places EXCEPT ![x] = Place(x)]
  OBVIOUS
<1>2. /\ r.pc = "bump" /\ MoreEntries /\ lock[k] = None /\ item' = [item EXCEPT ![x] = p]
      /\ q' = q /\ lock' = lock /\ table' = table /\ held' = held /\ lru_lock' = lru_lock /\ buf' = buf
      /\ crawlVars' = crawlVars
  BY <1>1 DEF BumpStays, ItemLocked
<1>3. /\ Maintainer \in Pullers /\ Maintainer \in Threads /\ IsThread(r) /\ r.own = 0 /\ MaintainerOK
  BY <1>1, <1>2, Constants, PullerIs DEF Threads
<1>4. PICK s : th' = [th EXCEPT ![Maintainer] = s] /\ Steps(r, s, "bump", at + 1)
  <2>1. th' = [th EXCEPT ![Maintainer] = [r EXCEPT !.at = at + 1]]
    BY <1>1 DEF BumpStays
  <2> QED BY <1>2, <2>1 DEF Steps
<1>5. IsThread(s) /\ s.pc = "bump" /\ s.at = at + 1 /\ s.own = 0 /\ s.buf = b /\ s.size = r.size
  BY ONLY <1>1, <1>3, <1>4, StepRecord
<1>6. th'[Maintainer] = s
  BY <1>3, <1>4, <1>5, ThreadTyped
<1>7. /\ x \in Items /\ <<b, at>> \in Bumps(x) /\ b \in Workers /\ at \in Nat
      /\ buf[b].a_start \in Nat /\ r.size \in Nat
      /\ buf[b].a_start <= at /\ at < buf[b].a_start + r.size /\ buf[b].a_start + r.size <= buf[b].a_end
  BY <1>1, <1>2, EntryIs
<1>8. Alone(x, Maintainer)
  BY <1>1, <1>2, <1>3, <1>7, AloneWhen
<1>9. /\ \A y \in Items \ {x} : Bumps(y)' = Bumps(y)
      /\ Cardinality(Bumps(x)') = n - 1
  BY <1>1, <1>2, <1>5, <1>6, BumpsTaken
<1>10. /\ h \in Nat /\ n \in Nat /\ z \in ItemRecords /\ z.ref \in Nat
       /\ z.ref = (IF "LINKED" \in f THEN 1 ELSE 0) + h + n
       /\ Place(x) = IF "LINKED" \in f THEN z.lru ELSE None
  <2>1. ~Bumped(x)
    BY <1>1, <1>2 DEF Bumped
  <2> QED BY <1>1, <1>2, <1>7, <1>8, <2>1, BumpItem, ItemFields
<1>11. n # 0
  <2>1. IsFiniteSet(Bumps(x)) /\ Bumps(x) # {}
    BY <1>7, Counts
  <2> QED BY <1>1, <2>1, FS_EmptySet
<1>12. z.ref # 0 /\ ("LINKED" \in f => z.ref # 1) /\ k \in Keys
  <2>1. z.ref # 0 /\ ("LINKED" \in f => z.ref # 1)
    BY ONLY <1>10, <1>11
  <2> QED BY <1>1, <1>7, <2>1, Hashed DEF Free
<1>13. /\ p \in ItemRecords /\ p.ref = z.ref - 1
       /\ p = Free \/ (p.ref # 0 /\ p.key \in Keys)
       /\ z.ref # 1 => p.key = k /\ p.lru = z.lru /\ p.flags = f
       /\ z.ref = 1 => p.flags = {}
  BY ONLY <1>1, <1>10, <1>12, Removed
<1>14. "LINKED" \in p.flags <=> "LINKED" \in f
  BY ONLY <1>12, <1>13
<1>15. Hash(x, p)
  <2>1. CASE z.ref = 1
    <3>1. "LINKED" \notin p.flags /\ "LINKED" \notin f
      BY <1>12, <1>13, <2>1
    <3> QED BY <1>1, <1>2, <1>7, <1>13, <3>1, Hashed DEF Hash
  <2>2. CASE z.ref # 1
    BY <1>1, <1>2, <1>7, <1>13, <2>2, HashKept
  <2> QED BY <2>1, <2>2
<1>16. PICK d, m : d = 1 /\ m = Place(x)
  OBVIOUS
<1>17. BumpCounts(p, x, d)
  BY ONLY <1>1, <1>10, <1>13, <1>14, <1>16 DEF BumpCounts
<1>18. BumpPuts(p, x, s, m)
  BY ONLY <1>5, <1>10, <1>12, <1>13, <1>14, <1>16 DEF BumpPuts
<1>19. Bumping1(x, s, d)
  BY <1>1, <1>2, <1>5, <1>9, <1>16 DEF Bumping1
<1>20. BumpFrame /\ BumpRecord(s)
  BY <1>2, <1>3, <1>4, <1>5, LockSame DEF BumpFrame, BumpRecord
<1>21. MaintainerOK'
  <2>1. /\ at + 1 \in Nat /\ buf[b].a_start <= at + 1 /\ at + 1 <= buf[b].a_start + r.size
    BY ONLY <1>7
  <2> QED BY <1>2, <1>5, <1>6, <1>7, <2>1 DEF MaintainerOK
<1>22. P = [Places EXCEPT ![x] = m] /\ Good(q', P, enabled, remaining)
  BY <1>1, <1>2, <1>7, <1>16, SamePlace
<1>23. item' = [item EXCEPT ![x] = p] /\ p \in ItemRecords /\ x \in Items
  BY ONLY <1>2, <1>7, <1>13
<1> QED BY ONLY IInv, <1>8, <1>15, <1>17, <1>18, <1>19, <1>20, <1>21, <1>22, <1>23, BumpStep

LEMMA Step_BumpUnlinks ==
    ASSUME IInv, BumpUnlinks
    PROVE  IInv'
<1>1. PICK x, r, b, at, k, f, z, h, n, p0, p, P :
        /\ x = Entry /\ r = th[Maintainer] /\ b = r.buf /\ at = r.at /\ k = item[x].key
        /\ f = item[x].flags /\ z = item[x] /\ h = held[x] /\ n = Cardinality(Bumps(x))
        /\ p0 = MarkInactive(z) /\ p = To(p0, WARM) /\ P = [Places EXCEPT ![x] = None]
  OBVIOUS
<1>2. /\ r.pc = "bump" /\ MoreEntries /\ lock[k] = None /\ lru_lock[COLD] = None
      /\ "LINKED" \in f /\ z.lru = COLD
      /\ q' = do_item_unlink_q(x, COLD) /\ lock' = [lock EXCEPT ![k] = Maintainer]
      /\ table' = table /\ held' = held /\ lru_lock' = lru_lock /\ buf' = buf /\ crawlVars' = crawlVars
  BY <1>1 DEF BumpUnlinks, ItemLocked
<1>3. /\ Maintainer \in Pullers /\ Maintainer \in Threads /\ IsThread(r) /\ r.own = 0 /\ MaintainerOK
      /\ COLD \in Lrus /\ WARM \in Lrus /\ Maintainer # None
  BY <1>1, <1>2, Constants, PullerIs DEF Threads, Lrus
<1>4. PICK s : th' = [th EXCEPT ![Maintainer] = s] /\ Steps(r, s, "bumped", at)
  <2>1. th' = [th EXCEPT ![Maintainer] = [r EXCEPT !.pc = "bumped"]]
    BY <1>1 DEF BumpUnlinks
  <2> QED BY <1>1, <2>1 DEF Steps
<1>5. IsThread(s) /\ s.pc = "bumped" /\ s.at = at /\ s.own = 0 /\ s.buf = b /\ s.size = r.size
  BY ONLY <1>1, <1>3, <1>4, StepRecord
<1>6. th'[Maintainer] = s
  BY <1>3, <1>4, <1>5, ThreadTyped
<1>7. /\ x \in Items /\ <<b, at>> \in Bumps(x) /\ b \in Workers /\ at \in Nat
      /\ buf[b].a_start \in Nat /\ r.size \in Nat
      /\ buf[b].a_start <= at /\ at < buf[b].a_start + r.size /\ buf[b].a_start + r.size <= buf[b].a_end
  BY <1>1, <1>2, EntryIs
<1>8. Alone(x, Maintainer)
  BY <1>1, <1>2, <1>3, <1>7, AloneWhen
<1>9. /\ \A y : Bumps(y)' = Bumps(y)
      /\ Entry' = x
  BY <1>1, <1>2, <1>5, <1>6, BumpsKept
<1>10. /\ h \in Nat /\ n \in Nat /\ z \in ItemRecords
       /\ z.ref = (IF "LINKED" \in f THEN 1 ELSE 0) + h + n
       /\ Place(x) = COLD
  <2>1. ~Bumped(x)
    BY <1>1, <1>2 DEF Bumped
  <2> QED BY <1>1, <1>2, <1>7, <1>8, <2>1, BumpItem, ItemFields
<1>11. k \in Keys /\ z.ref # 0 /\ table[k] = x
  BY <1>1, <1>2, <1>7, Hashed
<1>12. /\ p \in ItemRecords /\ p.key = k /\ p.lru = WARM /\ p.ref = z.ref /\ "LINKED" \in p.flags
  <2>1. /\ p0 \in ItemRecords /\ p0.key = z.key /\ p0.ref = z.ref
        /\ "LINKED" \in p0.flags <=> "LINKED" \in z.flags
    BY ONLY <1>1, <1>10, Inactivates
  <2>2. p \in ItemRecords /\ p.key = p0.key /\ p.lru = WARM /\ p.ref = p0.ref /\ p.flags = p0.flags
    BY ONLY <1>1, <1>3, <2>1, Changes
  <2> QED BY ONLY <1>1, <1>2, <2>1, <2>2
<1>13. item' = [item EXCEPT ![x] = p]
  <2>1. /\ item' = [item EXCEPT ![x].flags = @ \ {"ACTIVE"}, ![x].lru = WARM]
    BY <1>1 DEF BumpUnlinks
  <2>2. p = [[z EXCEPT !.flags = z.flags \ {"ACTIVE"}] EXCEPT !.lru = WARM]
    BY ONLY <1>1 DEF MarkInactive, To
  <2> QED BY <1>1, <2>1, <2>2
<1>14. Hash(x, p)
  BY <1>1, <1>2, <1>7, <1>11, <1>12, HashKept
<1>15. PICK d, m : d = 0 /\ m = None
  OBVIOUS
<1>16. BumpCounts(p, x, d)
  BY ONLY <1>1, <1>2, <1>10, <1>12, <1>15 DEF BumpCounts
<1>17. BumpPuts(p, x, s, m)
  BY ONLY <1>2, <1>5, <1>10, <1>15 DEF BumpPuts
<1>18. Bumping1(x, s, d)
  <2>1. Cardinality(Bumps(x)') = Cardinality(Bumps(x)) - d
    <3>1. Bumps(x)' = Bumps(x) /\ Cardinality(Bumps(x)) \in Nat
      BY <1>7, <1>9, Counts
    <3> QED BY ONLY <1>15, <3>1
  <2> QED BY <1>1, <1>2, <1>5, <1>9, <1>15, <2>1 DEF Bumping1
<1>19. Locks(Maintainer) /\ lock'[k] = Maintainer
  BY <1>2, <1>3, <1>11, LockStep
<1>20. BumpFrame /\ BumpRecord(s)
  BY <1>2, <1>3, <1>4, <1>5, <1>19 DEF BumpFrame, BumpRecord
<1>21. item'[x] = p
  BY <1>7, <1>12, <1>13, ItemTyped
<1>22. MaintainerOK'
  <2>1. /\ th'[Maintainer] = s /\ buf' = buf
        /\ s.pc = "bumped" /\ s.at = at /\ s.own = 0 /\ s.buf = b /\ s.size = r.size
        /\ Entry' = x /\ item'[x].lru = WARM /\ "LINKED" \in item'[x].flags
        /\ item'[x].key \in Keys /\ lock'[item'[x].key] = Maintainer
    BY <1>2, <1>5, <1>6, <1>9, <1>11, <1>12, <1>19, <1>21
  <2>2. at <= buf[b].a_start + r.size
    BY ONLY <1>7
  <2> QED BY <1>7, <2>1, <2>2 DEF MaintainerOK, Owns
<1>23. P = [Places EXCEPT ![x] = m] /\ Good(q', P, enabled, remaining)
  <2>1. /\ IsPlaces(Places) /\ Places[x] = COLD /\ Good(q, Places, enabled, remaining)
        /\ remaining \in [Lrus -> Nat]
    BY <1>7, <1>10, PlacesAre DEF IInv, ListsInv, Types
  <2>2. Good(do_item_unlink_q(x, COLD), [Places EXCEPT ![x] = None], enabled, remaining)
    BY ONLY <1>3, <1>7, <2>1, UnlinkGood
  <2> QED BY ONLY <1>1, <1>2, <1>15, <2>2
<1>24. p \in ItemRecords /\ x \in Items
  BY ONLY <1>7, <1>12
<1> QED BY ONLY IInv, <1>8, <1>13, <1>14, <1>16, <1>17, <1>18, <1>20, <1>22, <1>23, <1>24, BumpStep

LEMMA Step_item_link_q_warm ==
    ASSUME IInv, item_link_q_warm
    PROVE  IInv'
<1>1. PICK x, r, b, at, k, f, z, h, n, p, P :
        /\ x = Entry /\ r = th[Maintainer] /\ b = r.buf /\ at = r.at /\ k = item[x].key
        /\ f = item[x].flags /\ z = item[x] /\ h = held[x] /\ n = Cardinality(Bumps(x))
        /\ p = do_item_remove(z) /\ P = [Places EXCEPT ![x] = WARM]
  OBVIOUS
<1>2. /\ r.pc = "bumped" /\ item' = [item EXCEPT ![x] = p]
      /\ q' = do_item_link_q(x, WARM) /\ lock' = [lock EXCEPT ![k] = None]
      /\ table' = table /\ held' = held /\ lru_lock' = lru_lock /\ buf' = buf /\ crawlVars' = crawlVars
  BY <1>1 DEF item_link_q_warm
<1>3. /\ Maintainer \in Pullers /\ Maintainer \in Threads /\ IsThread(r) /\ r.own = 0 /\ MaintainerOK
      /\ WARM \in Lrus /\ WARM # None
  BY <1>1, <1>2, Constants, PullerIs DEF Threads, Lrus, Nodes
<1>4. PICK s : th' = [th EXCEPT ![Maintainer] = s] /\ Steps(r, s, "bump", at + 1)
  <2>1. th' = [th EXCEPT ![Maintainer] = [r EXCEPT !.pc = "bump", !.at = at + 1]]
    BY <1>1 DEF item_link_q_warm
  <2> QED BY <2>1 DEF Steps
<1>5. IsThread(s) /\ s.pc = "bump" /\ s.at = at + 1 /\ s.own = 0 /\ s.buf = b /\ s.size = r.size
  BY ONLY <1>1, <1>3, <1>4, StepRecord
<1>6. th'[Maintainer] = s
  BY <1>3, <1>4, <1>5, ThreadTyped
<1>7. /\ MoreEntries /\ Owns(Maintainer, x) /\ z.lru = WARM /\ "LINKED" \in f
  BY <1>1, <1>2, <1>3 DEF MaintainerOK, MoreEntries
<1>8. /\ x \in Items /\ <<b, at>> \in Bumps(x) /\ b \in Workers /\ at \in Nat
      /\ buf[b].a_start \in Nat /\ r.size \in Nat
      /\ buf[b].a_start <= at /\ at < buf[b].a_start + r.size /\ buf[b].a_start + r.size <= buf[b].a_end
  BY <1>1, <1>2, <1>7, EntryIs
<1>9. k \in Keys /\ lock[k] = Maintainer
  BY <1>1, <1>7 DEF Owns
<1>10. Alone(x, Maintainer)
  BY <1>1, <1>3, <1>7, <1>8, <1>9, AloneWhen
<1>11. /\ \A y \in Items \ {x} : Bumps(y)' = Bumps(y)
       /\ Cardinality(Bumps(x)') = n - 1
  BY <1>1, <1>2, <1>5, <1>6, <1>7, BumpsTaken
<1>12. /\ h \in Nat /\ n \in Nat /\ z \in ItemRecords
       /\ z.ref = (IF "LINKED" \in f THEN 1 ELSE 0) + h + n
       /\ Place(x) = None
  <2>1. Bumped(x)
    BY <1>1, <1>2 DEF Bumped
  <2> QED BY <1>1, <1>2, <1>8, <1>10, <2>1, BumpItem, ItemFields
<1>13. n # 0
  <2>1. IsFiniteSet(Bumps(x)) /\ Bumps(x) # {}
    BY <1>8, Counts
  <2> QED BY <1>1, <2>1, FS_EmptySet
<1>14. z.ref # 0 /\ z.ref # 1
  BY ONLY <1>7, <1>12, <1>13
<1>15. /\ p \in ItemRecords /\ p.ref = z.ref - 1 /\ p.ref # 0 /\ p.key = k /\ p.lru = WARM /\ p.flags = f
  <2>1. z.key \in Keys
    BY <1>1, <1>9
  <2>2. /\ p \in ItemRecords /\ p.ref = z.ref - 1 /\ p.key = z.key /\ p.lru = z.lru /\ p.flags = z.flags
    BY ONLY <1>1, <1>12, <1>14, <2>1, Removed
  <2> QED BY ONLY <1>1, <1>7, <1>12, <1>14, <2>2
<1>16. Hash(x, p)
  BY <1>1, <1>2, <1>8, <1>9, <1>15, HashKept
<1>17. PICK d, m : d = 1 /\ m = WARM
  OBVIOUS
<1>18. BumpCounts(p, x, d)
  BY ONLY <1>1, <1>7, <1>12, <1>15, <1>17 DEF BumpCounts
<1>19. BumpPuts(p, x, s, m)
  <2>1. None \notin Lrus
    BY Constants DEF Nodes
  <2> QED BY ONLY <1>5, <1>7, <1>12, <1>15, <1>17, <2>1 DEF BumpPuts
<1>20. Bumping1(x, s, d)
  BY <1>1, <1>2, <1>5, <1>11, <1>17 DEF Bumping1
<1>21. Locks(Maintainer)
  BY <1>2, <1>3, <1>9, LockStep
<1>22. BumpFrame /\ BumpRecord(s)
  BY <1>2, <1>3, <1>4, <1>5, <1>21 DEF BumpFrame, BumpRecord
<1>23. MaintainerOK'
  <2>1. /\ at + 1 \in Nat /\ buf[b].a_start <= at + 1 /\ at + 1 <= buf[b].a_start + r.size
    BY ONLY <1>8
  <2> QED BY <1>2, <1>5, <1>6, <1>8, <2>1 DEF MaintainerOK
<1>24. P = [Places EXCEPT ![x] = m] /\ Good(q', P, enabled, remaining)
  <2>1. /\ IsPlaces(Places) /\ Places[x] = None /\ Good(q, Places, enabled, remaining)
    BY <1>8, <1>12, PlacesAre DEF IInv, ListsInv
  <2>2. Good(do_item_link_q(x, WARM), [Places EXCEPT ![x] = WARM], enabled, remaining)
    BY ONLY <1>3, <1>8, <2>1, LinkGood
  <2> QED BY ONLY <1>1, <1>2, <1>17, <2>2
<1>25. item' = [item EXCEPT ![x] = p] /\ p \in ItemRecords /\ x \in Items
  BY ONLY <1>2, <1>8, <1>15
<1> QED BY ONLY IInv, <1>10, <1>16, <1>18, <1>19, <1>20, <1>22, <1>23, <1>24, <1>25, BumpStep

BumpRest == /\ q' = q /\ item' = item /\ table' = table /\ held' = held /\ lock' = lock
            /\ lru_lock' = lru_lock /\ crawlVars' = crawlVars

\* The maintainer begins with a buffer, or is done with it.
LEMMA BumpBegins ==
    ASSUME IInv, BumpRest, th[Maintainer].pc \in {"idle", "bump"},
           NEW s, BumpRecord(s), s.pc \in {"idle", "bump"}, MaintainerOK',
           buf' \in [Workers -> BufferRecords], \A w \in Workers : BufferOK(buf'[w]),
           \A y \in Items : Bumps(y)' = Bumps(y)
    PROVE  IInv'
<1>1. /\ Maintainer \in Pullers /\ Maintainer \in Threads /\ Maintainer \notin Workers
      /\ Maintainer # Crawler /\ Maintainer # None /\ None \notin Items
  BY Constants DEF Threads, Nodes
<1>2. /\ q' = q /\ item' = item /\ table' = table /\ held' = held /\ lock' = lock
      /\ lru_lock' = lru_lock /\ crawlVars' = crawlVars
      /\ enabled' = enabled /\ remaining' = remaining /\ c' = c /\ starting' = starting
  BY DEF BumpRest, crawlVars
<1>3. /\ IsThread(s) /\ s.own = 0 /\ ThreadsTyped' /\ th'[Maintainer] = s
      /\ \A u \in Pullers \ {Maintainer} : th'[u] = th[u]
  BY <1>1, ThreadTyped DEF BumpRecord
<1>4. Types'
  BY <1>2, <1>3, TypesOf DEF IInv, Types
<1>5. PICK r : r = th[Maintainer]
  OBVIOUS
<1>6. r.pc \in {"idle", "bump"} /\ r.own = 0
  BY <1>1, <1>5, PullerIs
<1>7. \A y : /\ ~UnlR(r, y) /\ ~LnkR(r, y) /\ ~MovR(r, y) /\ ~HldR(r, y)
             /\ ~UnlR(s, y) /\ ~LnkR(s, y) /\ ~MovR(s, y) /\ ~HldR(s, y)
  BY <1>3, <1>6, MaintainerRels
<1>8. \A y : ~Bumped(y) /\ ~Bumped(y)'
  BY <1>3, <1>5, <1>6 DEF Bumped
<1>9. \A y : SameRel(Maintainer, y)
  BY <1>1, <1>3, <1>5, <1>7, <1>8, RelRecords, RelRecordsNext DEF SameRel
<1>10. Frame(None, Maintainer)
  BY <1>1, <1>2, <1>3, <1>9 DEF Frame
<1>11. PullerOK(Maintainer)'
  BY <1>3 DEF PullerOK
<1>12. StartingOK'
  <2>1. StartingOK
    BY DEF IInv, ThreadsOK
  <2> QED BY <1>1, <1>2, <1>3, <1>5, <1>6, <2>1 DEF StartingOK
<1>13. Good(q', Places', enabled', remaining')
  <2>1. Places' = Places
    BY <1>1, <1>10, PlacesStep
  <2> QED BY <1>2, <2>1 DEF IInv, ListsInv
<1> QED BY <1>1, <1>4, <1>10, <1>11, <1>12, <1>13, Preserved

LEMMA Step_BumpPeek ==
    ASSUME IInv, NEW w \in Workers, BumpPeek(w)
    PROVE  IInv'
<1>1. PICK a, e, s : /\ a = buf[w].a_start /\ e = buf[w].a_end
                     /\ s = [Idle EXCEPT !.pc = "bump", !.buf = w, !.at = a, !.size = e - a]
  OBVIOUS
<1>2. /\ th[Maintainer].pc = "idle" /\ th' = [th EXCEPT ![Maintainer] = s] /\ buf' = buf
      /\ BumpRest /\ a # e
  BY <1>1 DEF BumpPeek, BumpRest, bipbuf_is_empty, memoryVars
<1>3. IsThread(s) /\ s.pc = "bump" /\ s.own = 0 /\ s.buf = w /\ s.at = a /\ s.size = e - a
  BY ONLY <1>1 DEF IsThread, Idle
<1>4. BumpRecord(s)
  BY <1>2, <1>3 DEF BumpRecord
<1>5. th'[Maintainer] = s
  BY <1>2, <1>3, Constants, ThreadTyped
<1>6. a \in Nat /\ e \in Nat /\ a <= e
  BY <1>1, Buffers DEF Regions
<1>7. MaintainerOK'
  <2>1. e - a \in Nat /\ a <= a /\ a <= a + (e - a) /\ a + (e - a) <= e
    BY ONLY <1>6
  <2> QED BY <1>1, <1>2, <1>3, <1>5, <1>6, <2>1 DEF MaintainerOK
<1>8. ASSUME NEW y \in Items
      PROVE  Bumps(y)' = Bumps(y)
  <2>1. a .. a - 1 = {}
    BY ONLY <1>6
  <2>2. ASSUME NEW v \in Workers, NEW j \in 0 .. BumpSize - 1
        PROVE  <<v, j>> \in Bumps(y)' <=> <<v, j>> \in Bumps(y)
    <3>1. <<v, j>> \in Bumps(y)' <=>
            buf'[v].data[j] = y /\ ~(v = w /\ j \in buf'[v].a_start .. a - 1)
      BY <1>3, <1>5, PairInNext
    <3>2. <<v, j>> \in Bumps(y) <=> buf[v].data[j] = y
      BY <1>2, PairIn
    <3>3. v = w => buf'[v].a_start = a
      BY <1>1, <1>2
    <3> QED BY <1>2, <2>1, <3>1, <3>2, <3>3
  <2> QED BY <2>2, BumpsMap
<1>9. buf' \in [Workers -> BufferRecords] /\ \A v \in Workers : BufferOK(buf'[v])
  BY <1>2 DEF IInv, Types
<1> QED BY <1>2, <1>3, <1>4, <1>7, <1>8, <1>9, BumpBegins

LEMMA Step_BumpPoll ==
    ASSUME IInv, BumpPoll
    PROVE  IInv'
<1>1. PICK r, b, a, e, at, sz, d, bb :
        /\ r = th[Maintainer] /\ b = r.buf /\ a = buf[b].a_start /\ e = buf[b].a_end
        /\ at = r.at /\ sz = r.size /\ d = buf[b].data /\ bb = bipbuf_poll(buf[b], sz)
  OBVIOUS
<1>2. /\ r.pc = "bump" /\ ~MoreEntries /\ th' = [th EXCEPT ![Maintainer] = Idle]
      /\ buf' = [buf EXCEPT ![b] = bb] /\ BumpRest
  BY <1>1 DEF BumpPoll, BumpRest, memoryVars
<1>3. IsThread(Idle) /\ Idle.pc = "idle" /\ Idle.own = 0
  BY DEF IsThread, Idle
<1>4. BumpRecord(Idle)
  BY <1>2, <1>3 DEF BumpRecord
<1>5. th'[Maintainer] = Idle
  BY <1>2, <1>3, Constants, ThreadTyped
<1>6. /\ b \in Workers /\ sz \in Nat /\ at \in Nat /\ a <= at /\ at <= a + sz /\ a + sz <= e
  BY <1>1, <1>2 DEF IInv, ThreadsOK, MaintainerOK
<1>7. a \in Nat /\ e \in Nat /\ IsBuffer(buf[b])
  BY <1>1, <1>6, Buffers
<1>8. at = a + sz
  <2>1. ~(at < a + sz)
    BY <1>1, <1>2 DEF MoreEntries
  <2> QED BY ONLY <1>6, <1>7, <2>1
<1>9. MaintainerOK'
  BY <1>3, <1>5 DEF MaintainerOK
<1>10. /\ IsBuffer(bb)
       /\ \A i \in 0 .. BumpSize - 1 : bb.data[i] = IF i \in a .. a + sz - 1 THEN None ELSE d[i]
  <2>1. PICK B : B = buf[b]
    OBVIOUS
  <2>2. IsBuffer(B) /\ B.a_start + sz <= B.a_end /\ sz \in Nat /\ bb = bipbuf_poll(B, sz)
        /\ a = B.a_start /\ d = B.data
    BY <1>1, <1>6, <1>7, <2>1
  <2>3. /\ IsBuffer(bb)
        /\ bb.data = [i \in 0 .. BumpSize - 1 |-> IF i \in B.a_start .. B.a_start + sz - 1
                                                  THEN None ELSE B.data[i]]
    BY ONLY <2>2, PollOK
  <2> QED BY ONLY <2>2, <2>3
<1>11. buf \in [Workers -> BufferRecords] /\ \A v \in Workers : BufferOK(buf[v])
  BY DEF IInv, Types
<1>12. buf'[b] = bb /\ \A v \in Workers \ {b} : buf'[v] = buf[v]
  BY <1>2, <1>6, <1>11
<1>13. buf' \in [Workers -> BufferRecords] /\ \A v \in Workers : BufferOK(buf'[v])
  BY <1>2, <1>6, <1>10, <1>11, <1>12 DEF IsBuffer
<1>14. ASSUME NEW y \in Items
       PROVE  Bumps(y)' = Bumps(y)
  <2>1. y # None
    BY Constants DEF Nodes
  <2>2. ASSUME NEW v \in Workers, NEW j \in 0 .. BumpSize - 1
        PROVE  <<v, j>> \in Bumps(y)' <=> <<v, j>> \in Bumps(y)
    <3>1. <<v, j>> \in Bumps(y)' <=> buf'[v].data[j] = y
      BY <1>3, <1>5, PairInNext
    <3>2. <<v, j>> \in Bumps(y) <=>
            buf[v].data[j] = y /\ ~(v = b /\ j \in buf[v].a_start .. at - 1)
      BY <1>1, <1>2, PairIn
    <3>3. CASE v = b
      <4>1. bb.data[j] = IF j \in a .. a + sz - 1 THEN None ELSE d[j]
        BY <1>10
      <4>2. a .. a + sz - 1 = a .. at - 1
        BY ONLY <1>6, <1>7, <1>8
      <4>3. bb.data[j] = y <=> d[j] = y /\ j \notin a .. at - 1
        BY ONLY <2>1, <4>1, <4>2
      <4> QED BY <1>1, <1>12, <3>1, <3>2, <3>3, <4>3
    <3>4. CASE v # b
      BY <1>12, <3>1, <3>2, <3>4
    <3> QED BY <3>3, <3>4
  <2> QED BY <2>2, BumpsMap
<1> QED BY <1>1, <1>2, <1>3, <1>4, <1>9, <1>13, <1>14, BumpBegins

-----------------------------------------------------------------------------
(* The crawler.                                                            *)

CrawlTyped ==
    /\ enabled \subseteq Lrus /\ remaining \in [Lrus -> Nat] /\ crawler_count \in Int
    /\ c = [pc |-> c.pc, type |-> c.type, it |-> c.it]
    /\ c.pc \in {"wait", "loop", "sleep", "eval"}
    /\ starting = [ids |-> starting.ids, remaining |-> starting.remaining, by |-> starting.by]
    /\ starting.ids \subseteq Lrus /\ starting.remaining \in Nat \cup {CAP}

LEMMA CrawlTypes1 ==
    ASSUME IInv
    PROVE  CrawlTyped /\ ThreadsTyped
BY DEF IInv, Types, CrawlTyped, ThreadsTyped

LEMMA TypesFrom ==
    ASSUME item' \in [Items -> ItemRecords], table' \in [Keys -> Items \cup {None}],
           held' \in [Items -> Nat], lock' \in [Keys -> Workers \cup {Maintainer, Crawler, None}],
           lru_lock' \in [Lrus -> Pullers \cup {None}], ThreadsTyped',
           buf' \in [Workers -> BufferRecords], CrawlTyped'
    PROVE  Types'
BY DEF Types, ThreadsTyped, CrawlTyped

\* Nothing but the crawl changes.
CrawlRest == /\ item' = item /\ table' = table /\ held' = held /\ lock' = lock
             /\ lru_lock' = lru_lock /\ th' = th /\ buf' = buf /\ starting' = starting

\* Lists are struck off under their LRU lock.
CrawlLocked == \A l \in Lrus : lru_lock[l] # None => (l \in enabled => l \in enabled')

\* A step of the crawler that leaves the items as they are.
LEMMA CrawlStep ==
    ASSUME IInv, CrawlRest, c.pc # "eval", c'.pc # "eval", CrawlTyped', CrawlLocked,
           Good(q', Places, enabled', remaining')
    PROVE  IInv'
<1>1. /\ Crawler \in Threads /\ Crawler \notin Pullers /\ Crawler # Maintainer /\ Crawler \notin Workers
      /\ None \notin Items
  BY Constants DEF Threads, Nodes
<1>2. /\ item' = item /\ table' = table /\ held' = held /\ lock' = lock
      /\ lru_lock' = lru_lock /\ th' = th /\ buf' = buf /\ starting' = starting
  BY DEF CrawlRest
<1>3. Types'
  <2>1. ThreadsTyped'
    BY <1>2, CrawlTypes1 DEF ThreadsTyped
  <2> QED BY <1>2, <2>1, TypesFrom DEF IInv, Types
<1>4. \A y : Bumps(y)' = Bumps(y)
  BY <1>2 DEF Bumps
<1>5. \A y : SameRel(Crawler, y)
  BY <1>1, <1>2 DEF SameRel, Unl, Lnk, Mov, Hld, Evals
<1>6. \A w \in Workers : buf[w].a_end \in Nat
  BY Buffers
<1>7. Frame(None, Crawler)
  BY <1>1, <1>2, <1>4, <1>5, <1>6 DEF Frame, CrawlLocked
<1>8. EvalOK'
  BY DEF EvalOK
<1>9. StartingOK'
  BY <1>2 DEF IInv, ThreadsOK, StartingOK
<1>10. MaintainerOK'
  BY <1>1, <1>3, <1>7, MaintainerKept
<1>11. Places' = Places
  BY <1>1, <1>7, <1>10, PlacesStep
<1>12. \A w \in Workers : BufferOK(buf'[w])
  BY <1>2 DEF IInv
<1> QED BY <1>1, <1>3, <1>7, <1>8, <1>9, <1>11, <1>12, Preserved

LEMMA Step_CrawlerWakes ==
    ASSUME IInv, CrawlerWakes
    PROVE  IInv'
<1>1. /\ c.pc = "sleep" /\ c' = [c EXCEPT !.pc = "loop"]
      /\ q' = q /\ CrawlRest /\ enabled' = enabled /\ remaining' = remaining
      /\ crawler_count' = crawler_count
  BY DEF CrawlerWakes, CrawlRest, memoryVars
<1>2. CrawlTyped
  BY CrawlTypes1
<1>3. c'.pc = "loop" /\ CrawlTyped'
  BY <1>1, <1>2 DEF CrawlTyped, CrawlRest
<1>4. Good(q', Places, enabled', remaining')
  BY <1>1 DEF IInv, ListsInv
<1> QED BY <1>1, <1>3, <1>4, CrawlStep DEF CrawlLocked

LEMMA Step_CrawlEnds ==
    ASSUME IInv, CrawlEnds
    PROVE  IInv'
<1>1. /\ c.pc = "loop" /\ c' = NoCrawl
      /\ q' = q /\ CrawlRest /\ enabled' = enabled /\ remaining' = remaining
      /\ crawler_count' = crawler_count
  BY DEF CrawlEnds, CrawlRest, memoryVars
<1>2. CrawlTyped
  BY CrawlTypes1
<1>3. c'.pc = "wait" /\ CrawlTyped'
  BY <1>1, <1>2 DEF CrawlTyped, CrawlRest, NoCrawl
<1>4. Good(q', Places, enabled', remaining')
  BY <1>1 DEF IInv, ListsInv
<1> QED BY <1>1, <1>3, <1>4, CrawlStep DEF CrawlLocked

Largest(S) == S = {} \/ \E x \in S : \A y \in S : x >= y

LEMMA LargerStill ==
    ASSUME NEW S, NEW T, T \subseteq Nat, NEW a, a \in Nat, Largest(S \cap T)
    PROVE  Largest(S \cap (T \cup {a}))
<1>1. CASE a \notin S
  <2>1. S \cap (T \cup {a}) = S \cap T
    BY <1>1
  <2> QED BY <2>1
<1>2. CASE a \in S /\ S \cap T = {}
  <2>1. S \cap (T \cup {a}) = {a}
    BY <1>2
  <2>2. a >= a
    OBVIOUS
  <2> QED BY <2>1, <2>2 DEF Largest
<1>3. CASE a \in S /\ S \cap T # {}
  <2>1. PICK x \in S \cap T : \A y \in S \cap T : x >= y
    BY <1>3 DEF Largest
  <2>2. x \in Nat /\ \A y \in S \cap T : y \in Nat
    BY <2>1
  <2>3. PICK z \in {x, a} : z >= x /\ z >= a
    BY ONLY <2>2, a \in Nat
  <2>4. z \in Nat /\ z \in S \cap (T \cup {a})
    BY <1>3, <2>2
  <2>5. \A y \in S \cap T : z >= y
    BY ONLY <2>1, <2>2, <2>3, <2>4
  <2>6. \A y \in S \cap (T \cup {a}) : z >= y
    BY <2>3, <2>5
  <2> QED BY <2>4, <2>6 DEF Largest
<1> QED BY <1>1, <1>2, <1>3

\* A size is the number of the items in the list.
LEMMA SizesAre ==
    ASSUME IInv, NEW l \in Lrus
    PROVE  q.sizes[l] \in Nat /\ q.sizes[l] = Cardinality(Placed(Places, l))
<1>1. q.sizes[l] = Cardinality(Placed(Places, l))
  BY DEF IInv, ListsInv, Good
<1>2. IsFiniteSet(Placed(Places, l))
  BY Constants, FS_Subset DEF Placed
<1> QED BY <1>1, <1>2, FS_CardinalityType

\* A nonempty set of sub-LRUs has a largest one.
LEMMA Longest ==
    ASSUME NEW f, \A l \in Lrus : f[l] \in Nat, NEW ids, ids \subseteq Lrus, ids # {}
    PROVE  Max({f[l] : l \in ids}) \in Nat
<1>1. PICK a, b, d, e, S : a = f[HOT] /\ b = f[WARM] /\ d = f[COLD] /\ e = f[TEMP]
                           /\ S = {f[l] : l \in ids}
  OBVIOUS
<1>2. a \in Nat /\ b \in Nat /\ d \in Nat /\ e \in Nat
  BY <1>1, Constants
<1>3. S \subseteq {a, b, d, e} /\ S # {}
  BY <1>1, Constants
<1>4. \E x \in S : \A y \in S : x >= y
  <2>1. Largest(S \cap {})
    BY DEF Largest
  <2>2. Largest(S \cap ({} \cup {a}))
    BY <1>2, <2>1, LargerStill
  <2>3. Largest(S \cap ({} \cup {a} \cup {b}))
    BY <1>2, <2>2, LargerStill
  <2>4. Largest(S \cap ({} \cup {a} \cup {b} \cup {d}))
    BY <1>2, <2>3, LargerStill
  <2>5. Largest(S \cap ({} \cup {a} \cup {b} \cup {d} \cup {e}))
    BY <1>2, <2>4, LargerStill
  <2>6. S \cap ({} \cup {a} \cup {b} \cup {d} \cup {e}) = S
    BY <1>3
  <2> QED BY <1>3, <2>5, <2>6 DEF Largest
<1>5. Max(S) \in S
  BY ONLY <1>4 DEF Max
<1> QED BY ONLY <1>1, <1>2, <1>3, <1>5

LEMMA Step_lru_maintainer_crawler_check ==
    ASSUME IInv, NEW ids \in Crawls, lru_maintainer_crawler_check(ids)
    PROVE  IInv'
<1>1. ids \subseteq Lrus /\ ids # {}
  BY LruAssumption
<1>2. PICK longest, n, s :
        /\ longest = Max({q.sizes[l] : l \in ids})
        /\ n = (IF Tocrawl # 0 THEN Min({Tocrawl, longest}) ELSE longest)
        /\ s = [Idle EXCEPT !.pc = "crawl", !.ids = ids, !.size = n]
  OBVIOUS
<1>3. /\ th[Maintainer].pc = "idle" /\ th' = [th EXCEPT ![Maintainer] = s]
      /\ q' = q /\ item' = item /\ table' = table /\ held' = held /\ lock' = lock
      /\ lru_lock' = lru_lock /\ buf' = buf /\ crawlVars' = crawlVars
  BY <1>2 DEF lru_maintainer_crawler_check, Begins, memoryVars
<1>4. longest \in Nat
  <2>1. \A l \in Lrus : q.sizes[l] \in Nat
    BY SizesAre
  <2> QED BY <1>1, <1>2, <2>1, Longest
<1>5. n \in Nat
  <2>1. Tocrawl \in Nat
    BY Constants
  <2>2. \E x \in {Tocrawl, longest} : \A y \in {Tocrawl, longest} : x =< y
    BY ONLY <1>4, <2>1
  <2>3. Min({Tocrawl, longest}) \in {Tocrawl, longest}
    BY ONLY <2>2 DEF Min
  <2> QED BY ONLY <1>2, <1>4, <2>1, <2>3
<1>6. IsThread(s) /\ s.pc = "crawl" /\ s.own = 0 /\ s.ids = ids /\ s.size = n /\ s.it = None /\ s.search = None
  BY ONLY <1>2 DEF IsThread, Idle
<1>7. Maintainer \in Pullers /\ Maintainer \notin Workers /\ None \notin Items
  BY Constants DEF Nodes
<1>8. Others(Maintainer, None, s)
  <2>1. th[Maintainer].own = 0 /\ \A y : SameRec(th[Maintainer], s, y)
    BY <1>3, <1>6, <1>7, PullerIs DEF SameRec, UnlR, LnkR, MovR, HldR
  <2> QED BY <1>3, <1>6, <2>1, LockSame, LruLockSame, TableSame DEF Others, Away
<1>9. Fits(Maintainer, s, Places)
  BY <1>1, <1>5, <1>6, <1>7 DEF Fits, Strolls, Pulls, Maintains
<1> QED BY <1>3, <1>7, <1>8, <1>9, ThreadStep

\* The items and their locks stay as they are.
StartRest == /\ item' = item /\ table' = table /\ held' = held /\ lock' = lock
             /\ lru_lock' = lru_lock /\ buf' = buf /\ enabled \subseteq enabled'
             /\ (c'.pc = "eval" <=> c.pc = "eval") /\ c'.it = c.it

\* A step of a thread that starts a crawl.
LEMMA StartStep ==
    ASSUME IInv, StartRest, NEW t \in Pullers, th[t].pc \in {"idle", "crawl", "starting"},
           NEW s, IsThread(s), s.pc \in {"idle", "starting"}, s.own = 0,
           th' = [th EXCEPT ![t] = s], CrawlTyped', StartingOK',
           Good(q', Places, enabled', remaining')
    PROVE  IInv'
<1>1. t \in Threads /\ t # Crawler /\ None \notin Items /\ th[t].own = 0
  BY Constants, PullerIs DEF Nodes
<1>2. /\ item' = item /\ table' = table /\ held' = held /\ lock' = lock
      /\ lru_lock' = lru_lock /\ buf' = buf /\ enabled \subseteq enabled'
      /\ (c'.pc = "eval" <=> c.pc = "eval") /\ c'.it = c.it
  BY DEF StartRest
<1>3. ThreadsTyped' /\ th'[t] = s /\ \A u \in Pullers \ {t} : th'[u] = th[u]
  BY ThreadTyped
<1>4. Types'
  BY <1>2, <1>3, TypesFrom DEF IInv, Types
<1>5. PICK r : r = th[t]
  OBVIOUS
<1>6. \A y : /\ ~UnlR(r, y) /\ ~LnkR(r, y) /\ ~MovR(r, y) /\ ~HldR(r, y)
             /\ ~UnlR(s, y) /\ ~LnkR(s, y) /\ ~MovR(s, y) /\ ~HldR(s, y)
  BY <1>1, <1>5 DEF UnlR, LnkR, MovR, HldR
<1>7. \A y : t = Maintainer => ~Bumped(y) /\ ~Bumped(y)'
  BY <1>3, <1>5 DEF Bumped
<1>8. \A y : SameRel(t, y)
  BY <1>1, <1>3, <1>5, <1>6, <1>7, RelRecords, RelRecordsNext, PullerIs DEF SameRel
<1>9. \A y : Bumps(y)' = Bumps(y)
  <2>1. CASE t = Maintainer
    <3>1. Away(th[Maintainer]) /\ Away(th'[Maintainer])
      BY <1>3, <2>1 DEF Away
    <3> QED BY <1>2, <3>1, BumpsSame
  <2>2. CASE t # Maintainer
    <3>1. th'[Maintainer] = th[Maintainer]
      BY <1>3, <2>2, Constants
    <3> QED BY <1>2, <3>1, BumpsSame
  <2> QED BY <2>1, <2>2
<1>10. \A w \in Workers : buf[w].a_end \in Nat
  BY Buffers
<1>11. Frame(None, t)
  BY <1>1, <1>2, <1>3, <1>8, <1>9, <1>10 DEF Frame
<1>12. t \in Workers => WorkerOK(t)'
  BY <1>3 DEF WorkerOK
<1>13. PullerOK(t)'
  BY <1>3 DEF PullerOK
<1>14. MaintainerOK'
  <2>1. CASE t = Maintainer
    BY <1>3, <2>1 DEF MaintainerOK
  <2>2. CASE t # Maintainer
    BY <1>1, <1>4, <1>11, <2>2, MaintainerKept
  <2> QED BY <2>1, <2>2
<1>15. Places' = Places
  BY <1>1, <1>11, <1>14, PlacesStep
<1>16. \A w \in Workers : BufferOK(buf'[w])
  BY <1>2 DEF IInv
<1> QED BY <1>1, <1>4, <1>11, <1>12, <1>13, <1>14, <1>15, <1>16, Preserved

LEMMA Step_lru_crawler_start ==
    ASSUME IInv, NEW t \in Pullers, NEW type, NEW ids, ids \subseteq Lrus, NEW n, n \in Nat \cup {CAP},
           th[t].pc \in {"idle", "crawl"}, lru_crawler_start(t, type, ids, n)
    PROVE  IInv'
<1>1. PICK s : s = [Idle EXCEPT !.pc = "starting"]
  OBVIOUS
<1>2. IsThread(s) /\ s.pc = "starting" /\ s.own = 0
  BY ONLY <1>1 DEF IsThread, Idle
<1>3. /\ starting' = [ids |-> ids, remaining |-> n, by |-> t]
      /\ th' = [th EXCEPT ![t] = s]
      /\ c' = IF lru_crawler_running THEN c ELSE [c EXCEPT !.type = type]
      /\ q' = q /\ item' = item /\ table' = table /\ held' = held /\ lock' = lock
      /\ lru_lock' = lru_lock /\ buf' = buf /\ enabled' = enabled /\ remaining' = remaining
      /\ crawler_count' = crawler_count
  BY <1>1 DEF lru_crawler_start, memoryVars
<1>4. CrawlTyped
  BY CrawlTypes1
<1>5. c' = [pc |-> c.pc, type |-> c'.type, it |-> c.it]
  <2>1. PICK a, b, d : a = c.pc /\ b = c.type /\ d = c.it
    OBVIOUS
  <2>2. c = [pc |-> a, type |-> b, it |-> d]
    BY <1>4, <2>1 DEF CrawlTyped
  <2>3. c' = c \/ c' = [c EXCEPT !.type = type]
    BY <1>3
  <2>4. c' = [pc |-> a, type |-> b, it |-> d] \/ c' = [pc |-> a, type |-> type, it |-> d]
    BY ONLY <2>2, <2>3
  <2> QED BY ONLY <2>1, <2>4
<1>6. PICK e : e = c'.type
  OBVIOUS
<1>7. c' = [pc |-> c.pc, type |-> e, it |-> c.it]
  BY ONLY <1>5, <1>6
<1>8. c'.pc = c.pc /\ c'.it = c.it /\ c'.type = e
  BY ONLY <1>7
<1>9. CrawlTyped'
  <2>1. /\ enabled' \subseteq Lrus /\ remaining' \in [Lrus -> Nat] /\ crawler_count' \in Int
        /\ c'.pc \in {"wait", "loop", "sleep", "eval"}
    BY <1>3, <1>4, <1>8 DEF CrawlTyped
  <2>2. starting'.ids = ids /\ starting'.remaining = n /\ starting'.by = t
    BY ONLY <1>3
  <2>3. starting' = [ids |-> starting'.ids, remaining |-> starting'.remaining, by |-> starting'.by]
    BY ONLY <1>3
  <2>4. c' = [pc |-> c'.pc, type |-> c'.type, it |-> c'.it]
    BY ONLY <1>7
  <2> QED BY <2>1, <2>2, <2>3, <2>4 DEF CrawlTyped
<1>10. StartingOK'
  <2>1. th'[t] = s
    BY <1>2, <1>3, ThreadTyped
  <2>2. starting'.by = t
    BY <1>3
  <2> QED BY <1>2, <2>1, <2>2 DEF StartingOK
<1>11. StartRest
  BY <1>3, <1>8 DEF StartRest
<1>12. Good(q', Places, enabled', remaining')
  BY <1>3 DEF IInv, ListsInv
<1> QED BY <1>2, <1>3, <1>9, <1>10, <1>11, <1>12, StartStep

LEMMA Step_lru_crawler_crawl ==
    ASSUME IInv, NEW w \in Workers, NEW type, NEW ids \in Crawls, lru_crawler_crawl(w, type, ids)
    PROVE  IInv'
<1>1. ids \subseteq Lrus
  BY LruAssumption
<1>2. PICK n : n = (IF type = METADUMP THEN CAP ELSE Tocrawl)
  OBVIOUS
<1>3. n \in Nat \cup {CAP} /\ w \in Pullers
  BY <1>2, Constants
<1>4. th[w].pc = "idle" /\ lru_crawler_start(w, type, ids, n)
  BY <1>2 DEF lru_crawler_crawl, Begins
<1> QED BY <1>1, <1>3, <1>4, Step_lru_crawler_start

LEMMA Step_MaintainerCrawls ==
    ASSUME IInv, MaintainerCrawls
    PROVE  IInv'
<1>1. PICK r : r = th[Maintainer]
  OBVIOUS
<1>2. Maintainer \in Pullers /\ Maintainer \notin Workers /\ None \notin Items /\ r.own = 0
  BY <1>1, Constants, PullerIs DEF MaintainerCrawls, Nodes
<1>3. r.pc = "crawl" /\ r.ids \subseteq Lrus /\ r.size \in Nat
  BY <1>1 DEF IInv, ThreadsOK, MaintainerOK, MaintainerCrawls
<1>4. CASE lru_crawler_start(Maintainer, AUTOEXPIRE, r.ids, r.size)
  BY <1>1, <1>2, <1>3, <1>4, Step_lru_crawler_start
<1>5. CASE /\ th' = [th EXCEPT ![Maintainer] = Idle]
           /\ UNCHANGED <<q, memoryVars, lock, lru_lock, buf, crawlVars>>
  <2>1. /\ q' = q /\ item' = item /\ table' = table /\ held' = held /\ lock' = lock
        /\ lru_lock' = lru_lock /\ buf' = buf /\ crawlVars' = crawlVars
    BY <1>5 DEF memoryVars
  <2>2. IsThread(Idle) /\ Idle.pc = "idle" /\ Idle.own = 0 /\ Idle.search = None
    BY DEF IsThread, Idle
  <2>3. Others(Maintainer, None, Idle)
    <3>1. \A y : SameRec(r, Idle, y)
      BY <1>2, <1>3, <2>2 DEF SameRec, UnlR, LnkR, MovR, HldR
    <3> QED BY <1>1, <1>3, <1>5, <2>1, <2>2, <3>1, LockSame, LruLockSame, TableSame DEF Others, Away
  <2>4. Fits(Maintainer, Idle, Places)
    BY <1>2, <2>2 DEF Fits, Strolls, Pulls, Maintains
  <2> QED BY <1>2, <2>1, <2>3, <2>4, ThreadStep
<1> QED BY <1>1, <1>4, <1>5 DEF MaintainerCrawls

\* Where the crawler thread is, with its record's other fields kept.
LEMMA CrawlerPc ==
    ASSUME CrawlTyped, NEW pc, pc \in {"wait", "loop", "sleep", "eval"}, c' = [c EXCEPT !.pc = pc]
    PROVE  c' = [pc |-> c'.pc, type |-> c'.type, it |-> c'.it] /\ c'.pc = pc /\ c'.it = c.it
<1>1. PICK a, b, d : a = c.pc /\ b = c.type /\ d = c.it
  OBVIOUS
<1>2. c = [pc |-> a, type |-> b, it |-> d]
  BY <1>1 DEF CrawlTyped
<1>3. c' = [pc |-> pc, type |-> b, it |-> d]
  BY ONLY <1>2, c' = [c EXCEPT !.pc = pc]
<1> QED BY ONLY <1>1, <1>3

LEMMA Step_do_lru_crawler_start ==
    ASSUME IInv, NEW l \in Lrus, do_lru_crawler_start(l)
    PROVE  IInv'
<1>1. PICK n, t, r, D, pc :
        /\ n = (IF starting.remaining = CAP THEN q.sizes[l] ELSE starting.remaining)
        /\ t = starting.by /\ r = th[t]
        /\ D = (IF n = 0 \/ n >= q.sizes[l] THEN Listed(l) ELSE {})
        /\ pc = (IF starting.ids = {l} /\ c.pc = "wait" /\ enabled' # {} THEN "loop" ELSE c.pc)
  OBVIOUS
<1>2. /\ l \in starting.ids
      /\ item' = item /\ table' = table /\ held' = held /\ lock' = lock
      /\ lru_lock' = lru_lock /\ buf' = buf
  BY DEF do_lru_crawler_start, memoryVars
<1>3. c' = [c EXCEPT !.pc = pc]
  BY <1>1 DEF do_lru_crawler_start
<1>4. CrawlTyped
  BY CrawlTypes1
<1>5. /\ t \in Pullers /\ r.pc = "starting" /\ r.own = 0 /\ IsThread(r) /\ ThreadsTyped
  <2>1. t \in Pullers /\ r.pc = "starting"
    BY <1>1, <1>2 DEF IInv, ThreadsOK, StartingOK
  <2> QED BY <1>1, <2>1, PullerIs, CrawlTypes1
<1>6. n \in Nat
  BY <1>1, <1>4, SizesAre DEF CrawlTyped
<1>7. PICK s : /\ s \in {r, Idle} /\ th' = [th EXCEPT ![t] = s]
               /\ \/ starting' = NotStarting
                  \/ s = r /\ starting' = [starting EXCEPT !.ids = @ \ {l}]
  <2>1. CASE starting.ids = {l}
    BY <1>1, <2>1 DEF do_lru_crawler_start
  <2>2. CASE starting.ids # {l}
    <3>1. th' = th /\ starting' = [starting EXCEPT !.ids = @ \ {l}]
      BY <2>2 DEF do_lru_crawler_start
    <3>2. th = [th EXCEPT ![t] = r]
      BY <1>1, <1>5 DEF ThreadsTyped
    <3> QED BY <3>1, <3>2
  <2> QED BY <2>1, <2>2
<1>8. IsThread(s) /\ s.pc \in {"idle", "starting"} /\ s.own = 0
  BY <1>5, <1>7 DEF IsThread, Idle
<1>9. th'[t] = s
  BY <1>5, <1>7, <1>8, ThreadTyped
<1>10. /\ starting' = [ids |-> starting'.ids, remaining |-> starting'.remaining, by |-> starting'.by]
       /\ starting'.ids \subseteq Lrus /\ starting'.remaining \in Nat \cup {CAP}
       /\ starting'.ids # {} => starting'.by = t /\ s = r
  <2>1. CASE starting' = NotStarting
    BY <2>1 DEF NotStarting
  <2>2. CASE s = r /\ starting' = [starting EXCEPT !.ids = @ \ {l}]
    <3>1. PICK a, b, d, e : a = starting.ids /\ b = starting.remaining /\ d = starting.by /\ e = a \ {l}
      OBVIOUS
    <3>2. starting = [ids |-> a, remaining |-> b, by |-> d] /\ a \subseteq Lrus /\ b \in Nat \cup {CAP}
      BY <1>4, <3>1 DEF CrawlTyped
    <3>3. starting' = [ids |-> e, remaining |-> b, by |-> d]
      BY ONLY <2>2, <3>1, <3>2
    <3>4. starting'.ids = e /\ starting'.remaining = b /\ starting'.by = d
      BY ONLY <3>3
    <3>5. e \subseteq Lrus
      BY <3>1, <3>2
    <3> QED BY ONLY <1>1, <2>2, <3>1, <3>2, <3>3, <3>4, <3>5
  <2> QED BY <1>7, <2>1, <2>2
<1>11. StartingOK'
  BY <1>5, <1>9, <1>10 DEF StartingOK
<1>12. /\ c' = [pc |-> c'.pc, type |-> c'.type, it |-> c'.it]
       /\ c'.pc \in {"wait", "loop", "sleep", "eval"} /\ (c'.pc = "eval" <=> c.pc = "eval")
       /\ c'.it = c.it
  <2>1. pc \in {"wait", "loop", "sleep", "eval"} /\ (pc = "eval" <=> c.pc = "eval")
    BY <1>1, <1>4 DEF CrawlTyped
  <2> QED BY <1>3, <1>4, <2>1, CrawlerPc
<1>13. /\ enabled' \subseteq Lrus /\ enabled \subseteq enabled' /\ remaining' \in [Lrus -> Nat]
       /\ crawler_count' \in Int /\ Good(q', Places, enabled', remaining')
  <2>1. /\ IsPlaces(Places) /\ Good(q, Places, enabled, remaining) /\ remaining \in [Lrus -> Nat]
        /\ enabled \subseteq Lrus /\ crawler_count \in Int
    BY <1>4, PlacesAre DEF IInv, ListsInv, CrawlTyped
  <2>2. CASE l \in enabled
    <3>1. /\ q' = q /\ remaining' = remaining /\ enabled' = enabled /\ crawler_count' = crawler_count
      BY <2>2 DEF do_lru_crawler_start
    <3> QED BY <2>1, <3>1
  <2>3. CASE l \notin enabled
    <3>1. /\ q' = [do_item_linktail_q(l) EXCEPT !.due[l] = D]
          /\ remaining' = [remaining EXCEPT ![l] = CrawlLimit(n)]
          /\ enabled' = enabled \cup {l} /\ crawler_count' = crawler_count + 1
      BY <1>1, <2>3 DEF do_lru_crawler_start
    <3>2. Listed(l) = Placed(Places, l)
      <4>1. \A x \in Items : Place(x) \in {None, item[x].lru}
        BY PlacesAre
      <4> QED BY <4>1, ListedIs DEF IInv
    <3>3. D = IF n = 0 \/ n >= q.sizes[l] THEN Placed(Places, l) ELSE {}
      BY <1>1, <3>2
    <3>4. Good([do_item_linktail_q(l) EXCEPT !.due[l] = D], Places, enabled \cup {l},
               [remaining EXCEPT ![l] = CrawlLimit(n)])
      BY ONLY <1>6, <2>1, <2>3, <3>3, l \in Lrus, StartGood
    <3>5. CrawlLimit(n) \in Nat
      BY ONLY <1>6 DEF CrawlLimit
    <3> QED BY <2>1, <3>1, <3>4, <3>5
  <2> QED BY <2>2, <2>3
<1>14. CrawlTyped'
  BY ONLY <1>10, <1>12, <1>13 DEF CrawlTyped
<1>15. StartRest
  BY <1>2, <1>12, <1>13 DEF StartRest
<1>16. th[t].pc \in {"idle", "crawl", "starting"}
  BY <1>1, <1>5
<1>17. Good(q', Places, enabled', remaining')
  BY <1>13
<1> QED BY ONLY IInv, <1>5, <1>7, <1>8, <1>11, <1>14, <1>15, <1>16, <1>17, StartStep

\* An item that no thread but the crawler has to do with.
LEMMA CrawledIs ==
    ASSUME IInv, NEW x \in Items, Alone(x, Crawler),
           NEW h, h = held[x], NEW n, n = Cardinality(Bumps(x)), NEW e, e = Num(Evals(x))
    PROVE  /\ h \in Nat /\ n \in Nat /\ e \in {0, 1}
           /\ item[x].ref = (IF "LINKED" \in item[x].flags THEN 1 ELSE 0) + h + e + n
           /\ Place(x) = IF "LINKED" \in item[x].flags THEN item[x].lru ELSE None
<1>1. Crawler \in Threads /\ Crawler \notin Pullers /\ Crawler \notin Workers /\ Crawler # Maintainer
  BY Constants DEF Threads
<1>2. MaintainerOK /\ Exact(x)
  BY DEF IInv, ThreadsOK
<1>3. /\ Unlinking(x) <=> Unl(Crawler, x)
      /\ Linking(x) <=> Lnk(Crawler, x)
      /\ Moving(x) <=> Mov(Crawler, x)
      /\ Cardinality(Holders(x)) = Num(Hld(Crawler, x))
  BY <1>1, <1>2, AloneNow DEF AloneIs
<1>4. /\ ~Unl(Crawler, x) /\ ~Lnk(Crawler, x) /\ ~Mov(Crawler, x)
      /\ Hld(Crawler, x) <=> Evals(x)
  BY <1>1 DEF Unl, Lnk, Mov, Hld
<1>5. h \in Nat /\ n \in Nat
  BY Counts, ItemFields
<1>6. Num(Hld(Crawler, x)) = e /\ e \in {0, 1}
  BY <1>4 DEF Num
<1>7. item[x].ref = LinkRef(x) + h + e + n
  BY <1>2, <1>3, <1>6 DEF Exact
<1>8. LinkRef(x) = IF "LINKED" \in item[x].flags THEN 1 ELSE 0
  BY <1>3, <1>4 DEF LinkRef
<1>9. Place(x) = IF "LINKED" \in item[x].flags THEN item[x].lru ELSE None
  BY <1>3, <1>4 DEF Place
<1> QED BY ONLY <1>5, <1>6, <1>7, <1>8, <1>9

CrawlFrame(x) == /\ th' = th /\ buf' = buf /\ lru_lock' = lru_lock /\ held' = held
                 /\ starting' = starting /\ enabled' = enabled
                 /\ Locks(Crawler) /\ Tables(Crawler, x)
                 /\ c.pc = "eval" => c.it = x
                 /\ c'.pc = "eval" => c'.it = x
CrawlCounts(p, x) ==
    p.ref = (IF "LINKED" \in p.flags THEN 1 ELSE 0) + held[x] + Num(Evals(x)') + Cardinality(Bumps(x))
CrawlPuts(p, x, m) ==
    /\ m = IF "LINKED" \in p.flags THEN p.lru ELSE None
    /\ \A l \in Lrus : Place(x) = l => m = l \/ lru_lock[l] = None

\* A step of the crawler that makes item x the record p.
LEMMA CrawlItemStep ==
    ASSUME IInv, NEW x, x \in Items, Alone(x, Crawler), CrawlFrame(x), CrawlTyped', EvalOK',
           NEW p, p \in ItemRecords, item' = [item EXCEPT ![x] = p], Hash(x, p),
           CrawlCounts(p, x), NEW m, CrawlPuts(p, x, m),
           NEW P, P = [Places EXCEPT ![x] = m], Good(q', P, enabled', remaining')
    PROVE  IInv'
<1>1. /\ Crawler \in Threads /\ Crawler \notin Pullers /\ Crawler # Maintainer /\ Crawler \notin Workers
  BY Constants DEF Threads
<1>2. /\ th' = th /\ buf' = buf /\ lru_lock' = lru_lock /\ held' = held
      /\ starting' = starting /\ enabled' = enabled
      /\ Locks(Crawler) /\ Tables(Crawler, x)
      /\ c.pc = "eval" => c.it = x
      /\ c'.pc = "eval" => c'.it = x
  BY DEF CrawlFrame
<1>3. /\ item' \in [Items -> ItemRecords] /\ item'[x] = p
      /\ \A y \in Items \ {x} : item'[y] = item[y]
  BY ItemTyped
<1>4. Types'
  <2>1. ThreadsTyped'
    BY <1>2, CrawlTypes1 DEF ThreadsTyped
  <2>2. /\ held' \in [Items -> Nat] /\ lru_lock' \in [Lrus -> Pullers \cup {None}]
        /\ buf' \in [Workers -> BufferRecords]
    BY <1>2 DEF IInv, Types
  <2>3. /\ lock' \in [Keys -> Workers \cup {Maintainer, Crawler, None}]
        /\ table' \in [Keys -> Items \cup {None}]
    BY <1>2 DEF Locks, Tables
  <2> QED BY <1>3, <2>1, <2>2, <2>3, TypesFrom
<1>5. \A y : Bumps(y)' = Bumps(y)
  BY <1>2 DEF Bumps
<1>6. \A y \in Items \ {x} : SameRel(Crawler, y)
  BY <1>1, <1>2 DEF SameRel, Unl, Lnk, Mov, Hld, Evals
<1>7. Frame(x, Crawler)
  <2>1. \A w \in Workers : buf[w].a_end \in Nat
    BY Buffers
  <2>2. \A k \in Keys : lock[k] \notin {None, Crawler} => lock'[k] = lock[k] /\ table'[k] = table[k]
    BY <1>2 DEF Locks, Tables
  <2>3. \A k \in Keys : table'[k] = table[k] \/ {table[k], table'[k]} \subseteq {None, x}
    BY <1>2 DEF Tables
  <2> QED BY <1>2, <1>3, <1>5, <1>6, <2>1, <2>2, <2>3 DEF Frame
<1>8. MaintainerOK'
  BY <1>1, <1>4, <1>7, MaintainerKept
<1>9. StartingOK'
  BY <1>2 DEF IInv, ThreadsOK, StartingOK
<1>10. /\ item'[x].ref = LinkNum(item'[x].flags, Unl(Crawler, x)', Lnk(Crawler, x)') + held'[x]
                         + Num(Hld(Crawler, x)') + Cardinality(Bumps(x)') => Exact(x)'
       /\ Place(x)' = PlaceOf(item'[x].flags, Unl(Crawler, x)', Mov(Crawler, x)', item'[x].lru)
  BY <1>1, <1>7, <1>8, Touched
<1>11. /\ ~Unl(Crawler, x)' /\ ~Lnk(Crawler, x)' /\ ~Mov(Crawler, x)'
       /\ Hld(Crawler, x)' <=> Evals(x)'
  BY <1>1 DEF Unl, Lnk, Mov, Hld
<1>12. Exact(x)'
  <2>1. LinkNum(p.flags, Unl(Crawler, x)', Lnk(Crawler, x)') = IF "LINKED" \in p.flags THEN 1 ELSE 0
    BY <1>11 DEF LinkNum
  <2>2. Num(Hld(Crawler, x)') = Num(Evals(x)')
    BY <1>11 DEF Num
  <2>3. Cardinality(Bumps(x)') = Cardinality(Bumps(x))
    BY <1>5
  <2> QED BY <1>2, <1>3, <1>10, <2>1, <2>2, <2>3 DEF CrawlCounts
<1>13. Place(x)' = m
  BY <1>3, <1>10, <1>11 DEF PlaceOf, CrawlPuts
<1>14. Places' = [Places EXCEPT ![x] = m]
  BY <1>1, <1>7, <1>8, <1>13, PlacesStep
<1>15. PlaceKept(x, Crawler)
  BY <1>13 DEF PlaceKept, CrawlPuts
<1>16. ItemOK(x)'
  <2>1. p.ref = 0 => p = Free
    BY DEF Hash
  <2>2. p.ref # 0 => p.key \in Keys
    BY DEF Hash, Free
  <2>3. "LINKED" \in p.flags => table'[p.key] = x
    BY DEF Hash, Free
  <2> QED BY <1>3, <2>1, <2>2, <2>3 DEF ItemOK
<1>17. \A k \in Keys : table'[k] = x => TableOK(k)'
  BY <1>3 DEF TableOK, Hash
<1>18. Good(q', Places', enabled', remaining')
  BY <1>14
<1>19. \A w \in Workers : BufferOK(buf'[w])
  BY <1>2 DEF IInv
<1> QED BY <1>1, <1>4, <1>7, <1>9, <1>12, <1>15, <1>16, <1>17, <1>18, <1>19, Preserved

\* An item that the marker met, whose lock is free, is linked.
LEMMA MetItem ==
    ASSUME IInv, NEW x \in Items, Place(x) # None, lock[item[x].key] = None
    PROVE  "LINKED" \in item[x].flags
<1>1. SUFFICES ASSUME "LINKED" \notin item[x].flags
               PROVE  FALSE
  OBVIOUS
<1>2. Unlinking(x)
  BY <1>1 DEF Place
<1>3. PICK w \in Workers : th[w].pc \in {"unlink", "replace"} /\ th[w].it = x
  BY <1>2 DEF Unlinking
<1>4. Owns(w, x) /\ w # None
  BY <1>3, WorkerIs DEF WorkerOK
<1> QED BY <1>4 DEF Owns

LEMMA Step_crawler_metadump_eval ==
    ASSUME IInv, crawler_metadump_eval
    PROVE  IInv'
<1>1. PICK x, k, z, h, n, m, p, P :
        /\ x = c.it /\ k = item[x].key /\ z = item[x] /\ h = held[x] /\ n = Cardinality(Bumps(x))
        /\ m = Place(x) /\ p = [z EXCEPT !.ref = z.ref - 1] /\ P = [Places EXCEPT ![x] = m]
  OBVIOUS
<1>2. /\ c.pc = "eval" /\ c' = [c EXCEPT !.pc = "sleep", !.it = None]
      /\ lock' = [lock EXCEPT ![k] = None]
      /\ q' = q /\ table' = table /\ held' = held /\ lru_lock' = lru_lock /\ th' = th /\ buf' = buf
      /\ enabled' = enabled /\ remaining' = remaining /\ crawler_count' = crawler_count
      /\ starting' = starting
  BY <1>1 DEF crawler_metadump_eval
<1>3. /\ x \in Items /\ k \in Keys /\ lock[k] = Crawler /\ "LINKED" \in z.flags
  BY <1>1, <1>2 DEF IInv, ThreadsOK, EvalOK, Owns
<1>4. Crawler \in Threads
  BY DEF Threads
<1>5. Alone(x, Crawler)
  BY <1>1, <1>3, <1>4, AloneWhen
<1>6. Num(Evals(x)) = 1
  BY <1>1, <1>2 DEF Num, Evals
<1>7. /\ h \in Nat /\ n \in Nat
      /\ z.ref = (IF "LINKED" \in z.flags THEN 1 ELSE 0) + h + 1 + n
      /\ m = IF "LINKED" \in z.flags THEN z.lru ELSE None
  BY <1>1, <1>3, <1>5, <1>6, CrawledIs
<1>8. z \in ItemRecords
  BY <1>1, <1>3, ItemFields
<1>9. /\ p \in ItemRecords /\ p.key = k /\ p.lru = z.lru /\ p.flags = z.flags /\ p.ref = z.ref - 1
      /\ p.ref # 0
  <2>1. z.ref - 1 \in Nat /\ z.ref - 1 # 0
    BY ONLY <1>3, <1>7
  <2>2. PICK a, b, d, e : a = z.key /\ b = z.lru /\ d = z.flags /\ e = z.expired
    OBVIOUS
  <2>3. PICK g, j : g = z.ref /\ j = z.ref - 1
    OBVIOUS
  <2>4. /\ z = [key |-> a, lru |-> b, flags |-> d, ref |-> g, expired |-> e]
        /\ a \in Keys \cup {None} /\ b \in Lrus /\ d \in FlagSets /\ e \in BOOLEAN
    BY <1>8, <2>2, <2>3, RecordFields DEF IsItem
  <2>5. p = [key |-> a, lru |-> b, flags |-> d, ref |-> j, expired |-> e]
    BY ONLY <1>1, <2>3, <2>4
  <2> QED BY ONLY <1>1, <2>1, <2>2, <2>3, <2>4, <2>5 DEF ItemRecords
<1>10. item' = [item EXCEPT ![x] = p]
  BY <1>1 DEF crawler_metadump_eval
<1>11. Hash(x, p)
  BY <1>1, <1>2, <1>3, <1>9, HashKept
<1>12. c'.pc = "sleep" /\ c' = [pc |-> c'.pc, type |-> c'.type, it |-> c'.it]
  <2>1. CrawlTyped
    BY CrawlTypes1
  <2>2. PICK a, b, d : a = c.pc /\ b = c.type /\ d = c.it
    OBVIOUS
  <2>3. c = [pc |-> a, type |-> b, it |-> d]
    BY <2>1, <2>2 DEF CrawlTyped
  <2>4. c' = [pc |-> "sleep", type |-> b, it |-> None]
    BY ONLY <1>2, <2>3
  <2> QED BY ONLY <2>4
<1>13. CrawlTyped'
  BY <1>2, <1>12, CrawlTypes1 DEF CrawlTyped
<1>14. EvalOK'
  BY <1>12 DEF EvalOK
<1>15. CrawlFrame(x)
  BY <1>1, <1>2, <1>3, <1>4, <1>12, LockStep, TableSame DEF CrawlFrame
<1>16. Num(Evals(x)') = 0
  BY <1>12 DEF Num, Evals
<1>17. CrawlCounts(p, x)
  BY ONLY <1>1, <1>3, <1>7, <1>9, <1>16 DEF CrawlCounts
<1>18. CrawlPuts(p, x, m)
  BY ONLY <1>1, <1>7, <1>9 DEF CrawlPuts
<1>19. P = [Places EXCEPT ![x] = m] /\ Good(q', P, enabled', remaining')
  BY <1>1, <1>2, <1>3, SamePlace
<1>20. p \in ItemRecords
  BY <1>9
<1> QED BY ONLY IInv, <1>3, <1>5, <1>10, <1>11, <1>13, <1>14, <1>15, <1>17, <1>18, <1>19, <1>20,
                CrawlItemStep

\* What item_crawler_thread does at list l: it ends the crawl, or goes on
\* with the item that the marker met.
CrawlDone(l) ==
    LET r == do_item_crawl_q(l)
    IN  /\ r.found = None \/ remaining[l] = 1
        /\ lru_crawler_class_done(l, r.q)
        /\ remaining' = [remaining EXCEPT ![l] = 0]
        /\ CrawlRest /\ c' = c
CrawlMet(l, x, s) ==
    LET r == do_item_crawl_q(l)
    IN  /\ x = r.found /\ x # None /\ s = [r.q EXCEPT !.due[l] = @ \ {x}]
        /\ remaining' = [remaining EXCEPT ![l] = IF @ = 0 THEN 0 ELSE @ - 1]
        /\ enabled' = enabled /\ crawler_count' = crawler_count /\ held' = held
        /\ lru_lock' = lru_lock /\ th' = th /\ buf' = buf /\ starting' = starting
CrawlAt(l) == c.pc = "loop" /\ l \in enabled /\ lru_lock[l] = None
CrawlSkips(s) == q' = s /\ CrawlRest /\ c' = c
Unshared(x) == ~ItemLocked(x) /\ item[x].ref = 1
CrawlDumps(x, s) == /\ q' = s
                    /\ lock' = [lock EXCEPT ![item[x].key] = Crawler]
                    /\ item' = [item EXCEPT ![x].ref = @ + 1]
                    /\ c' = [c EXCEPT !.pc = "eval", !.it = x]
                    /\ table' = table
LEMMA CrawlCases ==
    ASSUME IInv, NEW l \in Lrus, item_crawler_thread(l)
    PROVE  /\ CrawlAt(l)
           /\ \/ CrawlDone(l)
              \/ \E x, s : /\ CrawlMet(l, x, s)
                           /\ \/ CrawlSkips(s)
                              \/ Unshared(x) /\ CrawlDumps(x, s)
                              \/ Unshared(x) /\ crawler_expired_eval(x, l, s)
<1>1. PICK r, x, s, left : /\ r = do_item_crawl_q(l) /\ x = r.found /\ s = [r.q EXCEPT !.due[l] = @ \ {x}]
                           /\ left = remaining[l] - 1
  OBVIOUS
<1>2. /\ CrawlAt(l) /\ lru_lock' = lru_lock /\ th' = th /\ buf' = buf /\ starting' = starting
  BY DEF item_crawler_thread, CrawlAt
<1>3. l \in enabled /\ remaining[l] \in Nat
  BY <1>2, CrawlTypes1 DEF CrawlAt, CrawlTyped
<1>4. CASE x = None \/ (remaining[l] # 0 /\ left < 1)
  <2>1. /\ lru_crawler_class_done(l, r.q) /\ remaining' = [remaining EXCEPT ![l] = 0]
        /\ item' = item /\ table' = table /\ held' = held /\ lock' = lock /\ c' = c
    BY <1>1, <1>4 DEF item_crawler_thread, memoryVars
  <2>2. x = None \/ remaining[l] = 1
    BY ONLY <1>1, <1>3, <1>4
  <2> QED BY <1>1, <1>2, <2>1, <2>2 DEF CrawlDone, CrawlRest
<1>5. CASE ~(x = None \/ (remaining[l] # 0 /\ left < 1))
  <2>1. /\ remaining' = [remaining EXCEPT ![l] = IF remaining[l] = 0 THEN 0 ELSE left]
        /\ enabled' = enabled /\ crawler_count' = crawler_count /\ held' = held
    BY <1>1, <1>5 DEF item_crawler_thread
  <2>2. CrawlMet(l, x, s)
    BY <1>1, <1>2, <1>5, <2>1 DEF CrawlMet
  <2>3. \/ q' = s /\ item' = item /\ table' = table /\ lock' = lock /\ c' = c
        \/ Unshared(x) /\ CrawlDumps(x, s)
        \/ Unshared(x) /\ crawler_expired_eval(x, l, s)
    BY <1>1, <1>5 DEF item_crawler_thread, Unshared, CrawlDumps
  <2>4. q' = s /\ item' = item /\ table' = table /\ lock' = lock /\ c' = c => CrawlSkips(s)
    BY <1>2, <2>1 DEF CrawlSkips, CrawlRest
  <2> QED BY <1>2, <2>2, <2>3, <2>4
<1> QED BY <1>4, <1>5

LEMMA Step_CrawlDone ==
    ASSUME IInv, NEW l \in Lrus, CrawlAt(l), CrawlDone(l)
    PROVE  IInv' /\ q.due[l] = {}
<1>1. PICK r : r = do_item_crawl_q(l)
  OBVIOUS
<1>2. /\ r.found = None \/ remaining[l] = 1
      /\ enabled' = enabled \ {l} /\ crawler_count' = crawler_count - 1
      /\ q' = Detach(r.q, l, l) /\ remaining' = [remaining EXCEPT ![l] = 0]
      /\ CrawlRest /\ c' = c
  BY <1>1 DEF CrawlDone, lru_crawler_class_done, do_item_unlinktail_q
<1>3. /\ IsPlaces(Places) /\ Good(q, Places, enabled, remaining) /\ remaining \in [Lrus -> Nat]
      /\ CrawlTyped /\ l \in enabled
  BY CrawlTypes1, PlacesAre DEF IInv, ListsInv, CrawlTyped, CrawlAt
<1>4. /\ q.due[l] = {}
      /\ Good(Detach(r.q, l, l), Places, enabled \ {l}, [remaining EXCEPT ![l] = 0])
  BY ONLY <1>1, <1>2, <1>3, l \in Lrus, DoneGood
<1>5. CrawlTyped'
  BY <1>2, <1>3 DEF CrawlTyped, CrawlRest
<1>6. CrawlLocked
  BY <1>2 DEF CrawlLocked, CrawlAt
<1>7. c.pc # "eval" /\ c'.pc # "eval"
  BY <1>2 DEF CrawlAt
<1>8. Good(q', Places, enabled', remaining')
  BY <1>2, <1>4
<1>9. IInv'
  BY <1>2, <1>5, <1>6, <1>7, <1>8, CrawlStep
<1> QED BY <1>4, <1>9

\* The lists when the marker has met x.
LEMMA MetGood ==
    ASSUME IInv, NEW l \in Lrus, CrawlAt(l), NEW x, NEW s, CrawlMet(l, x, s)
    PROVE  /\ x \in Items /\ Place(x) = l /\ Good(s, Places, enabled', remaining')
           /\ remaining' \in [Lrus -> Nat] /\ IsPlaces(Places) /\ Places[x] = l
           /\ c'.pc \in {"loop", "sleep", "eval"} /\ c' = [pc |-> c'.pc, type |-> c'.type, it |-> c'.it]
              => CrawlTyped'
<1>1. PICK r : r = do_item_crawl_q(l)
  OBVIOUS
<1>2. /\ x = r.found /\ x # None /\ s = [r.q EXCEPT !.due[l] = @ \ {x}]
      /\ remaining' = [remaining EXCEPT ![l] = IF @ = 0 THEN 0 ELSE @ - 1]
      /\ enabled' = enabled /\ crawler_count' = crawler_count /\ starting' = starting
  BY <1>1 DEF CrawlMet
<1>3. /\ IsPlaces(Places) /\ Good(q, Places, enabled, remaining) /\ remaining \in [Lrus -> Nat]
      /\ CrawlTyped /\ l \in enabled
  BY CrawlTypes1, PlacesAre DEF IInv, ListsInv, CrawlTyped, CrawlAt
<1>4. x \in Items /\ Places[x] = l /\ Good(Met(r.q, l, x), Places, enabled, Down(remaining, l))
  <2>1. r = do_item_crawl_q(l) /\ x = r.found /\ x # None
    BY <1>1, <1>2
  <2>2. /\ IsPlaces(Places) /\ Good(q, Places, enabled, remaining) /\ remaining \in [Lrus -> Nat]
        /\ l \in enabled /\ l \in Lrus
    BY <1>3
  <2> QED BY ONLY <2>1, <2>2, CrawlGood
<1>5. Place(x) = l
  BY <1>4, PlacesAre
<1>6. remaining' \in [Lrus -> Nat]
  <2>1. remaining[l] # 0 => remaining[l] - 1 \in Nat
    BY <1>3
  <2> QED BY <1>2, <1>3, <2>1
<1>7. Good(s, Places, enabled', remaining')
  BY <1>2, <1>4 DEF Met, Down
<1>8. c'.pc \in {"loop", "sleep", "eval"} /\ c' = [pc |-> c'.pc, type |-> c'.type, it |-> c'.it]
              => CrawlTyped'
  BY <1>2, <1>3, <1>6 DEF CrawlTyped
<1> QED BY <1>3, <1>4, <1>5, <1>6, <1>7, <1>8

LEMMA Step_CrawlSkips ==
    ASSUME IInv, NEW l \in Lrus, CrawlAt(l), NEW x, NEW s, CrawlMet(l, x, s), CrawlSkips(s)
    PROVE  IInv'
<1>1. q' = s /\ CrawlRest /\ c' = c /\ c.pc = "loop" /\ enabled' = enabled
  BY DEF CrawlSkips, CrawlAt, CrawlMet
<1>2. CrawlTyped
  BY CrawlTypes1
<1>3. CrawlTyped' /\ Good(q', Places, enabled', remaining')
  <2>1. c'.pc = "loop" /\ c' = [pc |-> c'.pc, type |-> c'.type, it |-> c'.it]
    BY <1>1, <1>2 DEF CrawlTyped
  <2> QED BY <1>1, <2>1, MetGood
<1> QED BY <1>1, <1>3, CrawlStep DEF CrawlLocked

\* The item the marker met, when its lock is free and nobody refers to it.
LEMMA UnsharedIs ==
    ASSUME IInv, NEW l \in Lrus, CrawlAt(l), NEW x \in Items, Place(x) = l, Unshared(x)
    PROVE  /\ Alone(x, Crawler) /\ "LINKED" \in item[x].flags /\ item[x].lru = l
           /\ item[x].key \in Keys /\ lock[item[x].key] = None /\ table[item[x].key] = x
           /\ item[x].ref = 1 /\ held[x] = 0 /\ Cardinality(Bumps(x)) = 0
<1>1. lock[item[x].key] = None /\ item[x].ref = 1 /\ Crawler \in Threads
  BY DEF Unshared, ItemLocked, Threads
<1>2. l # None
  BY Constants DEF Nodes
<1>3. "LINKED" \in item[x].flags
  BY <1>1, <1>2, MetItem
<1>4. Alone(x, Crawler)
  BY <1>1, <1>3, AloneWhen
<1>5. item[x].key \in Keys /\ table[item[x].key] = x
  BY <1>3, Hashed
<1>6. PICK h, n, e : h = held[x] /\ n = Cardinality(Bumps(x)) /\ e = Num(Evals(x))
  OBVIOUS
<1>7. /\ h \in Nat /\ n \in Nat /\ e \in {0, 1}
      /\ item[x].ref = (IF "LINKED" \in item[x].flags THEN 1 ELSE 0) + h + e + n
      /\ Place(x) = IF "LINKED" \in item[x].flags THEN item[x].lru ELSE None
  BY <1>4, <1>6, CrawledIs
<1>8. item[x].lru = l
  BY <1>3, <1>7
<1>9. PICK f : f = item[x].ref
  OBVIOUS
<1>10. h = 0 /\ n = 0
  <2>1. f = 1 /\ f = 1 + h + e + n
    BY <1>1, <1>3, <1>7, <1>9
  <2> QED BY ONLY <1>7, <2>1
<1> QED BY <1>1, <1>3, <1>4, <1>5, <1>6, <1>8, <1>10

LEMMA Step_CrawlDumps ==
    ASSUME IInv, NEW l \in Lrus, CrawlAt(l), NEW x, NEW s, CrawlMet(l, x, s), Unshared(x),
           CrawlDumps(x, s)
    PROVE  IInv'
<1>1. PICK k, z, p, P : /\ k = item[x].key /\ z = item[x] /\ p = refcount_incr(z)
                        /\ P = [Places EXCEPT ![x] = l]
  OBVIOUS
<1>2. /\ q' = s /\ lock' = [lock EXCEPT ![k] = Crawler] /\ table' = table
      /\ c' = [c EXCEPT !.pc = "eval", !.it = x] /\ item' = [item EXCEPT ![x] = p]
      /\ enabled' = enabled /\ held' = held /\ lru_lock' = lru_lock /\ th' = th /\ buf' = buf
      /\ starting' = starting /\ c.pc = "loop" /\ lru_lock[l] = None
  BY <1>1 DEF CrawlDumps, CrawlMet, CrawlAt, refcount_incr
<1>3. /\ x \in Items /\ Place(x) = l /\ Good(s, Places, enabled', remaining')
      /\ c'.pc \in {"loop", "sleep", "eval"} /\ c' = [pc |-> c'.pc, type |-> c'.type, it |-> c'.it]
              => CrawlTyped'
  BY MetGood
<1>4. /\ Alone(x, Crawler) /\ "LINKED" \in z.flags /\ z.lru = l
      /\ k \in Keys /\ lock[k] = None /\ z.ref = 1 /\ held[x] = 0 /\ Cardinality(Bumps(x)) = 0
  BY <1>1, <1>3, UnsharedIs
<1>5. /\ p \in ItemRecords /\ p.key = k /\ p.lru = l /\ p.flags = z.flags /\ p.ref = 2 /\ p.ref # 0
  <2>1. z \in ItemRecords
    BY <1>1, <1>3, ItemFields
  <2>2. /\ p \in ItemRecords /\ p.key = z.key /\ p.lru = z.lru /\ p.flags = z.flags
        /\ p.ref = z.ref + 1 /\ p.ref # 0
    BY ONLY <1>1, <2>1, Increments
  <2> QED BY ONLY <1>1, <1>4, <2>2
<1>6. Hash(x, p)
  BY <1>1, <1>2, <1>3, <1>4, <1>5, HashKept
<1>7. c'.pc = "eval" /\ c'.it = x /\ c' = [pc |-> c'.pc, type |-> c'.type, it |-> c'.it]
  <2>1. CrawlTyped
    BY CrawlTypes1
  <2>2. PICK a, b, d : a = c.pc /\ b = c.type /\ d = c.it
    OBVIOUS
  <2>3. c = [pc |-> a, type |-> b, it |-> d]
    BY <2>1, <2>2 DEF CrawlTyped
  <2>4. c' = [pc |-> "eval", type |-> b, it |-> x]
    BY ONLY <1>2, <2>3
  <2> QED BY ONLY <2>4
<1>8. CrawlTyped'
  BY <1>3, <1>7
<1>9. Locks(Crawler) /\ lock'[k] = Crawler
  BY <1>2, <1>4, LockStep DEF Threads
<1>10. item'[x] = p
  BY <1>2, <1>3, <1>5, ItemTyped
<1>11. EvalOK'
  BY <1>3, <1>4, <1>5, <1>7, <1>9, <1>10 DEF EvalOK, Owns
<1>12. CrawlFrame(x)
  BY <1>2, <1>7, <1>9, TableSame DEF CrawlFrame
<1>13. Num(Evals(x)') = 1
  BY <1>7 DEF Num, Evals
<1>14. CrawlCounts(p, x)
  BY ONLY <1>4, <1>5, <1>13 DEF CrawlCounts
<1>15. CrawlPuts(p, x, l)
  BY ONLY <1>3, <1>4, <1>5 DEF CrawlPuts
<1>16. Good(q', P, enabled', remaining')
  <2>1. P = Places
    <3>1. \A y \in Items : Places[y] = Place(y)
      BY PlacesAre
    <3> QED BY <1>1, <1>3, <3>1 DEF Places
  <2> QED BY <1>2, <1>3, <2>1
<1>17. item' = [item EXCEPT ![x] = p] /\ p \in ItemRecords /\ x \in Items /\ P = [Places EXCEPT ![x] = l]
  BY <1>1, <1>2, <1>3, <1>5
<1> QED BY ONLY IInv, <1>4, <1>6, <1>8, <1>11, <1>12, <1>14, <1>15, <1>16, <1>17, CrawlItemStep

LEMMA FreeRecord ==
    /\ Free \in ItemRecords /\ Free.ref = 0 /\ Free.flags = {}
BY Constants DEF Free, ItemRecords, FlagSets

LEMMA Step_crawler_expired_eval ==
    ASSUME IInv, NEW l \in Lrus, CrawlAt(l), NEW x, NEW s, CrawlMet(l, x, s), Unshared(x),
           crawler_expired_eval(x, l, s)
    PROVE  IInv'
<1>1. PICK k, z, P, D : /\ k = item[x].key /\ z = item[x] /\ P = [Places EXCEPT ![x] = None]
                        /\ D = [Detach(s, x, l) EXCEPT !.sizes[l] = @ - 1]
  OBVIOUS
<1>2. /\ c' = [c EXCEPT !.pc = "sleep"] /\ lock' = lock
      /\ enabled' = enabled /\ held' = held /\ lru_lock' = lru_lock /\ th' = th /\ buf' = buf
      /\ starting' = starting /\ c.pc = "loop" /\ lru_lock[l] = None
  BY DEF crawler_expired_eval, CrawlMet, CrawlAt
<1>3. /\ x \in Items /\ Place(x) = l /\ Good(s, Places, enabled', remaining')
      /\ remaining' \in [Lrus -> Nat] /\ IsPlaces(Places) /\ Places[x] = l
      /\ c'.pc \in {"loop", "sleep", "eval"} /\ c' = [pc |-> c'.pc, type |-> c'.type, it |-> c'.it]
              => CrawlTyped'
  BY MetGood
<1>4. c'.pc = "sleep" /\ c' = [pc |-> c'.pc, type |-> c'.type, it |-> c'.it]
  <2>1. CrawlTyped
    BY CrawlTypes1
  <2>2. PICK pc : pc = "sleep"
    OBVIOUS
  <2>3. c' = [c EXCEPT !.pc = pc] /\ pc \in {"wait", "loop", "sleep", "eval"}
    BY <1>2, <2>2
  <2> QED BY <2>1, <2>2, <2>3, CrawlerPc
<1>5. CrawlTyped'
  BY <1>3, <1>4
<1>6. CASE ~item[x].expired
  <2>1. q' = s /\ item' = item /\ table' = table
    BY <1>6 DEF crawler_expired_eval
  <2>2. CrawlRest
    BY <1>2, <2>1 DEF CrawlRest
  <2> QED BY <1>2, <1>3, <1>4, <1>5, <2>1, <2>2, CrawlStep DEF CrawlLocked
<1>7. CASE item[x].expired
  <2>1. q' = D /\ item' = [item EXCEPT ![x] = Free] /\ table' = [table EXCEPT ![k] = None]
    BY <1>1, <1>7 DEF crawler_expired_eval
  <2>2. /\ Alone(x, Crawler) /\ "LINKED" \in z.flags /\ z.lru = l
        /\ k \in Keys /\ lock[k] = None /\ table[k] = x /\ z.ref = 1 /\ held[x] = 0
        /\ Cardinality(Bumps(x)) = 0
    BY <1>1, <1>3, UnsharedIs
  <2>3. Tables(Crawler, x) /\ table'[k] = None /\ \A j \in Keys \ {k} : table'[j] = table[j]
    BY <1>3, <2>1, <2>2, TableStep
  <2>4. Hash(x, Free)
    BY <1>3, <2>2, <2>3, FreeRecord, HashCut
  <2>5. EvalOK'
    BY <1>4 DEF EvalOK
  <2>6. CrawlFrame(x)
    BY <1>2, <1>4, <2>3, LockSame DEF CrawlFrame
  <2>7. Num(Evals(x)') = 0
    BY <1>4 DEF Num, Evals
  <2>8. CrawlCounts(Free, x)
    BY ONLY <2>2, <2>7, FreeRecord DEF CrawlCounts
  <2>9. PICK m, p : m = None /\ p = Free
    OBVIOUS
  <2>10. CrawlPuts(p, x, m)
    BY <1>2, <1>3, <2>9, FreeRecord DEF CrawlPuts
  <2>11. Good(q', P, enabled', remaining')
    <3>1. PICK e, rem : e = enabled' /\ rem = remaining'
      OBVIOUS
    <3>2. /\ IsPlaces(Places) /\ Places[x] = l /\ Good(s, Places, e, rem) /\ rem \in [Lrus -> Nat]
          /\ x \in Items
      BY <1>3, <3>1
    <3>3. Good([Detach(s, x, l) EXCEPT !.sizes[l] = @ - 1], [Places EXCEPT ![x] = None], e, rem)
      BY ONLY <3>2, l \in Lrus, DetachGood
    <3> QED BY <1>1, <2>1, <3>1, <3>3
  <2>12. /\ item' = [item EXCEPT ![x] = p] /\ p \in ItemRecords /\ x \in Items
         /\ P = [Places EXCEPT ![x] = m] /\ CrawlCounts(p, x) /\ Hash(x, p)
    BY <1>1, <1>3, <2>1, <2>4, <2>8, <2>9, FreeRecord
  <2> QED BY ONLY IInv, <1>5, <2>2, <2>5, <2>6, <2>10, <2>11, <2>12, CrawlItemStep
<1> QED BY <1>6, <1>7

LEMMA Step_item_crawler_thread ==
    ASSUME IInv, NEW l \in Lrus, item_crawler_thread(l)
    PROVE  IInv' /\ \A j \in enabled : j \notin enabled' => q.due[j] = {}
<1>1. CrawlAt(l)
  BY CrawlCases
<1>2. CASE CrawlDone(l)
  <2>1. IInv' /\ q.due[l] = {}
    BY <1>1, <1>2, Step_CrawlDone
  <2>2. enabled' = enabled \ {l}
    BY <1>2 DEF CrawlDone, lru_crawler_class_done
  <2> QED BY <2>1, <2>2
<1>3. ASSUME NEW x, NEW s, CrawlMet(l, x, s),
             \/ CrawlSkips(s)
             \/ Unshared(x) /\ CrawlDumps(x, s)
             \/ Unshared(x) /\ crawler_expired_eval(x, l, s)
      PROVE  IInv' /\ enabled' = enabled
  <2>1. enabled' = enabled
    BY <1>3 DEF CrawlMet
  <2> QED BY <1>1, <1>3, <2>1, Step_CrawlSkips, Step_CrawlDumps, Step_crawler_expired_eval
<1> QED BY <1>2, <1>3, CrawlCases

-----------------------------------------------------------------------------
(* The initial states and every step keep the inductive invariant.         *)

LEMMA StutterStep ==
    ASSUME IInv, UNCHANGED vars
    PROVE  IInv'
<1>1. /\ q' = q /\ item' = item /\ table' = table /\ held' = held /\ lock' = lock
      /\ lru_lock' = lru_lock /\ th' = th /\ buf' = buf /\ enabled' = enabled
      /\ remaining' = remaining /\ crawler_count' = crawler_count /\ c' = c /\ starting' = starting
  BY DEF vars, memoryVars, crawlVars
<1>2. /\ Crawler \in Threads /\ Crawler \notin Pullers /\ Crawler # Maintainer /\ Crawler \notin Workers
      /\ None \notin Items
  BY Constants DEF Threads, Nodes
<1>3. Types'
  <2>1. ThreadsTyped' /\ CrawlTyped'
    BY <1>1, CrawlTypes1 DEF ThreadsTyped, CrawlTyped
  <2> QED BY <1>1, <2>1, TypesFrom DEF IInv, Types
<1>4. \A y : Bumps(y)' = Bumps(y) /\ SameRel(Crawler, y)
  BY <1>1, <1>2 DEF Bumps, SameRel, Unl, Lnk, Mov, Hld, Evals
<1>5. \A w \in Workers : buf[w].a_end \in Nat
  BY Buffers
<1>6. Frame(None, Crawler)
  BY <1>1, <1>2, <1>4, <1>5 DEF Frame
<1>7. EvalOK'
  BY <1>1 DEF IInv, ThreadsOK, EvalOK, Owns
<1>8. StartingOK'
  BY <1>1 DEF IInv, ThreadsOK, StartingOK
<1>9. MaintainerOK'
  BY <1>2, <1>3, <1>6, MaintainerKept
<1>10. Places' = Places
  BY <1>2, <1>6, <1>9, PlacesStep
<1>11. Good(q', Places', enabled', remaining')
  BY <1>1, <1>10 DEF IInv, ListsInv
<1>12. \A w \in Workers : BufferOK(buf'[w])
  BY <1>1 DEF IInv
<1> QED BY <1>2, <1>3, <1>6, <1>7, <1>8, <1>11, <1>12, Preserved

LEMMA EmptyList ==
    ASSUME NEW l \in Lrus, NEW r, r.heads[l] = None, r.tails[l] = None, r.due[l] = {},
           NEW P, \A x \in Items : P[x] = None, NEW rem
    PROVE  ListOK(r, P, {}, rem, l, <<>>) /\ <<>> \in Lists(l)
<1>1. Len(<<>>) = 0 /\ 1 .. Len(<<>>) = {} /\ 1 .. Len(<<>>) + 1 = {1} /\ 1 .. 1 = {1}
  OBVIOUS
<1>2. Chain(r, l, <<>>)
  BY <1>1 DEF Chain, Once
<1>3. \A x \in Nodes : ~In(x, <<>>) /\ ~Member(P, {}, x, l)
  BY <1>1, Constants DEF In, Member, Nodes
<1>4. Ahead(r, {}, rem, l, <<>>, 1, 1)
  <2>1. 1 .. 1 - 1 = {}
    OBVIOUS
  <2> QED BY <2>1 DEF Ahead
<1>5. <<>> \in Lists(l)
  BY DEF Lists
<1> QED BY <1>1, <1>2, <1>3, <1>4, <1>5 DEF ListOK

LEMMA EmptyGood ==
    ASSUME NEW P, \A x \in Items : P[x] = None, NEW rem, NEW r,
           r = [heads |-> [l \in Lrus |-> None], tails |-> [l \in Lrus |-> None],
                next |-> [x \in Nodes |-> None], prev |-> [x \in Nodes |-> None],
                sizes |-> [l \in Lrus |-> 0], due |-> [l \in Lrus |-> {}]]
    PROVE  Good(r, P, {}, rem)
<1>1. ListsType(r)
  BY DEF ListsType
<1>2. ASSUME NEW l \in Lrus
      PROVE  /\ \E s \in Lists(l) : ListOK(r, P, {}, rem, l, s)
             /\ r.sizes[l] = Cardinality(Placed(P, l))
  <2>1. r.heads[l] = None /\ r.tails[l] = None /\ r.due[l] = {} /\ r.sizes[l] = 0
    OBVIOUS
  <2>2. Placed(P, l) = {}
    BY Constants DEF Placed, Nodes
  <2> QED BY <2>1, <2>2, EmptyList, FS_EmptySet
<1>3. \A x \in Items : r.next[x] = None /\ r.prev[x] = None
  BY DEF Nodes
<1> QED BY <1>1, <1>2, <1>3 DEF Good

LEMMA InitBuffer ==
    BufferOK(bipbuf_init) /\ bipbuf_init \in BufferRecords
<1>1. BumpSize \in Nat
  BY Size
<1>2. bipbuf_init \in BufferRecords
  BY <1>1 DEF bipbuf_init, BufferRecords
<1>3. BufferOK(bipbuf_init)
  <2>1. /\ bipbuf_init.a_start = 0 /\ bipbuf_init.a_end = 0 /\ bipbuf_init.b_end = 0
        /\ bipbuf_init.b_inuse = FALSE
        /\ \A i \in 0 .. BumpSize - 1 : bipbuf_init.data[i] = None
    BY DEF bipbuf_init
  <2>2. 0 .. 0 - 1 = {}
    OBVIOUS
  <2> QED BY <1>1, <2>1, <2>2 DEF BufferOK
<1> QED BY <1>2, <1>3

LEMMA InitInv ==
    ASSUME Init
    PROVE  IInv
<1>1. /\ item = [x \in Items |-> Free] /\ table = [k \in Keys |-> None] /\ held = [x \in Items |-> 0]
      /\ lock = [k \in Keys |-> None] /\ lru_lock = [l \in Lrus |-> None]
      /\ th = [t \in Pullers |-> Idle] /\ buf = [w \in Workers |-> bipbuf_init]
      /\ enabled = {} /\ remaining = [l \in Lrus |-> 0] /\ crawler_count = 0
      /\ c = NoCrawl /\ starting = NotStarting
  BY DEF Init, InitThreads
<1>2. /\ Maintainer \in Pullers /\ Workers \subseteq Pullers /\ None \notin Items
  BY Constants DEF Nodes
<1>3. /\ Idle.pc = "idle" /\ Idle.own = 0 /\ Idle.it = None /\ Idle.search = None /\ IsThread(Idle)
  BY DEF Idle, IsThread
<1>4. /\ c.pc = "wait" /\ c = [pc |-> c.pc, type |-> c.type, it |-> c.it]
      /\ starting = [ids |-> starting.ids, remaining |-> starting.remaining, by |-> starting.by]
      /\ starting.ids = {} /\ starting.remaining = 0
  BY <1>1 DEF NoCrawl, NotStarting
<1>5. Types
  <2>1. DOMAIN th = Pullers /\ th = [t \in Pullers |-> th[t]] /\ \A t \in Pullers : IsThread(th[t])
    BY <1>1, <1>3
  <2>2. buf \in [Workers -> BufferRecords]
    BY <1>1, InitBuffer
  <2>3. Free \in ItemRecords
    BY FreeRecord
  <2> QED BY <1>1, <1>4, <2>1, <2>2, <2>3 DEF Types
<1>6. ThreadsOK
  <2>1. \A t \in Pullers : th[t] = Idle
    BY <1>1
  <2>2. (\A w \in Workers : WorkerOK(w)) /\ (\A t \in Pullers : PullerOK(t)) /\ MaintainerOK
    BY <1>2, <1>3, <2>1 DEF WorkerOK, PullerOK, MaintainerOK
  <2>3. EvalOK /\ StartingOK
    BY <1>4 DEF EvalOK, StartingOK
  <2> QED BY <2>2, <2>3 DEF ThreadsOK
<1>7. ASSUME NEW x \in Items
      PROVE  ~Unlinking(x) /\ ~Linking(x) /\ Holders(x) = {} /\ Bumps(x) = {}
  <2>1. ~Unlinking(x) /\ ~Linking(x) /\ Holders(x) = {}
    BY <1>1, <1>2, <1>3, <1>4 DEF Unlinking, Linking, Holders
  <2>2. ASSUME NEW v \in Workers, NEW j \in 0 .. BumpSize - 1
        PROVE  <<v, j>> \notin Bumps(x)
    <3>1. buf[v].data[j] = None
      BY <1>1 DEF bipbuf_init
    <3> QED BY <1>2, <3>1, PairIn
  <2>3. Bumps(x) = {}
    BY <2>2, PairsOf
  <2> QED BY <2>1, <2>3
<1>8. ASSUME NEW x \in Items
      PROVE  ItemOK(x) /\ Exact(x) /\ Places[x] = None
  <2>1. item[x] = Free /\ Free.ref = 0 /\ "LINKED" \notin Free.flags /\ held[x] = 0
    BY <1>1, FreeRecord
  <2>2. Cardinality({}) = 0
    BY FS_EmptySet
  <2>3. LinkRef(x) = 0 /\ Place(x) = None
    BY <1>7, <2>1 DEF LinkRef, Place
  <2>4. Exact(x)
    BY <1>7, <2>1, <2>2, <2>3 DEF Exact
  <2> QED BY <2>1, <2>3, <2>4 DEF ItemOK, Places
<1>9. \A k \in Keys : TableOK(k)
  BY <1>1 DEF TableOK
<1>10. \A w \in Workers : BufferOK(buf[w])
  BY <1>1, InitBuffer
<1>11. ListsInv
  BY <1>1, <1>8, EmptyGood DEF Init, ListsInv
<1> QED BY <1>5, <1>6, <1>8, <1>9, <1>10, <1>11 DEF IInv

\* Every step keeps the invariant, and strikes a list off the crawl only when
\* nothing in it is due.
EndsRight == \A l \in enabled : l \notin enabled' => q.due[l] = {}

LEMMA WorkerKeeps ==
    ASSUME IInv, NEW w \in Workers, WorkerStep(w)
    PROVE  IInv'
<1>1. CASE \E k \in Keys : do_item_get(w, k) \/ GetExpired(w, k)
  BY <1>1, Step_do_item_get, Step_GetExpired
<1>2. CASE \E k \in Keys : do_item_alloc(w, k) \/ do_item_alloc_pull(w, k)
  BY <1>2, Step_do_item_alloc, Step_do_item_alloc_pull
<1>3. CASE \E x \in Items : item_unlink(w, x) \/ item_remove(w, x)
  BY <1>3, Step_item_unlink, Step_item_remove
<1>4. CASE item_unlink_q(w)
  BY <1>4, Step_item_unlink_q
<1>5. CASE AllocFails(w)
  BY <1>5, Step_AllocFails
<1>6. CASE do_store_item(w)
  BY <1>6, Step_do_store_item
<1>7. CASE do_item_link(w)
  BY <1>7, Step_do_item_link
<1>8. CASE Linked(w)
  BY <1>8, Step_Linked
<1> QED BY <1>1, <1>2, <1>3, <1>4, <1>5, <1>6, <1>7, <1>8 DEF WorkerStep

LEMMA PullKeeps ==
    ASSUME IInv, NEW t \in Pullers, lru_pull_tail(t)
    PROVE  IInv'
BY Step_WalkEnds, Step_WalkSkips, Step_WalkReclaims, Step_WalkRescues, Step_WalkStops, Step_Pulled
   DEF lru_pull_tail

LEMMA MaintainerKeeps ==
    ASSUME IInv, MaintainerStep
    PROVE  IInv'
<1>1. CASE \E l \in Lrus : lru_maintainer_juggle(l)
  BY <1>1, Step_lru_maintainer_juggle
<1>2. CASE \E w \in Workers : BumpPeek(w)
  BY <1>2, Step_BumpPeek
<1>3. CASE BumpStays \/ BumpUnlinks
  BY <1>3, Step_BumpStays, Step_BumpUnlinks
<1>4. CASE item_link_q_warm \/ BumpPoll
  BY <1>4, Step_item_link_q_warm, Step_BumpPoll
<1>5. CASE MaintainerCrawls
  BY <1>5, Step_MaintainerCrawls
<1> QED BY <1>1, <1>2, <1>3, <1>4, <1>5 DEF MaintainerStep

LEMMA StartKeeps ==
    ASSUME IInv, StartCrawl
    PROVE  IInv'
<1>1. CASE \E ids \in Crawls : lru_maintainer_crawler_check(ids)
  BY <1>1, Step_lru_maintainer_crawler_check
<1>2. CASE \E ids \in Crawls, w \in Workers, type \in CrawlTypes : lru_crawler_crawl(w, type, ids)
  BY <1>2, Step_lru_crawler_crawl
<1> QED BY <1>1, <1>2 DEF StartCrawl

LEMMA CrawlerKeeps ==
    ASSUME IInv, CrawlerStep
    PROVE  IInv' /\ EndsRight
<1>1. ASSUME NEW l \in Lrus, do_lru_crawler_start(l)
      PROVE  IInv' /\ EndsRight
  <2>1. enabled \subseteq enabled'
    BY <1>1 DEF do_lru_crawler_start
  <2> QED BY <1>1, <2>1, Step_do_lru_crawler_start DEF EndsRight
<1>2. ASSUME NEW l \in Lrus, item_crawler_thread(l)
      PROVE  IInv' /\ EndsRight
  BY <1>2, Step_item_crawler_thread DEF EndsRight
<1>3. CASE crawler_metadump_eval
  <2>1. enabled' = enabled
    BY <1>3 DEF crawler_metadump_eval
  <2> QED BY <1>3, <2>1, Step_crawler_metadump_eval DEF EndsRight
<1>4. CASE CrawlerWakes
  <2>1. enabled' = enabled
    BY <1>4 DEF CrawlerWakes
  <2> QED BY <1>4, <2>1, Step_CrawlerWakes DEF EndsRight
<1>5. CASE CrawlEnds
  <2>1. enabled' = enabled
    BY <1>5 DEF CrawlEnds
  <2> QED BY <1>5, <2>1, Step_CrawlEnds DEF EndsRight
<1> QED BY <1>1, <1>2, <1>3, <1>4, <1>5 DEF CrawlerStep

\* Only the crawler strikes lists off.
LEMMA OthersEnabled ==
    ASSUME Next, ~CrawlerStep
    PROVE  enabled' = enabled
<1>1. ASSUME NEW w \in Workers, WorkerStep(w)
      PROVE  enabled' = enabled
  <2>1. ASSUME NEW k \in Keys, do_item_get(w, k) \/ GetExpired(w, k) \/ do_item_alloc(w, k)
        PROVE  enabled' = enabled
    BY <2>1 DEF do_item_get, GetExpired, do_item_alloc, crawlVars
  <2>2. ASSUME NEW k \in Keys, do_item_alloc_pull(w, k)
        PROVE  enabled' = enabled
    BY <2>2 DEF do_item_alloc_pull, PullFrom, crawlVars
  <2>3. ASSUME NEW x \in Items, item_unlink(w, x) \/ item_remove(w, x)
        PROVE  enabled' = enabled
    BY <2>3 DEF item_unlink, item_remove, crawlVars
  <2>4. CASE item_unlink_q(w) \/ AllocFails(w) \/ do_store_item(w) \/ do_item_link(w) \/ Linked(w)
    BY <2>4 DEF item_unlink_q, AllocFails, do_store_item, do_item_link, Linked, crawlVars
  <2> QED BY <1>1, <2>1, <2>2, <2>3, <2>4 DEF WorkerStep
<1>2. ASSUME NEW t \in Pullers, lru_pull_tail(t)
      PROVE  enabled' = enabled
  <2>1. WalkEnds(t) \/ WalkSkips(t) \/ Pulled(t) => enabled' = enabled
    BY DEF WalkEnds, WalkSkips, Pulled, crawlVars
  <2>2. WalkReclaims(t) \/ WalkRescues(t) \/ WalkStops(t) => enabled' = enabled
    BY DEF WalkReclaims, WalkRescues, WalkStops, crawlVars
  <2> QED BY <1>2, <2>1, <2>2 DEF lru_pull_tail
<1>3. ASSUME MaintainerStep
      PROVE  enabled' = enabled
  <2>1. ASSUME NEW l \in Lrus, lru_maintainer_juggle(l)
        PROVE  enabled' = enabled
    BY <2>1 DEF lru_maintainer_juggle, PullFrom, crawlVars
  <2>2. ASSUME NEW w \in Workers, BumpPeek(w)
        PROVE  enabled' = enabled
    BY <2>2 DEF BumpPeek, crawlVars
  <2>3. BumpStays \/ BumpUnlinks \/ item_link_q_warm \/ BumpPoll => enabled' = enabled
    BY DEF BumpStays, BumpUnlinks, item_link_q_warm, BumpPoll, crawlVars
  <2>4. MaintainerCrawls => enabled' = enabled
    BY DEF MaintainerCrawls, lru_crawler_start, crawlVars
  <2> QED BY <1>3, <2>1, <2>2, <2>3, <2>4 DEF MaintainerStep
<1>4. ASSUME StartCrawl
      PROVE  enabled' = enabled
  BY <1>4 DEF StartCrawl, lru_maintainer_crawler_check, lru_crawler_crawl, lru_crawler_start, crawlVars
<1>5. ASSUME NEW x \in Items, Expire(x)
      PROVE  enabled' = enabled
  BY <1>5 DEF Expire, crawlVars
<1>6. Rest => enabled' = enabled
  BY DEF Rest, vars, crawlVars
<1> QED BY <1>1, <1>2, <1>3, <1>4, <1>5, <1>6 DEF Next

LEMMA NextInv ==
    ASSUME IInv, [Next]_vars
    PROVE  IInv' /\ EndsRight
<1>1. CASE CrawlerStep
  BY <1>1, CrawlerKeeps
<1>2. CASE Next /\ ~CrawlerStep
  <2>1. EndsRight
    BY <1>2, OthersEnabled DEF EndsRight
  <2>2. IInv'
    <3>1. CASE \E w \in Workers : WorkerStep(w)
      BY <3>1, WorkerKeeps
    <3>2. CASE \E t \in Pullers : lru_pull_tail(t)
      BY <3>2, PullKeeps
    <3>3. CASE MaintainerStep
      BY <3>3, MaintainerKeeps
    <3>4. CASE StartCrawl
      BY <3>4, StartKeeps
    <3>5. CASE \E x \in Items : Expire(x)
      BY <3>5, Step_Expire
    <3>6. CASE Rest
      BY <3>6, StutterStep DEF Rest
    <3> QED BY <1>2, <3>1, <3>2, <3>3, <3>4, <3>5, <3>6 DEF Next
  <2> QED BY <2>1, <2>2
<1>3. CASE UNCHANGED vars
  <2>1. enabled' = enabled
    BY <1>3 DEF vars, crawlVars
  <2> QED BY <1>3, <2>1, StutterStep DEF EndsRight
<1> QED BY <1>1, <1>2, <1>3

\* The inductive invariant holds: the lists are good ones, each reference is
\* counted, the threads hold the locks that they should, the bump buffers are
\* good bip buffers and the hash table has just the linked items, whatever
\* workers, maintainer and crawler do (items.c, crawler.c, bipbuffer.c).
THEOREM Invariance == Spec => []IInv
<1>1. Init => IInv
  BY InitInv
<1>2. IInv /\ [Next]_vars => IInv'
  BY NextInv
<1> QED BY <1>1, <1>2, PTL DEF Spec

\* The references of every item are exact: lru_bump_async, lru_maintainer_bumps,
\* lru_pull_tail, the crawler and the threads that link and unlink take and give
\* back each of them once.
THEOREM ReferencesExact == Spec => []RefcountExact
<1>1. IInv => RefcountExact
  BY DEF IInv, Exact, LinkRef, RefcountExact
<1> QED BY <1>1, Invariance, PTL

\* A crawl of a whole list ends with every item met that was there all the
\* time (item_crawler_thread, do_item_crawl_q).
THEOREM CrawlComplete == Spec => CrawlMissesNothing
<1>1. IInv /\ [Next]_vars => [\A l \in enabled : l \notin enabled' => q.due[l] = {}]_vars
  BY NextInv DEF EndsRight
<1> QED BY <1>1, Invariance, PTL DEF Spec, CrawlMissesNothing

\* Whoever walks a list has its LRU lock, as long as no client of a dump goes
\* away (lru_pull_tail).
THEOREM WalkLocked == Spec => []WalkKeepsLock
<1>1. IInv => WalkKeepsLock
  BY DEF IInv, ThreadsOK, PullerOK, WalkKeepsLock
<1> QED BY <1>1, Invariance, PTL

-----------------------------------------------------------------------------
(* The lists, followed from their heads.                                   *)

Follows(p, l, n) ==
    p = [i \in 1 .. n |-> IF i = 1 THEN q.heads[l]
                          ELSE IF p[i - 1] = None THEN None
                          ELSE q.next[p[i - 1]]]

\* The sequence of the nodes of a list is the one way to follow it.
LEMMA PathIs ==
    ASSUME IInv, NEW l \in Lrus, NEW s \in Lists(l), ListOK(q, Places, enabled, remaining, l, s),
           NEW n, n = Len(s), NEW p, p = CHOOSE f : Follows(f, l, n)
    PROVE  \A i \in 1 .. n : p[i] = s[i]
<1>1. /\ n \in Nat /\ \A i \in 1 .. n : s[i] # None
  BY ListSeq
<1>2. /\ q.heads[l] = IF s = <<>> THEN None ELSE s[1]
      /\ \A i \in 1 .. n : q.next[s[i]] = IF i = n THEN None ELSE s[i + 1]
  BY DEF ListOK, Chain
<1>3. PICK g : g = [i \in 1 .. n |-> s[i]]
  OBVIOUS
<1>4. \A i \in 1 .. n : i # 1 => i - 1 \in 1 .. n /\ i - 1 # n /\ (i - 1) + 1 = i
  BY ONLY <1>1
<1>5. s = <<>> => n = 0
  BY ListSeq
<1>6. Follows(g, l, n)
  <2>1. ASSUME NEW i \in 1 .. n
        PROVE  g[i] = IF i = 1 THEN q.heads[l] ELSE IF g[i - 1] = None THEN None ELSE q.next[g[i - 1]]
    <3>1. CASE i = 1
      <4>1. s # <<>>
        BY <1>5, <2>1, <3>1
      <4> QED BY <1>2, <1>3, <2>1, <3>1, <4>1
    <3>2. CASE i # 1
      <4>1. PICK j : j = i - 1
        OBVIOUS
      <4>2. j \in 1 .. n /\ j # n /\ j + 1 = i
        BY <1>4, <2>1, <3>2, <4>1
      <4>3. g[j] = s[j] /\ s[j] # None /\ g[i] = s[i] /\ q.next[s[j]] = s[i]
        BY <1>1, <1>2, <1>3, <2>1, <4>2
      <4> QED BY <3>2, <4>1, <4>3
    <3> QED BY <3>1, <3>2
  <2> QED BY <1>3, <2>1 DEF Follows
<1>7. Follows(p, l, n)
  BY <1>6
<1>8. \A i \in 1 .. n : p[i] = IF i = 1 THEN q.heads[l] ELSE IF p[i - 1] = None THEN None ELSE q.next[p[i - 1]]
  BY <1>7 DEF Follows
<1>9. PICK T : T = {i \in 1 .. n : p[i] # s[i]}
  OBVIOUS
<1>10. ASSUME T # {}
       PROVE  FALSE
  <2>1. T \in SUBSET Nat
    BY <1>9
  <2>2. PICK i \in T : \A j \in T : i <= j
    BY <1>10, <2>1, Least
  <2>3. i \in 1 .. n /\ p[i] # s[i]
    BY <1>9, <2>2
  <2>4. i # 1
    <3>1. ASSUME i = 1 PROVE p[i] = s[i]
      <4>1. s # <<>>
        BY <1>5, <2>3, <3>1
      <4> QED BY <1>2, <1>8, <2>3, <3>1, <4>1
    <3> QED BY <2>3, <3>1
  <2>5. PICK j : j = i - 1
    OBVIOUS
  <2>6. j \in 1 .. n /\ j # n /\ j + 1 = i
    BY <1>4, <2>3, <2>4, <2>5
  <2>7. j \notin T
    <3>1. ~(i <= j) /\ i \in Nat
      BY ONLY <2>3, <2>5, <2>6, <1>1
    <3> QED BY <2>2, <3>1
  <2>8. p[j] = s[j] /\ s[j] # None /\ q.next[s[j]] = s[i]
    BY <1>1, <1>2, <1>9, <2>6, <2>7
  <2>9. p[i] = q.next[p[j]]
    BY <1>8, <2>3, <2>4, <2>5, <2>8
  <2> QED BY <2>3, <2>8, <2>9
<1> QED BY <1>9, <1>10

LEMMA MembersAre ==
    ASSUME IInv, NEW l \in Lrus
    PROVE  /\ Members(l) = Placed(Places, l) \cup (enabled \cap {l})
           /\ Members(l) \ {l} = Placed(Places, l)
           /\ \A y : y \in Members(l) <=> y \in Nodes /\ Member(Places, enabled, y, l)
<1>1. l # None /\ l \notin Items /\ Nodes = Items \cup Lrus
  BY Constants DEF Nodes
<1>2. ASSUME NEW x \in Items
      PROVE  Places[x] = l <=> /\ item[x].lru = l
                               /\ "LINKED" \in item[x].flags \/ Unlinking(x)
                               /\ ~Moving(x)
  BY <1>1 DEF Places, Place
<1>3. Members(l) = Placed(Places, l) \cup (enabled \cap {l})
  BY <1>2 DEF Members, Placed
<1>4. Members(l) \ {l} = Placed(Places, l)
  BY <1>1, <1>3 DEF Placed
<1>5. \A y : y \in Members(l) <=> y \in Nodes /\ Member(Places, enabled, y, l)
  BY <1>1, <1>3 DEF Placed, Member
<1> QED BY <1>3, <1>4, <1>5

LEMMA ListExact ==
    ASSUME IInv, NEW l \in Lrus, NEW n, n = Cardinality(Members(l)),
           NEW p, p = CHOOSE f : Follows(f, l, n)
    PROVE  /\ {p[i] : i \in 1 .. n} = Members(l)
           /\ n = 0 => q.heads[l] = None /\ q.tails[l] = None
           /\ n > 0 => q.tails[l] = p[n] /\ q.next[p[n]] = None
           /\ \A i \in 1 .. n : q.prev[p[i]] = IF i = 1 THEN None ELSE p[i - 1]
           /\ q.sizes[l] = Cardinality(Members(l) \ {l})
<1>1. PICK s \in Lists(l) : ListOK(q, Places, enabled, remaining, l, s)
  BY DEF IInv, ListsInv, Good
<1>2. n = Len(s)
  <2>1. Cardinality(Placed(Places, l) \cup (enabled \cap {l})) = Len(s)
    BY <1>1, ListLength
  <2> QED BY <2>1, MembersAre
<1>3. n \in Nat /\ (s = <<>> <=> n = 0)
  BY <1>1, <1>2, ListSeq
<1>4. \A i \in 1 .. n : p[i] = s[i]
  BY <1>1, <1>2, PathIs
<1>5. /\ q.heads[l] = IF s = <<>> THEN None ELSE s[1]
      /\ q.tails[l] = IF s = <<>> THEN None ELSE s[n]
      /\ \A i \in 1 .. n : /\ q.next[s[i]] = IF i = n THEN None ELSE s[i + 1]
                           /\ q.prev[s[i]] = IF i = 1 THEN None ELSE s[i - 1]
  BY <1>1, <1>2 DEF ListOK, Chain
<1>6. \A i \in 1 .. n : s[i] \in Nodes
  BY <1>1, <1>2, ListSeq
<1>7. {p[i] : i \in 1 .. n} = Members(l)
  <2>1. \A y \in Nodes : (\E i \in 1 .. n : s[i] = y) <=> Member(Places, enabled, y, l)
    BY <1>1, <1>2 DEF ListOK, In
  <2>2. \A y : y \in Members(l) <=> y \in Nodes /\ Member(Places, enabled, y, l)
    BY MembersAre
  <2>3. \A y : y \in Members(l) <=> \E i \in 1 .. n : p[i] = y
    BY <1>4, <1>6, <2>1, <2>2
  <2> QED BY ONLY <2>3
<1>8. n > 0 => n \in 1 .. n
  BY ONLY <1>3
<1>9. \A i \in 1 .. n : i # 1 => i - 1 \in 1 .. n
  BY ONLY <1>3
<1>10. q.sizes[l] = Cardinality(Members(l) \ {l})
  BY SizesAre, MembersAre
<1>11. n = 0 => q.heads[l] = None /\ q.tails[l] = None
  BY <1>3, <1>5
<1>12. n > 0 => q.tails[l] = p[n] /\ q.next[p[n]] = None
  BY <1>3, <1>4, <1>5, <1>8
<1>13. \A i \in 1 .. n : q.prev[p[i]] = IF i = 1 THEN None ELSE p[i - 1]
  BY <1>4, <1>5, <1>9
<1> QED BY <1>7, <1>10, <1>11, <1>12, <1>13

\* Each list has every item that is linked in its sub-LRU, and the marker of
\* its crawl, once, in both directions (item_link_q, item_unlink_q,
\* do_item_update, do_item_crawl_q).
THEOREM ListsRight == Spec => []ListsExact
<1>1. IInv => ListsExact
  BY ListExact DEF ListsExact, Follows
<1> QED BY <1>1, Invariance, PTL
=============================================================================
