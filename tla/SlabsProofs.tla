---------------------------- MODULE SlabsProofs -----------------------------
(***************************************************************************)
(* Proofs about Slabs, for every set of pages, classes, keys and workers   *)
(* and every number of chunks to a page.                                   *)
(***************************************************************************)
EXTENDS Slabs, SequenceTheorems, FiniteSetTheorems, TLAPS

-----------------------------------------------------------------------------
(* The inductive invariant.                                                *)

PagesOf(c) == {slab_list[c][i] : i \in DOMAIN slab_list[c]}

Used(x) == SLABBED \notin item[x].it_flags
IsFree(x) == item[x].it_flags = {SLABBED}
IsCleared(x) == item[x].it_flags = {SLABBED, FETCHED}
IsLinked(x) == LINKED \in item[x].it_flags
Freeing(x) == \E w \in Workers : wpc[w] = "free" /\ victim[w] = x

\* What the header of a chunk says.
Headers ==
    /\ \A c \in Classes, x \in Chunks : InClass(x, c) =>
         /\ Used(x) /\ x # new_it => item[x].slabs_clsid = c /\ item[x].key \in Keys
         /\ ~Used(x) => ~IsLinked(x)
         /\ IsCleared(x) => item[x].refcount = 0
    /\ \A x \in Chunks : (\A c \in Classes : ~InClass(x, c)) =>
         item[x].refcount = 0 /\ ~IsLinked(x)

\* A worker that has stored its item nowhere yet.
HasNew(w) == wpc[w] = "new" \/ (wpc[w] = "locked" /\ op[w].do = "store")

\* Where a worker is and what it has.
WorkerOK(w) ==
    /\ wpc[w] \in {"idle", "alloc", "pull"} => it[w] = None
    /\ wpc[w] \in {"new", "using"} => it[w] # None
    /\ wpc[w] \in {"alloc", "pull"} => wkey[w] \in Keys /\ wcls[w] \in Classes
    /\ op[w].do = "evict" => /\ wpc[w] = "free" /\ it[w] = None
                             /\ wkey[w] \in Keys /\ wcls[w] \in Classes
    /\ wpc[w] \in {"locked", "free"} => op[w].key \in Keys /\ item_locks[op[w].key] = w
    /\ wpc[w] = "locked" =>
         IF op[w].do = "get" THEN it[w] = None
         ELSE /\ op[w].do \in {"store", "unlink", "remove"}
              /\ it[w] # None /\ item[it[w]].key = op[w].key
    /\ HasNew(w) => ~IsLinked(it[w]) /\ \A v \in Workers : it[v] = it[w] => v = w
    /\ (victim[w] # None) <=> (wpc[w] = "free")
    /\ wpc[w] = "free" => /\ item[victim[w]].refcount = 0 /\ ~IsLinked(victim[w])
                          /\ item[victim[w]].key = op[w].key

\* Where the mover is and what it has.
Holding == mpc \in {"rescue", "evict", "slabs_free"}
Moving == Holding \/ mpc \in {"move", "trylock", "advance"}
MoverOK ==
    /\ mpc \in {"wait", "start", "exited"} =>
         slab_rebal.slab_start = None /\ slab_rebal.slab_pos = 1
    /\ mpc \notin {"wait", "exited"} => SrcCls \in Classes /\ SrcCls # slab_rebal.d_clsid
    /\ mpc = "finish" \/ Moving =>
         /\ slab_rebal.slab_start \in Pages
         /\ slab_list[SrcCls] # <<>> /\ slab_list[SrcCls][1] = slab_rebal.slab_start
         /\ slab_rebal.slab_pos \in 1 .. PerSlab[SrcCls]
    /\ Holding => /\ Used(Pos) /\ (IsLinked(Pos) <=> (mpc # "slabs_free"))
                  /\ item_locks[item[Pos].key] = Mover
                  /\ \A w \in Workers : it[w] # Pos
    /\ (new_it # None) <=> (mpc = "rescue")
    /\ mpc = "rescue" => /\ InClass(new_it, SrcCls) /\ ~InRange(new_it)
                         /\ Used(new_it) /\ ~IsLinked(new_it)
                         /\ item[new_it].slabs_clsid = 0 /\ item[new_it].refcount = 1

\* The chunks that the mover has passed are clear, if none was busy.
Swept == IF mpc = "finish" THEN PerSlab[SrcCls]
         ELSE IF mpc = "advance" THEN slab_rebal.slab_pos ELSE slab_rebal.slab_pos - 1
SweptClear ==
    (Moving /\ ~slab_rebal.busy_items) \/ mpc = "finish" =>
        \A i \in 1 .. Swept : IsCleared(<<slab_rebal.slab_start, i>>)

IInv == /\ TypeOK /\ PagesOwnedOnce /\ ChunksAccounted /\ Headers /\ RefcountExact
        /\ NoDanglingItem /\ (\A w \in Workers : WorkerOK(w)) /\ MoverOK /\ SweptClear

-----------------------------------------------------------------------------
(* Lists of pages.                                                         *)

Lists == [Classes \cup {POOL} -> Seq(Pages)]
On(L, c) == {L[c][i] : i \in 1 .. Len(L[c])}
All(L) == UNION {On(L, c) : c \in Classes \cup {POOL}}
Once(L) == \A c, d \in Classes \cup {POOL} :
               \A i \in 1 .. Len(L[c]), j \in 1 .. Len(L[d]) :
                   L[c][i] = L[d][j] => c = d /\ i = j
LastPages(L, c, n) == {L[c][i] : i \in (Len(L[c]) - n + 1) .. Len(L[c])}

\* A page put at the end of a list, the first page and the last n pages taken.
Put(L, c, p) == [L EXCEPT ![c] = Append(L[c], p)]
Shift(L, c) == [L EXCEPT ![c] = Tail(L[c])]
Cut(L, c, n) == [L EXCEPT ![c] = SubSeq(L[c], 1, Len(L[c]) - n)]

LEMMA OnceUse ==
    ASSUME NEW L, Once(L), NEW c \in Classes \cup {POOL}, NEW d \in Classes \cup {POOL},
           NEW i \in 1 .. Len(L[c]), NEW j \in 1 .. Len(L[d]), L[c][i] = L[d][j]
    PROVE  c = d /\ i = j
BY DEF Once

LEMMA ListFacts ==
    ASSUME NEW L \in Lists
    PROVE  /\ \A c \in Classes \cup {POOL} : /\ L[c] \in Seq(Pages) /\ Len(L[c]) \in Nat
                                             /\ DOMAIN L[c] = 1 .. Len(L[c])
                                             /\ (L[c] = <<>> <=> Len(L[c]) = 0)
                                             /\ \A i \in 1 .. Len(L[c]) : L[c][i] \in Pages
           /\ DOMAIN L = Classes \cup {POOL}
BY DEF Lists

\* A page is put at the end of a list.
LEMMA GivePage ==
    ASSUME NEW L \in Lists, Once(L), NEW c \in Classes \cup {POOL}, NEW p \in Pages,
           p \notin All(L), NEW M, M = Put(L, c, p)
    PROVE  /\ M \in Lists /\ Once(M)
           /\ \A d \in Classes \cup {POOL} : d # c => M[d] = L[d]
           /\ Len(M[c]) = Len(L[c]) + 1
           /\ \A i \in 1 .. Len(L[c]) : M[c][i] = L[c][i]
           /\ On(M, c) = On(L, c) \cup {p} /\ All(M) = All(L) \cup {p}
<1>1. M[c] = Append(L[c], p) /\ \A d \in Classes \cup {POOL} : d # c => M[d] = L[d]
  BY DEF Lists, Put
<1>2. /\ L[c] \in Seq(Pages) /\ M[c] \in Seq(Pages) /\ Len(L[c]) \in Nat
      /\ Len(M[c]) = Len(L[c]) + 1 /\ M[c][Len(L[c]) + 1] = p
      /\ \A i \in 1 .. Len(L[c]) : M[c][i] = L[c][i]
  BY <1>1, ListFacts, AppendProperties
<1>3. M \in Lists
  BY <1>1, <1>2 DEF Lists, Put
<1>4. \A i \in 1 .. Len(M[c]) : i \in 1 .. Len(L[c]) \/ i = Len(L[c]) + 1
  BY <1>2
<1>5. On(M, c) = On(L, c) \cup {p}
  BY <1>2, <1>4 DEF On
<1>6. \A d \in Classes \cup {POOL} : d # c => On(M, d) = On(L, d)
  BY <1>1 DEF On
<1>7. All(M) = All(L) \cup {p}
  BY <1>5, <1>6 DEF All
<1>8. \A d \in Classes \cup {POOL} : \A i \in 1 .. Len(L[d]) : L[d][i] # p
  BY DEF All, On
<1>9. Once(M)
  <2> SUFFICES ASSUME NEW d \in Classes \cup {POOL}, NEW e \in Classes \cup {POOL},
                      NEW i \in 1 .. Len(M[d]), NEW j \in 1 .. Len(M[e]), M[d][i] = M[e][j]
               PROVE  d = e /\ i = j
    BY DEF Once
  <2>1. CASE d = c /\ i = Len(L[c]) + 1
    BY <1>1, <1>2, <1>4, <1>8, <2>1
  <2>2. CASE e = c /\ j = Len(L[c]) + 1
    BY <1>1, <1>2, <1>4, <1>8, <2>2
  <2>3. CASE ~(d = c /\ i = Len(L[c]) + 1) /\ ~(e = c /\ j = Len(L[c]) + 1)
    <3>1. i \in 1 .. Len(L[d]) /\ j \in 1 .. Len(L[e]) /\ M[d][i] = L[d][i] /\ M[e][j] = L[e][j]
      BY <1>1, <1>2, <1>4, <2>3
    <3>2. L[d][i] = L[e][j]
      BY <3>1
    <3> QED BY <3>1, <3>2, OnceUse
  <2> QED BY <2>1, <2>2, <2>3
<1> QED BY <1>1, <1>2, <1>3, <1>5, <1>7, <1>9

\* The first page of a list is taken.
LEMMA TakeFirst ==
    ASSUME NEW L \in Lists, Once(L), NEW c \in Classes \cup {POOL}, L[c] # <<>>,
           NEW M, M = Shift(L, c)
    PROVE  /\ M \in Lists /\ Once(M) /\ L[c][1] \in Pages
           /\ \A d \in Classes \cup {POOL} : d # c => M[d] = L[d]
           /\ On(M, c) = On(L, c) \ {L[c][1]} /\ All(M) = All(L) \ {L[c][1]}
           /\ L[c][1] \in All(L)
<1>1. M[c] = Tail(L[c]) /\ \A d \in Classes \cup {POOL} : d # c => M[d] = L[d]
  BY DEF Lists, Shift
<1>2. /\ M[c] \in Seq(Pages) /\ Len(L[c]) \in Nat \ {0} /\ Len(M[c]) = Len(L[c]) - 1
      /\ \A i \in 1 .. Len(M[c]) : M[c][i] = L[c][i + 1]
  BY <1>1, ListFacts, HeadTailProperties
<1>3. M \in Lists /\ L[c][1] \in Pages
  BY <1>1, <1>2, ListFacts DEF Lists, Shift
<1>4. \A i \in 1 .. Len(M[c]) : i + 1 \in 1 .. Len(L[c]) /\ i + 1 # 1
  BY <1>2
<1>5. \A i \in 1 .. Len(L[c]) : i = 1 \/ (i - 1 \in 1 .. Len(M[c]) /\ (i - 1) + 1 = i)
  BY <1>2
<1>6. 1 \in 1 .. Len(L[c])
  BY <1>2
<1>7. On(M, c) = On(L, c) \ {L[c][1]}
  <2>1. \A i \in 1 .. Len(M[c]) : M[c][i] \in On(L, c) \ {L[c][1]}
    BY <1>2, <1>4, <1>6 DEF On, Once
  <2>2. \A i \in 1 .. Len(L[c]) : i # 1 => L[c][i] \in On(M, c)
    <3> SUFFICES ASSUME NEW i \in 1 .. Len(L[c]), i # 1 PROVE L[c][i] \in On(M, c)
      OBVIOUS
    <3>1. i - 1 \in 1 .. Len(M[c]) /\ M[c][i - 1] = L[c][(i - 1) + 1] /\ (i - 1) + 1 = i
      BY <1>2, <1>5
    <3> QED BY <3>1 DEF On
  <2>3. \A y \in On(M, c) : y \in On(L, c) \ {L[c][1]}
    BY <2>1 DEF On
  <2>4. \A y \in On(L, c) : y # L[c][1] => y \in On(M, c)
    <3> SUFFICES ASSUME NEW y \in On(L, c), y # L[c][1] PROVE y \in On(M, c)
      OBVIOUS
    <3>1. PICK i \in 1 .. Len(L[c]) : y = L[c][i]
      BY DEF On
    <3> QED BY <2>2, <3>1
  <2> QED BY <2>3, <2>4
<1>8. \A d \in Classes \cup {POOL} : d # c => /\ On(M, d) = On(L, d)
                                              /\ L[c][1] \notin On(L, d)
  BY <1>1, <1>6 DEF On, Once
<1>9. All(M) = All(L) \ {L[c][1]}
  BY <1>7, <1>8 DEF All
<1>10. Once(M)
  <2> SUFFICES ASSUME NEW d \in Classes \cup {POOL}, NEW e \in Classes \cup {POOL},
                      NEW i \in 1 .. Len(M[d]), NEW j \in 1 .. Len(M[e]), M[d][i] = M[e][j]
               PROVE  d = e /\ i = j
    BY DEF Once
  <2>1. PICK m \in 1 .. Len(L[d]) : M[d][i] = L[d][m] /\ m = IF d = c THEN i + 1 ELSE i
    BY <1>1, <1>2, <1>4
  <2>2. PICK n \in 1 .. Len(L[e]) : M[e][j] = L[e][n] /\ n = IF e = c THEN j + 1 ELSE j
    BY <1>1, <1>2, <1>4
  <2>3. d = e /\ m = n
    <3>1. L[d][m] = L[e][n]
      BY <2>1, <2>2
    <3> QED BY <3>1, OnceUse
  <2> QED BY <2>1, <2>2, <2>3
<1>11. L[c][1] \in All(L)
  BY <1>6 DEF All, On
<1> QED BY <1>1, <1>3, <1>7, <1>9, <1>10, <1>11

\* The last n pages of a list are taken.
LEMMA TakeLast ==
    ASSUME NEW L \in Lists, Once(L), NEW c \in Classes \cup {POOL}, NEW n \in 0 .. Len(L[c]),
           NEW M, M = Cut(L, c, n)
    PROVE  /\ M \in Lists /\ Once(M) /\ Len(M[c]) = Len(L[c]) - n
           /\ \A d \in Classes \cup {POOL} : d # c => M[d] = L[d]
           /\ \A i \in 1 .. Len(M[c]) : M[c][i] = L[c][i]
           /\ All(M) = All(L) \ LastPages(L, c, n)
<1>1. M[c] = SubSeq(L[c], 1, Len(L[c]) - n)
      /\ \A d \in Classes \cup {POOL} : d # c => M[d] = L[d]
  BY DEF Lists, Cut
<1>2. PICK k \in Nat, m \in Nat : k = Len(L[c]) /\ m = Len(L[c]) - n /\ m <= k
  <2>1. Len(L[c]) \in Nat
    BY ListFacts
  <2>2. Len(L[c]) - n \in Nat /\ Len(L[c]) - n <= Len(L[c])
    BY <2>1
  <2> QED BY <2>1, <2>2
<1>3. /\ M[c] \in Seq(Pages) /\ Len(M[c]) = m
      /\ \A i \in 1 .. m : M[c][i] = L[c][i]
  <2>1. \A i \in 1 .. m : L[c][i] \in Pages
    BY <1>2, ListFacts
  <2>2. PICK s : s = SubSeq(L[c], 1, m)
    OBVIOUS
  <2>3. /\ s \in Seq(Pages) /\ Len(s) = IF 1 <= m THEN m - 1 + 1 ELSE 0
        /\ \A i \in 1 .. m - 1 + 1 : s[i] = L[c][1 + i - 1]
    BY <2>1, <2>2, SubSeqProperties
  <2>4. Len(s) = m /\ m - 1 + 1 = m /\ \A i \in 1 .. m : 1 + i - 1 = i
    BY <2>3
  <2>5. \A i \in 1 .. m : s[i] = L[c][i]
    BY <2>3, <2>4
  <2> QED BY <1>1, <1>2, <2>2, <2>3, <2>4, <2>5
<1>4. M \in Lists
  BY <1>1, <1>3 DEF Lists, Cut
<1>5. \A i \in 1 .. Len(M[c]) : i \in 1 .. k /\ i \notin m + 1 .. k
  BY <1>2, <1>3
<1>6. \A i \in 1 .. k : i \in 1 .. Len(M[c]) \/ i \in m + 1 .. k
  BY <1>2, <1>3
<1>7. DEFINE R == {L[c][i] : i \in m + 1 .. k}
<1>8. m + 1 .. k \subseteq 1 .. k
  BY <1>2
<1>9. On(M, c) = On(L, c) \ R
  <2>1. ASSUME NEW i \in 1 .. Len(M[c]) PROVE M[c][i] \in On(L, c) \ R
    <3>1. M[c][i] = L[c][i] /\ i \in 1 .. Len(L[c]) /\ i \notin m + 1 .. k
      BY <1>2, <1>3, <1>5
    <3>2. \A j \in m + 1 .. k : L[c][j] # L[c][i]
      BY <1>2, <1>8, <3>1 DEF Once
    <3> QED BY <3>1, <3>2 DEF On
  <2>2. ASSUME NEW i \in 1 .. Len(L[c]), L[c][i] \notin R PROVE L[c][i] \in On(M, c)
    <3>1. i \in 1 .. Len(M[c])
      BY <1>2, <1>6, <2>2
    <3> QED BY <1>3, <3>1 DEF On
  <2> HIDE DEF R
  <2>3. \A y \in On(M, c) : y \in On(L, c) \ R
    BY <2>1 DEF On
  <2>4. \A y \in On(L, c) : y \notin R => y \in On(M, c)
    <3> SUFFICES ASSUME NEW y \in On(L, c), y \notin R PROVE y \in On(M, c)
      OBVIOUS
    <3>1. PICK i \in 1 .. Len(L[c]) : y = L[c][i]
      BY DEF On
    <3> QED BY <2>2, <3>1
  <2> QED BY <2>3, <2>4
<1>10. \A d \in Classes \cup {POOL} : d # c => On(M, d) = On(L, d) /\ On(L, d) \cap R = {}
  <2>1. ASSUME NEW d \in Classes \cup {POOL}, d # c,
               NEW i \in m + 1 .. k, NEW j \in 1 .. Len(L[d])
        PROVE  L[c][i] # L[d][j]
    BY <1>2, <1>8, <2>1, OnceUse
  <2>2. \A d \in Classes \cup {POOL} : d # c => On(M, d) = On(L, d)
    BY <1>1 DEF On
  <2> QED BY <2>1, <2>2 DEF On
<1>11. All(M) = All(L) \ R
  <2> HIDE DEF R
  <2>1. \A y : y \in All(L) <=> \E d \in Classes \cup {POOL} : y \in On(L, d)
    BY DEF All
  <2>2. \A y : y \in All(M) <=> \E d \in Classes \cup {POOL} : y \in On(M, d)
    BY DEF All
  <2>3. \A d \in Classes \cup {POOL} : \A y : y \in On(M, d) <=> y \in On(L, d) /\ y \notin R
    <3> SUFFICES ASSUME NEW d \in Classes \cup {POOL}
                 PROVE  On(M, d) = On(L, d) \ R
      OBVIOUS
    <3>1. CASE d = c
      BY <1>9, <3>1
    <3>2. CASE d # c
      BY <1>10, <3>2
    <3> QED BY <3>1, <3>2
  <2>4. \A y : y \in All(M) <=> y \in All(L) /\ y \notin R
    BY <2>1, <2>2, <2>3
  <2> QED BY <2>4
<1>12. Once(M)
  <2> SUFFICES ASSUME NEW d \in Classes \cup {POOL}, NEW e \in Classes \cup {POOL},
                      NEW i \in 1 .. Len(M[d]), NEW j \in 1 .. Len(M[e]), M[d][i] = M[e][j]
               PROVE  d = e /\ i = j
    BY DEF Once
  <2>1. i \in 1 .. Len(L[d]) /\ M[d][i] = L[d][i]
    BY <1>1, <1>2, <1>3, <1>5
  <2>2. j \in 1 .. Len(L[e]) /\ M[e][j] = L[e][j]
    BY <1>1, <1>2, <1>3, <1>5
  <2>3. L[d][i] = L[e][j]
    BY <2>1, <2>2
  <2> QED BY <2>1, <2>2, <2>3, OnceUse
<1>13. LastPages(L, c, n) = R
  BY <1>2 DEF LastPages
<1> QED BY <1>1, <1>2, <1>3, <1>4, <1>11, <1>12, <1>13

-----------------------------------------------------------------------------
(* The pages of the classes and of the pool.                               *)

LEMMA Constants ==
    /\ Classes \subseteq Nat \ {POOL} /\ POOL \notin Classes /\ POOL \in Nat
    /\ \A c \in Classes : PerSlab[c] \in Nat \ {0}
    /\ None \notin Pages /\ None \notin Chunks /\ None \notin Keys /\ None \notin Workers
    /\ Mover \notin Workers /\ Mover # None
BY ClassAssumption, NameAssumption DEF POOL

\* The memory that mem_malloced stands for.
Bought(L, m) == Once(L) /\ Cardinality(All(L)) <= m

LEMMA OnceIs ==
    ASSUME NEW L \in Lists
    PROVE  /\ Once(L) <=> \A c, d \in DOMAIN L : \A i \in DOMAIN L[c], j \in DOMAIN L[d] :
                              L[c][i] = L[d][j] => c = d /\ i = j
           /\ All(L) = UNION {{L[c][i] : i \in DOMAIN L[c]} : c \in DOMAIN L}
           /\ \A x : \A c \in Classes : x \in On(L, c) <=> \E i \in DOMAIN L[c] : L[c][i] = x
           /\ IsFiniteSet(All(L)) /\ Cardinality(All(L)) \in Nat
<1>1. /\ DOMAIN L = Classes \cup {POOL}
      /\ \A c \in Classes \cup {POOL} : DOMAIN L[c] = 1 .. Len(L[c])
  BY ListFacts
<1>2. \A c \in Classes \cup {POOL} : On(L, c) = {L[c][i] : i \in DOMAIN L[c]}
  BY <1>1 DEF On
<1>3. All(L) = UNION {{L[c][i] : i \in DOMAIN L[c]} : c \in DOMAIN L}
  BY <1>1, <1>2 DEF All
<1>4. All(L) \subseteq Pages
  BY ListFacts DEF All, On
<1>5. IsFiniteSet(All(L)) /\ Cardinality(All(L)) \in Nat
  BY <1>4, NameAssumption, FS_Subset, FS_CardinalityType
<1> QED BY <1>1, <1>2, <1>3, <1>5 DEF Once

\* PagesOwnedOnce and InClass in these terms, now and after a step.
LEMMA PagesNow ==
    ASSUME slab_list \in Lists
    PROVE  /\ PagesOwnedOnce <=> Bought(slab_list, mem_malloced)
           /\ Owned = All(slab_list)
           /\ \A c \in Classes, x \in Chunks :
                InClass(x, c) <=> x[2] <= PerSlab[c] /\ x[1] \in On(slab_list, c)
<1>1. Owned = All(slab_list)
  BY OnceIs DEF Owned
<1>2. PagesOwnedOnce <=> Bought(slab_list, mem_malloced)
  BY <1>1, OnceIs DEF PagesOwnedOnce, Bought
<1> QED BY <1>1, <1>2, OnceIs DEF InClass

LEMMA PagesThen ==
    ASSUME slab_list' \in Lists
    PROVE  /\ PagesOwnedOnce' <=> Bought(slab_list', mem_malloced')
           /\ \A c \in Classes, x \in Chunks :
                InClass(x, c)' <=> x[2] <= PerSlab[c] /\ x[1] \in On(slab_list', c)
<1>1. Owned' = All(slab_list')
  BY OnceIs DEF Owned
<1>2. PagesOwnedOnce' <=> Bought(slab_list', mem_malloced')
  BY <1>1, OnceIs DEF PagesOwnedOnce, Bought
<1> QED BY <1>2, OnceIs DEF InClass

\* memory_release: how many pages of a list of n are given back.
LEMMA ReleasedFew ==
    ASSUME NEW pool \in Seq(Pages), NEW malloced \in Nat, NEW limit \in Nat
    PROVE  Released(pool, malloced, limit) \in 0 .. Len(pool)
<1>1. Len(pool) \in Nat
  OBVIOUS
<1>2. \E n \in 0 .. Len(pool) : /\ malloced - n <= limit \/ n = Len(pool)
                                /\ n > 0 => malloced - (n - 1) > limit
  <2>1. CASE malloced <= limit
    <3>1. 0 \in 0 .. Len(pool) /\ malloced - 0 <= limit /\ ~(0 > 0)
      BY <1>1, <2>1
    <3> QED BY <3>1
  <2>2. CASE malloced > limit /\ malloced - limit <= Len(pool)
    <3>1. PICK n \in Nat : n = malloced - limit
      BY <2>2
    <3>2. n \in 0 .. Len(pool) /\ malloced - n <= limit /\ malloced - (n - 1) > limit
      BY <1>1, <2>2, <3>1
    <3> QED BY <3>2
  <2>3. CASE malloced - limit > Len(pool)
    <3>1. PICK n \in Nat : n = Len(pool)
      BY <1>1
    <3>2. n \in 0 .. Len(pool) /\ n = Len(pool) /\ malloced - (n - 1) > limit
      BY <1>1, <2>3, <3>1
    <3> QED BY <3>2
  <2> QED BY <1>1, <2>1, <2>2, <2>3
<1>3. DEFINE P(n) == /\ malloced - n <= limit \/ n = Len(pool)
                     /\ n > 0 => malloced - (n - 1) > limit
<1>4. Released(pool, malloced, limit) = CHOOSE n \in 0 .. Len(pool) : P(n)
  BY DEF Released
<1>5. \E n \in 0 .. Len(pool) : P(n)
  BY <1>2
<1> HIDE DEF P
<1> QED BY <1>4, <1>5

\* The pages taken off the end of a list are as many as that.
LEMMA TakenCount ==
    ASSUME NEW L \in Lists, Once(L), NEW c \in Classes \cup {POOL},
           NEW n \in 0 .. Len(L[c]), NEW m \in Nat,
           Cardinality(All(L)) <= m,
           NEW M, M = Cut(L, c, n)
    PROVE  Bought(M, m - n) /\ m - n \in Nat
<1>1. PICK k \in Nat, l \in Nat : k = Len(L[c]) /\ l = k - n /\ l <= k
  <2>1. Len(L[c]) \in Nat
    BY ListFacts
  <2>2. Len(L[c]) - n \in Nat /\ Len(L[c]) - n <= Len(L[c])
    BY <2>1
  <2> QED BY <2>1, <2>2
<1>2. n \in Nat /\ n = k - l
  BY <1>1
<1>3. PICK R : R = {L[c][i] : i \in l + 1 .. k}
  OBVIOUS
<1>4. Once(M) /\ All(M) = All(L) \ R
  <2>1. /\ Once(M)
        /\ All(M) = All(L) \ LastPages(L, c, n)
    BY TakeLast
  <2>2. Len(L[c]) - n + 1 = l + 1
    BY <1>1
  <2> QED BY <1>1, <1>3, <2>1, <2>2 DEF LastPages
<1>5. R \subseteq All(L)
  <2>1. l + 1 .. k \subseteq 1 .. Len(L[c])
    BY <1>1
  <2> QED BY <1>3, <2>1 DEF All, On
<1>6. IsFiniteSet(R) /\ Cardinality(R) = n
  <2>1. PICK f : f = [i \in l + 1 .. k |-> L[c][i]]
    OBVIOUS
  <2>2. f \in Bijection(l + 1 .. k, R)
    <3>1. \A i, j \in l + 1 .. k : L[c][i] = L[c][j] => i = j
      <4>1. l + 1 .. k \subseteq 1 .. Len(L[c])
        BY <1>1
      <4> QED BY <4>1 DEF Once
    <3>2. f \in Surjection(l + 1 .. k, R)
      BY <1>3, <2>1 DEF Surjection
    <3>3. f \in Injection(l + 1 .. k, R)
      BY <1>3, <2>1, <3>1 DEF Injection, IsInjective
    <3> QED BY <3>2, <3>3 DEF Bijection
  <2>3. IsFiniteSet(l + 1 .. k) /\ Cardinality(l + 1 .. k) = n
    <3>1. l + 1 \in Int /\ k \in Int
      BY <1>1
    <3>2. /\ IsFiniteSet(l + 1 .. k)
          /\ Cardinality(l + 1 .. k) = IF l + 1 > k THEN 0 ELSE k - (l + 1) + 1
      BY <3>1, FS_Interval
    <3>3. (IF l + 1 > k THEN 0 ELSE k - (l + 1) + 1) = n
      BY <1>1, <1>2
    <3> QED BY <3>2, <3>3
  <2>4. ExistsBijection(l + 1 .. k, R)
    BY <2>2 DEF ExistsBijection
  <2> QED BY <2>3, <2>4, FS_Bijection
<1>7. IsFiniteSet(All(L)) /\ Cardinality(All(L)) \in Nat
  BY OnceIs
<1>8. Cardinality(All(L) \ R) = Cardinality(All(L)) - n
  <2>1. All(L) \cap R = R
    BY <1>5
  <2>2. Cardinality(All(L) \ R) = Cardinality(All(L)) - Cardinality(All(L) \cap R)
    BY <1>7, FS_Difference
  <2> QED BY <1>6, <2>1, <2>2
<1>9. n <= Cardinality(All(L))
  BY <1>5, <1>6, <1>7, FS_Subset
<1>10. PICK q \in Nat : q = Cardinality(All(L)) /\ q <= m /\ n <= q
  BY <1>7, <1>9
<1>11. m - n \in Nat /\ q - n <= m - n
  BY <1>2, <1>10
<1> QED BY <1>4, <1>8, <1>10, <1>11 DEF Bought

-----------------------------------------------------------------------------
(* Chunks and their headers.                                               *)

HeaderType == [it_flags : SUBSET {LINKED, SLABBED, FETCHED}, refcount : Nat,
               slabs_clsid : Classes \cup {POOL}, key : Keys \cup {None}]
RebalType == [s_clsid : Classes \cup {POOL}, d_clsid : Classes \cup {POOL},
              slab_start : Pages \cup {None}, slab_pos : Nat,
              busy_items : BOOLEAN, busy_loops : 0 .. MaxLoops + 1]

LEMMA Flags == LINKED # SLABBED /\ LINKED # FETCHED /\ SLABBED # FETCHED
BY DEF LINKED, SLABBED, FETCHED

\* A free, a cleared and a used chunk are three different things.
LEMMA Kinds ==
    ASSUME NEW x
    PROVE  /\ IsFree(x) => ~Used(x) /\ ~IsCleared(x) /\ ~IsLinked(x)
           /\ IsCleared(x) => ~Used(x) /\ ~IsFree(x) /\ ~IsLinked(x)
BY Flags DEF IsFree, IsCleared, Used, IsLinked

LEMMA Fields ==
    ASSUME NEW h \in HeaderType
    PROVE  /\ h.refcount \in Nat /\ h.slabs_clsid \in Classes \cup {POOL}
           /\ h.key \in Keys \cup {None}
           /\ h.it_flags \subseteq {LINKED, SLABBED, FETCHED}
BY DEF HeaderType

LEMMA HeaderFields ==
    ASSUME NEW f \in SUBSET {LINKED, SLABBED, FETCHED}, NEW n \in Nat,
           NEW c \in Classes \cup {POOL}, NEW k \in Keys \cup {None}
    PROVE  /\ Header(f, n, c, k) \in HeaderType
           /\ Header(f, n, c, k).it_flags = f /\ Header(f, n, c, k).refcount = n
           /\ Header(f, n, c, k).slabs_clsid = c /\ Header(f, n, c, k).key = k
BY DEF Header, HeaderType

LEMMA UnlinkedFields ==
    ASSUME NEW h \in HeaderType, h.refcount # 0
    PROVE  /\ Unlinked(h) \in HeaderType /\ Unlinked(h).refcount = h.refcount - 1
           /\ Unlinked(h).slabs_clsid = h.slabs_clsid /\ Unlinked(h).key = h.key
           /\ Unlinked(h).it_flags = h.it_flags \ {LINKED}
<1>1. h.refcount - 1 \in Nat /\ h.it_flags \ {LINKED} \in SUBSET {LINKED, SLABBED, FETCHED}
  BY Fields
<1>2. Unlinked(h) = [h EXCEPT !.it_flags = h.it_flags \ {LINKED}, !.refcount = h.refcount - 1]
  BY DEF Unlinked
<1>3. PICK n \in Nat, f \in SUBSET {LINKED, SLABBED, FETCHED} :
        n = h.refcount - 1 /\ f = h.it_flags \ {LINKED}
  BY <1>1
<1>6. PICK u : u = Unlinked(h)
  OBVIOUS
<1>4. u = [h EXCEPT !.it_flags = f, !.refcount = n]
  BY <1>2, <1>3, <1>6
<1>5. /\ u \in HeaderType /\ u.refcount = n /\ u.it_flags = f
      /\ u.slabs_clsid = h.slabs_clsid /\ u.key = h.key
  BY ONLY <1>4, h \in HeaderType, n \in Nat, f \in SUBSET {LINKED, SLABBED, FETCHED} DEF HeaderType
<1> QED BY <1>3, <1>5, <1>6

LEMMA LinkedFields ==
    ASSUME NEW h \in HeaderType
    PROVE  /\ Linked(h) \in HeaderType /\ Linked(h).refcount = h.refcount + 1
           /\ Linked(h).slabs_clsid = h.slabs_clsid /\ Linked(h).key = h.key
           /\ Linked(h).it_flags = h.it_flags \cup {LINKED}
<1>1. h.refcount + 1 \in Nat /\ h.it_flags \cup {LINKED} \in SUBSET {LINKED, SLABBED, FETCHED}
  BY Fields
<1>2. Linked(h) = [h EXCEPT !.it_flags = h.it_flags \cup {LINKED}, !.refcount = h.refcount + 1]
  BY DEF Linked
<1>3. PICK n \in Nat, f \in SUBSET {LINKED, SLABBED, FETCHED} :
        n = h.refcount + 1 /\ f = h.it_flags \cup {LINKED}
  BY <1>1
<1>6. PICK u : u = Linked(h)
  OBVIOUS
<1>4. u = [h EXCEPT !.it_flags = f, !.refcount = n]
  BY <1>2, <1>3, <1>6
<1>5. /\ u \in HeaderType /\ u.refcount = n /\ u.it_flags = f
      /\ u.slabs_clsid = h.slabs_clsid /\ u.key = h.key
  BY ONLY <1>4, h \in HeaderType, n \in Nat, f \in SUBSET {LINKED, SLABBED, FETCHED} DEF HeaderType
<1> QED BY <1>3, <1>5, <1>6

LEMMA CountedFields ==
    ASSUME NEW h \in HeaderType, NEW n \in Nat
    PROVE  LET u == [h EXCEPT !.refcount = n]
           IN  /\ u \in HeaderType /\ u.refcount = n /\ u.it_flags = h.it_flags
               /\ u.slabs_clsid = h.slabs_clsid /\ u.key = h.key
BY DEF HeaderType

LEMMA ChunkFacts ==
    /\ \A x \in Chunks : x = <<x[1], x[2]>> /\ x[1] \in Pages /\ x[2] \in Nat \ {0}
    /\ \A p \in Pages, c \in Classes :
         /\ \A i \in 1 .. PerSlab[c] : /\ <<p, i>> \in Chunks /\ <<p, i>>[1] = p
                                       /\ <<p, i>>[2] = i
         /\ \A x \in Chunks : x \in ChunksOf(p, c) <=> x[1] = p /\ x[2] <= PerSlab[c]
         /\ ChunksOf(p, c) \subseteq Chunks
<1>1. \A x \in Chunks : x = <<x[1], x[2]>> /\ x[1] \in Pages /\ x[2] \in Nat \ {0}
  <2> SUFFICES ASSUME NEW x \in Chunks
               PROVE  x = <<x[1], x[2]>> /\ x[1] \in Pages /\ x[2] \in Nat \ {0}
    OBVIOUS
  <2>1. PICK p \in Pages, i \in UNION {1 .. PerSlab[c] : c \in Classes} : x = <<p, i>>
    BY DEF Chunks
  <2>2. PICK c \in Classes : i \in 1 .. PerSlab[c]
    OBVIOUS
  <2>3. i \in Nat \ {0}
    BY <2>2, Constants
  <2> QED BY <2>1, <2>3
<1>2. \A p \in Pages, c \in Classes : \A i \in 1 .. PerSlab[c] :
        <<p, i>> \in Chunks /\ <<p, i>>[1] = p /\ <<p, i>>[2] = i
  BY DEF Chunks
<1>3. ASSUME NEW p \in Pages, NEW c \in Classes, NEW x \in Chunks
      PROVE  x \in ChunksOf(p, c) <=> x[1] = p /\ x[2] <= PerSlab[c]
  <2>1. x = <<x[1], x[2]>> /\ x[2] \in Nat \ {0} /\ PerSlab[c] \in Nat
    BY <1>1, Constants
  <2>2. x[2] <= PerSlab[c] <=> x[2] \in 1 .. PerSlab[c]
    BY <2>1
  <2> QED BY <2>1, <2>2 DEF ChunksOf
<1>4. \A p \in Pages, c \in Classes : ChunksOf(p, c) \subseteq Chunks
  BY <1>2 DEF ChunksOf
<1> QED BY <1>1, <1>2, <1>3, <1>4

\* Types, field by field.
LEMMA Typed ==
    ASSUME TypeOK
    PROVE  /\ slab_list \in Lists /\ mem_malloced \in Nat /\ mem_limit \in Nat
           /\ item \in [Chunks -> HeaderType]
           /\ \A x \in Chunks : /\ item[x] \in HeaderType /\ item[x].refcount \in Nat
                                /\ item[x].slabs_clsid \in Classes \cup {POOL}
                                /\ item[x].key \in Keys \cup {None}
           /\ \A k \in Keys : assoc[k] \in Chunks \cup {None}
           /\ \A w \in Workers : it[w] \in Chunks \cup {None} /\ victim[w] \in Chunks \cup {None}
           /\ \A c \in Classes : slots[c] \subseteq Chunks
           /\ new_it \in Chunks \cup {None}
<1>1. item \in [Chunks -> HeaderType]
  BY DEF TypeOK, HeaderType
<1>2. \A x \in Chunks : item[x] \in HeaderType
  BY <1>1
<1>3. \A x \in Chunks : /\ item[x].refcount \in Nat
                        /\ item[x].slabs_clsid \in Classes \cup {POOL}
                        /\ item[x].key \in Keys \cup {None}
  BY <1>2, Fields
<1> QED BY <1>1, <1>2, <1>3 DEF TypeOK, Lists

LEMMA RebalTyped ==
    ASSUME TypeOK
    PROVE  /\ slab_rebal \in RebalType
           /\ SrcCls \in Classes \cup {POOL} /\ slab_rebal.d_clsid \in Classes \cup {POOL}
           /\ slab_rebal.slab_start \in Pages \cup {None} /\ slab_rebal.slab_pos \in Nat
           /\ slab_rebal.busy_items \in BOOLEAN
           /\ slab_rebal.busy_loops \in 0 .. MaxLoops + 1
<1>1. slab_rebal \in RebalType
  BY DEF TypeOK, RebalType
<1> QED BY <1>1 DEF RebalType, SrcCls

-----------------------------------------------------------------------------
(* References.                                                             *)

Count(x) == Cardinality({w \in Workers : it[w] = x})
BIT(b) == IF b THEN 1 ELSE 0

\* What a count says, now and after a step.
LEMMA CountNow ==
    ASSUME NEW x
    PROVE  /\ Count(x) \in Nat /\ Count(x)' \in Nat
           /\ Count(x) = 0 => \A w \in Workers : it[w] # x
           /\ \A w \in Workers : it[w] = x => Count(x) >= 1
           /\ (\A w \in Workers : it[w] # x) => Count(x) = 0
           /\ (\A w \in Workers : (it'[w] = x <=> it[w] = x)) => Count(x)' = Count(x)
<1>1. IsFiniteSet({w \in Workers : it[w] = x}) /\ IsFiniteSet({w \in Workers : it'[w] = x})
  BY NameAssumption, FS_Subset
<1>2. Count(x) \in Nat /\ Count(x)' \in Nat
  BY <1>1, FS_CardinalityType DEF Count
<1>3. Count(x) = 0 <=> {w \in Workers : it[w] = x} = {}
  BY <1>1, FS_EmptySet DEF Count
<1>4. (\A w \in Workers : (it'[w] = x <=> it[w] = x)) => Count(x)' = Count(x)
  <2> SUFFICES ASSUME \A w \in Workers : (it'[w] = x <=> it[w] = x)
               PROVE  Count(x)' = Count(x)
    OBVIOUS
  <2>1. {w \in Workers : it'[w] = x} = {w \in Workers : it[w] = x}
    OBVIOUS
  <2> QED BY <2>1 DEF Count
<1>5. Count(x) = 0 => \A w \in Workers : it[w] # x
  BY <1>3
<1>6. (\A w \in Workers : it[w] # x) => Count(x) = 0
  BY <1>3
<1> QED BY <1>2, <1>4, <1>5, <1>6

\* A worker gets or gives up an item.
LEMMA CountStep ==
    ASSUME NEW w \in Workers, NEW y, it \in [Workers -> Chunks \cup {None}],
           it' = [it EXCEPT ![w] = y], NEW x
    PROVE  /\ it[w] # x /\ y = x => Count(x)' = Count(x) + 1
           /\ it[w] = x /\ y # x => Count(x)' = Count(x) - 1
           /\ (it[w] = x <=> y = x) => Count(x)' = Count(x)
<1>1. IsFiniteSet({v \in Workers : it[v] = x})
  BY NameAssumption, FS_Subset
<1>2. ASSUME it[w] # x, y = x PROVE Count(x)' = Count(x) + 1
  <2>1. {v \in Workers : it'[v] = x} = {v \in Workers : it[v] = x} \cup {w}
    BY <1>2
  <2>2. w \notin {v \in Workers : it[v] = x}
    BY <1>2
  <2> QED BY <1>1, <2>1, <2>2, FS_AddElement DEF Count
<1>3. ASSUME it[w] = x, y # x PROVE Count(x)' = Count(x) - 1
  <2>1. {v \in Workers : it'[v] = x} = {v \in Workers : it[v] = x} \ {w}
    BY <1>3
  <2>2. w \in {v \in Workers : it[v] = x}
    BY <1>3
  <2> QED BY <1>1, <2>1, <2>2, FS_RemoveElement DEF Count
<1>4. ASSUME it[w] = x <=> y = x PROVE Count(x)' = Count(x)
  <2>1. \A v \in Workers : it'[v] = x <=> it[v] = x
    BY <1>4
  <2> QED BY <2>1, CountNow
<1> QED BY <1>2, <1>3, <1>4

\* RefcountExact in these terms, now and after a step.
Exact(x) == item[x].refcount = Count(x) + BIT(IsLinked(x)) + BIT(MoverHolds(x))

LEMMA ExactIs ==
    /\ RefcountExact <=> \A c \in Classes, x \in Chunks : InClass(x, c) /\ Used(x) => Exact(x)
    /\ RefcountExact' <=> \A c \in Classes, x \in Chunks : InClass(x, c)' /\ Used(x)' => Exact(x)'
BY DEF RefcountExact, Used, Exact, Count, BIT, IsLinked

-----------------------------------------------------------------------------
(* What the invariant says of an item that someone has.                    *)

USE DEF IInv

LEMMA OneClass ==
    ASSUME IInv, NEW x \in Chunks, NEW c \in Classes, NEW d \in Classes,
           InClass(x, c), InClass(x, d)
    PROVE  c = d
<1>1. slab_list \in Lists /\ Once(slab_list)
  BY Typed, PagesNow DEF Bought
<1>2. x[1] \in On(slab_list, c) /\ x[1] \in On(slab_list, d)
  BY <1>1, PagesNow
<1> QED BY <1>1, <1>2 DEF On, Once

\* An item in its class.
Plain(x) ==
    /\ x \in Chunks /\ Used(x) /\ x # new_it
    /\ item[x].slabs_clsid \in Classes /\ InClass(x, item[x].slabs_clsid)
    /\ item[x].key \in Keys /\ item[x].refcount \in Nat /\ Exact(x)
    /\ \A c \in Classes : x \notin slots[c]

LEMMA AccountedNow ==
    ASSUME IInv, NEW x \in Chunks, NEW c \in Classes, InClass(x, c)
    PROVE  /\ IsFree(x) \/ IsCleared(x) \/ Used(x)
           /\ IsFree(x) => x \in slots[c] /\ item[x].slabs_clsid = 0
           /\ IsCleared(x) => x \notin slots[c] /\ InRange(x)
           /\ Used(x) => x \notin slots[c] /\ (item[x].refcount > 0 \/ Freeing(x))
<1>1. CASE IsFree(x) \/ IsCleared(x)
  BY <1>1, Kinds DEF ChunksAccounted, IsFree, IsCleared
<1>2. CASE ~IsFree(x) /\ ~IsCleared(x)
  BY <1>2 DEF ChunksAccounted, IsFree, IsCleared, Used, Freeing
<1> QED BY <1>1, <1>2, Kinds

\* The same for the state after a step.
LEMMA AccountedThen ==
    ASSUME \A c \in Classes : \A x \in slots'[c] : InClass(x, c)',
           \A c \in Classes, x \in Chunks : InClass(x, c)' =>
             \/ IsFree(x)' /\ x \in slots'[c] /\ item'[x].slabs_clsid = 0
             \/ IsCleared(x)' /\ x \notin slots'[c] /\ InRange(x)'
             \/ Used(x)' /\ x \notin slots'[c] /\ (item'[x].refcount > 0 \/ Freeing(x)')
    PROVE  ChunksAccounted'
<1>1. \A x : /\ IsFree(x)' => ~Used(x)' /\ ~IsCleared(x)'
             /\ IsCleared(x)' => ~Used(x)'
  BY Flags DEF IsFree, IsCleared, Used
<1> QED BY <1>1 DEF ChunksAccounted, IsFree, IsCleared, Used, Freeing

LEMMA PlainItem ==
    ASSUME IInv, NEW x \in Chunks, IsItem(x)
    PROVE  Plain(x)
<1>1. item[x].slabs_clsid \in Classes /\ InClass(x, item[x].slabs_clsid) /\ Used(x)
  BY Typed DEF IsItem, Used
<1>2. x # new_it
  BY <1>1, Constants DEF MoverOK, POOL
<1>3. item[x].key \in Keys /\ item[x].refcount \in Nat
  BY <1>1, <1>2, Typed DEF Headers
<1>4. Exact(x)
  BY <1>1, ExactIs
<1>5. \A c \in Classes : x \notin slots[c]
  <2>1. \A c \in Classes : x \in slots[c] => InClass(x, c)
    BY DEF ChunksAccounted
  <2> QED BY <1>1, <2>1, AccountedNow
<1> QED BY <1>1, <1>2, <1>3, <1>4, <1>5 DEF Plain

LEMMA PosFacts ==
    ASSUME IInv
    PROVE  /\ Moving \/ mpc = "finish" => /\ Pos \in Chunks /\ InClass(Pos, SrcCls)
                                          /\ SrcCls \in Classes /\ InRange(Pos)
           /\ Holding => /\ Plain(Pos) /\ item[Pos].slabs_clsid = SrcCls
                         /\ item[Pos].refcount = 1 + BIT(mpc # "slabs_free")
                         /\ Count(Pos) = 0
           /\ mpc # "rescue" => \A x \in Chunks : x # new_it
<1>1. ASSUME Moving \/ mpc = "finish"
      PROVE  Pos \in Chunks /\ InClass(Pos, SrcCls) /\ SrcCls \in Classes /\ InRange(Pos)
  <2>1. /\ SrcCls \in Classes /\ slab_rebal.slab_start \in Pages /\ slab_list[SrcCls] # <<>>
        /\ slab_list[SrcCls][1] = slab_rebal.slab_start
        /\ slab_rebal.slab_pos \in 1 .. PerSlab[SrcCls]
    BY <1>1 DEF MoverOK, Moving, Holding
  <2>2. /\ Pos \in Chunks /\ Pos[1] = slab_rebal.slab_start /\ Pos[2] = slab_rebal.slab_pos
    BY <2>1, ChunkFacts DEF Pos
  <2>3. 1 \in DOMAIN slab_list[SrcCls]
    BY <2>1, Typed, ListFacts
  <2>4. Pos[2] <= PerSlab[SrcCls]
    BY <2>1, <2>2, Constants
  <2> QED BY <2>1, <2>2, <2>3, <2>4 DEF InClass, InRange
<1>2. ASSUME Holding
      PROVE  /\ Plain(Pos) /\ item[Pos].slabs_clsid = SrcCls
             /\ item[Pos].refcount = 1 + BIT(mpc # "slabs_free") /\ Count(Pos) = 0
  <2>1. Pos \in Chunks /\ InClass(Pos, SrcCls) /\ SrcCls \in Classes /\ InRange(Pos)
    BY <1>1, <1>2 DEF Moving
  <2>2. Used(Pos) /\ (IsLinked(Pos) <=> (mpc # "slabs_free")) /\ Count(Pos) = 0
    BY <1>2, CountNow DEF MoverOK
  <2>3. Pos # new_it
    BY <2>1, Constants DEF MoverOK
  <2>4. item[Pos].slabs_clsid = SrcCls
    BY <2>1, <2>2, <2>3 DEF Headers
  <2>5. IsItem(Pos)
    BY <2>1, <2>2, <2>4, Constants DEF IsItem, Used
  <2>6. Plain(Pos)
    BY <2>1, <2>5, PlainItem
  <2>7. MoverHolds(Pos)
    BY <1>2 DEF MoverHolds, Holding
  <2>8. item[Pos].refcount = 1 + BIT(mpc # "slabs_free")
    BY <2>2, <2>6, <2>7 DEF Plain, Exact, BIT
  <2> QED BY <2>2, <2>4, <2>6, <2>8
<1>3. mpc # "rescue" => \A x \in Chunks : x # new_it
  BY Constants DEF MoverOK
<1> QED BY <1>1, <1>2, <1>3

LEMMA HeldFacts ==
    ASSUME IInv, NEW w \in Workers, it[w] # None
    PROVE  /\ Plain(it[w]) /\ item[it[w]].refcount > 0 /\ ~MoverHolds(it[w])
           /\ (Holding => it[w] # Pos)
<1>1. it[w] \in Chunks /\ IsItem(it[w])
  BY Typed DEF NoDanglingItem
<1>2. Plain(it[w])
  BY <1>1, PlainItem
<1>3. Holding => it[w] # Pos
  BY DEF MoverOK
<1>4. ~MoverHolds(it[w])
  BY <1>2, <1>3 DEF MoverHolds, Plain, Holding
<1>5. Count(it[w]) \in Nat /\ Count(it[w]) >= 1
  BY CountNow
<1>6. item[it[w]].refcount > 0
  BY <1>2, <1>5 DEF Plain, Exact, BIT
<1> QED BY <1>2, <1>3, <1>4, <1>6

LEMMA TableFacts ==
    ASSUME IInv, NEW k \in Keys, assoc[k] # None
    PROVE  /\ Plain(assoc[k]) /\ item[assoc[k]].refcount > 0 /\ item[assoc[k]].key = k
           /\ IsLinked(assoc[k])
           /\ item_locks[k] # Mover => ~MoverHolds(assoc[k]) /\ (Holding => assoc[k] # Pos)
<1>1. /\ assoc[k] \in Chunks /\ IsItem(assoc[k]) /\ item[assoc[k]].key = k
      /\ IsLinked(assoc[k])
  BY Typed DEF NoDanglingItem, IsLinked
<1>2. Plain(assoc[k])
  BY <1>1, PlainItem
<1>3. item_locks[k] # Mover => (Holding => assoc[k] # Pos)
  BY <1>1 DEF MoverOK
<1>4. item_locks[k] # Mover => ~MoverHolds(assoc[k])
  BY <1>2, <1>3 DEF MoverHolds, Plain, Holding
<1>5. Count(assoc[k]) \in Nat
  BY CountNow
<1>6. item[assoc[k]].refcount > 0
  BY <1>1, <1>2, <1>5 DEF Plain, Exact, BIT
<1> QED BY <1>1, <1>2, <1>3, <1>4, <1>6

LEMMA VictimFacts ==
    ASSUME IInv, NEW w \in Workers, victim[w] # None
    PROVE  /\ wpc[w] = "free" /\ Plain(victim[w]) /\ item[victim[w]].refcount = 0
           /\ ~IsLinked(victim[w]) /\ ~MoverHolds(victim[w]) /\ (Holding => victim[w] # Pos)
           /\ \A v \in Workers : it[v] # victim[w]
           /\ \A v \in Workers : victim[v] = victim[w] => v = w
           /\ item[victim[w]].key = op[w].key
<1>1. /\ wpc[w] = "free" /\ item[victim[w]].refcount = 0 /\ ~IsLinked(victim[w])
      /\ item[victim[w]].key = op[w].key
  BY DEF WorkerOK
<1>2. victim[w] \in Chunks /\ IsItem(victim[w])
  BY Typed DEF NoDanglingItem
<1>3. Plain(victim[w])
  BY <1>2, PlainItem
<1>4. Count(victim[w]) \in Nat
  BY CountNow
<1>5. Count(victim[w]) = 0 /\ ~MoverHolds(victim[w])
  BY <1>1, <1>3, <1>4 DEF Plain, Exact, BIT
<1>6. Holding => victim[w] # Pos
  BY <1>5 DEF MoverHolds, Holding
<1>7. \A v \in Workers : it[v] # victim[w]
  BY <1>5, CountNow
<1>8. \A v \in Workers : victim[v] = victim[w] => v = w
  BY <1>1 DEF WorkerOK
<1> QED BY <1>1, <1>3, <1>5, <1>6, <1>7, <1>8

-----------------------------------------------------------------------------
(* A worker's step on items, with the freelists and the mover as they were. *)

\* What may happen to a chunk in such a step: nothing, or an item somebody has
\* a reference to, and the mover has not, stays an item of its class and key.
Touched(x) ==
    \/ item'[x] = item[x]
    \/ /\ Plain(x) /\ Used(x)' /\ item[x].refcount > 0 /\ (Holding => x # Pos)
       /\ item'[x].slabs_clsid = item[x].slabs_clsid /\ item'[x].key = item[x].key

LEMMA ItemStep ==
    ASSUME IInv, TypeOK', PagesOwnedOnce', UNCHANGED <<slab_list, slots, moverVars>>,
           \A x \in Chunks : Touched(x),
           Holding => item_locks'[item[Pos].key] = Mover /\ \A v \in Workers : it'[v] # Pos,
           \A x \in Chunks : /\ item'[x] # item[x] => item'[x].refcount > 0 \/ Freeing(x)'
                             /\ Freeing(x) => Freeing(x)'
                             /\ Exact(x) => Exact(x)',
           \A v \in Workers : \A x \in {it'[v], victim'[v]} \ {None} : Plain(x),
           \A k \in Keys : assoc'[k] # None =>
             \E x \in Chunks : assoc'[k] = x /\ Plain(x) /\ item[x].key = k /\ IsLinked(x)',
           \A x \in Chunks : Plain(x) /\ IsLinked(x)' => assoc'[item[x].key] = x,
           \A v \in Workers : WorkerOK(v)'
    PROVE  IInv'
<1> USE DEF moverVars
<1>1. \A c \in Classes, x \in Chunks : InClass(x, c)' <=> InClass(x, c)
  BY DEF InClass

<1>3. \A x \in Chunks : Used(x)' <=> Used(x)
  BY DEF Touched, Used, Plain
<1>4. \A x \in Chunks : ~Used(x) => item'[x] = item[x]
  BY DEF Touched, Plain
<1>5. \A x \in Chunks : Plain(x) \/ item'[x] = item[x]
  BY DEF Touched
<1>6. \A x \in Chunks : item'[x].slabs_clsid = item[x].slabs_clsid /\ item'[x].key = item[x].key
  BY DEF Touched
<1>7. \A x \in Chunks : InRange(x)' <=> InRange(x)
  BY DEF InRange
<1>8. ChunksAccounted'
  <2>1. \A c \in Classes : \A x \in slots'[c] : InClass(x, c)'
    BY <1>1, Typed DEF ChunksAccounted
  <2>2. ASSUME NEW c \in Classes, NEW x \in Chunks, InClass(x, c)
        PROVE  \/ IsFree(x)' /\ x \in slots'[c] /\ item'[x].slabs_clsid = 0
               \/ IsCleared(x)' /\ x \notin slots'[c] /\ InRange(x)'
               \/ Used(x)' /\ x \notin slots'[c] /\ (item'[x].refcount > 0 \/ Freeing(x)')
    <3>1. CASE IsFree(x)
      <4>1. item'[x] = item[x] /\ IsFree(x)'
        BY <1>4, <3>1, Kinds DEF IsFree
      <4> QED BY <2>2, <3>1, <4>1, AccountedNow
    <3>2. CASE IsCleared(x)
      <4>1. IsCleared(x)'
        BY <1>4, <3>2, Kinds DEF IsCleared
      <4> QED BY <1>7, <2>2, <3>2, <4>1, AccountedNow
    <3>3. CASE Used(x)
      BY <1>3, <2>2, <3>3, AccountedNow
    <3> QED BY <2>2, <3>1, <3>2, <3>3, AccountedNow
  <2> QED BY <1>1, <2>1, <2>2, AccountedThen
<1>9. Headers'
  <2>1. ASSUME NEW c \in Classes, NEW x \in Chunks, InClass(x, c)
        PROVE  /\ Used(x)' /\ x # new_it' => item'[x].slabs_clsid = c /\ item'[x].key \in Keys
               /\ ~Used(x)' => ~IsLinked(x)'
               /\ IsCleared(x)' => item'[x].refcount = 0
    <3>1. CASE Used(x)
      <4>1. Used(x)' /\ ~IsCleared(x)'
        BY <1>3, <3>1, Flags DEF Used, IsCleared
      <4> QED BY <1>6, <2>1, <3>1, <4>1 DEF Headers
    <3>2. CASE ~Used(x)
      BY <1>3, <1>4, <2>1, <3>2 DEF Headers, IsLinked, IsCleared
    <3> QED BY <3>1, <3>2
  <2>2. ASSUME NEW x \in Chunks, \A c \in Classes : ~InClass(x, c)
        PROVE  item'[x].refcount = 0 /\ ~IsLinked(x)'
    BY <1>5, <2>2 DEF Headers, IsLinked, Plain
  <2> QED BY <1>1, <2>1, <2>2 DEF Headers
<1>10. RefcountExact'
  BY <1>1, <1>3, ExactIs
<1>11. \A x \in Chunks : Plain(x) => IsItem(x)'
  <2> SUFFICES ASSUME NEW x \in Chunks, Plain(x) PROVE IsItem(x)'
    OBVIOUS
  <2>1. Used(x)' /\ item'[x].slabs_clsid \in Classes /\ InClass(x, item[x].slabs_clsid)
    BY <1>3, <1>6 DEF Plain
  <2>2. InClass(x, item[x].slabs_clsid)' /\ item'[x].slabs_clsid = item[x].slabs_clsid
    BY <1>1, <1>6, <2>1
  <2>3. item'[x].slabs_clsid # POOL
    BY <2>1, Constants
  <2> QED BY <2>1, <2>2, <2>3 DEF IsItem, Used, InClass
<1>12. NoDanglingItem'
  <2>1. \A v \in Workers : \A x \in {it'[v], victim'[v]} \ {None} : IsItem(x)'
    BY <1>11 DEF Plain
  <2>2. \A k \in Keys : assoc'[k] # None =>
          \E x \in Chunks : /\ assoc'[k] = x /\ IsItem(x)' /\ item'[x].key = k
                            /\ LINKED \in item'[x].it_flags
    BY <1>6, <1>11 DEF IsLinked
  <2>3. ASSUME NEW c \in Classes, NEW x \in Chunks, InClass(x, c), IsLinked(x)'
        PROVE  assoc'[item'[x].key] = x
    <3>1. CASE Plain(x)
      BY <1>6, <2>3, <3>1
    <3>2. CASE ~Plain(x)
      <4>1. IsLinked(x)
        BY <1>5, <2>3, <3>2 DEF IsLinked
      <4>2. Used(x) /\ x # new_it
        BY <2>3, <4>1, Constants DEF Headers, MoverOK
      <4>3. IsItem(x)
        BY <2>3, <4>2, Constants DEF Headers, IsItem, Used
      <4> QED BY <3>2, <4>3, PlainItem
    <3> QED BY <3>1, <3>2
  <2>4. (\A k \in Keys : assoc[k] # None =>
           IsItem(assoc[k]) /\ item[assoc[k]].key = k /\ LINKED \in item[assoc[k]].it_flags)'
    BY <2>2 DEF IsItem, InClass
  <2>5. (\A c \in Classes, x \in Chunks :
           InClass(x, c) /\ LINKED \in item[x].it_flags => assoc[item[x].key] = x)'
    BY <1>1, <2>3 DEF IsLinked
  <2> QED BY <2>1, <2>4, <2>5 DEF NoDanglingItem
<1>13. MoverOK'
  <2>1. Holding => /\ Used(Pos)' /\ item'[Pos] = item[Pos]
    <3>1. Holding => Pos \in Chunks /\ Plain(Pos)
      BY PosFacts DEF Moving
    <3>2. Pos' = Pos
      BY DEF Pos
    <3> QED BY <1>3, <3>1, <3>2 DEF Touched, Used, Plain
  <2>2. mpc = "rescue" => item'[new_it] = item[new_it] /\ new_it \in Chunks
    <3>1. mpc = "rescue" => new_it \in Chunks
      BY Typed DEF MoverOK
    <3> QED BY <1>5, <3>1 DEF Plain
  <2>3. mpc = "rescue" => (InClass(new_it, SrcCls)' <=> InClass(new_it, SrcCls))
    BY DEF InClass, SrcCls
  <2> QED BY <2>1, <2>2, <2>3 DEF MoverOK, Holding, Moving, Used, IsLinked, Pos, SrcCls, InRange
<1>14. SweptClear'
  <2>1. Swept' = Swept
    BY DEF Swept, SrcCls
  <2>2. ASSUME NEW i \in 1 .. Swept, Moving \/ mpc = "finish",
               IsCleared(<<slab_rebal.slab_start, i>>)
        PROVE  IsCleared(<<slab_rebal.slab_start, i>>)'
    <3>1. i \in 1 .. PerSlab[SrcCls] /\ SrcCls \in Classes /\ slab_rebal.slab_start \in Pages
      <4>1. /\ SrcCls \in Classes /\ slab_rebal.slab_start \in Pages
            /\ slab_rebal.slab_pos \in 1 .. PerSlab[SrcCls]
        BY <2>2 DEF MoverOK, Moving, Holding
      <4>2. PICK n \in Nat, m \in Nat :
              n = PerSlab[SrcCls] /\ m = slab_rebal.slab_pos /\ m >= 1 /\ m <= n
        BY <4>1, Constants
      <4>3. Swept \in {n, m, m - 1}
        BY <4>2 DEF Swept
      <4> QED BY <4>1, <4>2, <4>3
    <3>2. PICK x \in Chunks : x = <<slab_rebal.slab_start, i>>
      BY <3>1, ChunkFacts
    <3>3. item'[x] = item[x]
      BY <1>4, <2>2, <3>2, Kinds
    <3> QED BY <2>2, <3>2, <3>3 DEF IsCleared
  <2> QED BY <2>1, <2>2 DEF SweptClear, Moving, Holding
<1> QED BY <1>8, <1>9, <1>10, <1>12, <1>13, <1>14

\* The other workers, whose items may have lost their link.
LEMMA Others ==
    ASSUME IInv, NEW w \in Workers, \A x \in Chunks : Touched(x),
           \A v \in Workers : v # w =>
             /\ wpc'[v] = wpc[v] /\ op'[v] = op[v] /\ wkey'[v] = wkey[v] /\ wcls'[v] = wcls[v]
             /\ it'[v] = it[v] /\ victim'[v] = victim[v]
             /\ HasNew(v) => it'[w] # it[v] /\ (IsLinked(it[v]) <=> LINKED \in item'[it[v]].it_flags),
           \A k \in Keys : item_locks[k] \in Workers \ {w} => item_locks'[k] = item_locks[k]
    PROVE  \A v \in Workers : v # w => WorkerOK(v)'
<1> SUFFICES ASSUME NEW v \in Workers, v # w PROVE WorkerOK(v)'
  OBVIOUS
<1>1. it[v] # None => item'[it[v]].key = item[it[v]].key
  BY HeldFacts DEF Touched, Plain
<1>2. victim[v] # None => item'[victim[v]] = item[victim[v]]
  <2> SUFFICES ASSUME victim[v] # None PROVE item'[victim[v]] = item[victim[v]]
    OBVIOUS
  <2>1. PICK x \in Chunks : x = victim[v] /\ item[x].refcount = 0
    BY VictimFacts DEF Plain
  <2>2. item'[x] = item[x]
    BY <2>1 DEF Touched
  <2> QED BY <2>1, <2>2
<1>3. /\ wpc'[v] = wpc[v] /\ op'[v] = op[v] /\ wkey'[v] = wkey[v] /\ wcls'[v] = wcls[v]
      /\ it'[v] = it[v] /\ victim'[v] = victim[v]
  OBVIOUS
<1>4. WorkerOK(v)
  OBVIOUS
<1>5. wpc[v] \in {"locked", "free"} => item_locks'[op[v].key] = v
  BY <1>4 DEF WorkerOK
<1>6. HasNew(v)' <=> HasNew(v)
  BY <1>3 DEF HasNew
<1>7. HasNew(v) => (\A u \in Workers : it'[u] = it[v] => u = v)
  BY <1>4 DEF WorkerOK
<1>8. HasNew(v) => ~(LINKED \in item'[it[v]].it_flags)
  BY <1>4 DEF WorkerOK
<1>9. wpc[v] = "free" => victim[v] # None
  BY <1>4 DEF WorkerOK
<1> QED BY <1>1, <1>2, <1>3, <1>4, <1>5, <1>6, <1>7, <1>8, <1>9 DEF WorkerOK, IsLinked

\* Types, part by part.
LEMMA TypeThen ==
    ASSUME slab_list' \in Lists, slots' \in [Classes -> SUBSET Chunks],
           item' \in [Chunks -> HeaderType], assoc' \in [Keys -> Chunks \cup {None}],
           item_locks' \in [Keys -> Workers \cup {Mover, None}],
           mem_limit' \in Nat, mem_malloced' \in Nat,
           wpc' \in [Workers -> {"idle", "alloc", "pull", "new", "using", "locked", "free"}],
           op' \in [Workers -> Ops], wkey' \in [Workers -> Keys \cup {None}],
           wcls' \in [Workers -> Classes \cup {POOL}], it' \in [Workers -> Chunks \cup {None}],
           victim' \in [Workers -> Chunks \cup {None}], slab_rebal' \in RebalType,
           new_it' \in Chunks \cup {None},
           mpc' \in {"wait", "start", "move", "trylock", "rescue", "evict", "slabs_free",
                     "advance", "finish", "exited"}
    PROVE  TypeOK'
BY DEF TypeOK, Lists, HeaderType, RebalType

LEMMA TypeNow ==
    ASSUME TypeOK
    PROVE  /\ slab_list \in Lists /\ slots \in [Classes -> SUBSET Chunks]
           /\ item \in [Chunks -> HeaderType] /\ assoc \in [Keys -> Chunks \cup {None}]
           /\ item_locks \in [Keys -> Workers \cup {Mover, None}]
           /\ mem_limit \in Nat /\ mem_malloced \in Nat
           /\ wpc \in [Workers -> {"idle", "alloc", "pull", "new", "using", "locked", "free"}]
           /\ op \in [Workers -> Ops] /\ wkey \in [Workers -> Keys \cup {None}]
           /\ wcls \in [Workers -> Classes \cup {POOL}] /\ it \in [Workers -> Chunks \cup {None}]
           /\ victim \in [Workers -> Chunks \cup {None}] /\ slab_rebal \in RebalType
           /\ new_it \in Chunks \cup {None}
           /\ mpc \in {"wait", "start", "move", "trylock", "rescue", "evict", "slabs_free",
                       "advance", "finish", "exited"}
BY DEF TypeOK, Lists, HeaderType, RebalType

\* What a step does to the worker's own variables.
Work(w, p, o, x, y, k, c) ==
    /\ wpc' = [wpc EXCEPT ![w] = p] /\ op' = [op EXCEPT ![w] = o]
    /\ it' = [it EXCEPT ![w] = x] /\ victim' = [victim EXCEPT ![w] = y]
    /\ wkey' = [wkey EXCEPT ![w] = k] /\ wcls' = [wcls EXCEPT ![w] = c]

\* The worker's variables have the right type after a step...
WorkArgs(p, o, x, y, k, c) ==
    /\ p \in {"idle", "alloc", "pull", "new", "using", "locked", "free"} /\ o \in Ops
    /\ x \in Chunks \cup {None} /\ y \in Chunks \cup {None} /\ k \in Keys \cup {None}
    /\ c \in Classes \cup {POOL}

\* ...in which the others keep what they have.
Worked(w, p, o, x, y, k, c) ==
    /\ wpc'[w] = p /\ op'[w] = o /\ it'[w] = x /\ victim'[w] = y /\ wkey'[w] = k
    /\ wcls'[w] = c
    /\ \A v \in Workers : v # w =>
         /\ wpc'[v] = wpc[v] /\ op'[v] = op[v] /\ wkey'[v] = wkey[v]
         /\ wcls'[v] = wcls[v] /\ it'[v] = it[v] /\ victim'[v] = victim[v]
WorkTyped ==
    /\ wpc' \in [Workers -> {"idle", "alloc", "pull", "new", "using", "locked", "free"}]
    /\ op' \in [Workers -> Ops] /\ wkey' \in [Workers -> Keys \cup {None}]
    /\ wcls' \in [Workers -> Classes \cup {POOL}] /\ it' \in [Workers -> Chunks \cup {None}]
    /\ victim' \in [Workers -> Chunks \cup {None}]

LEMMA WorkValues ==
    ASSUME TypeOK, NEW w \in Workers, NEW p, NEW o, NEW x, NEW y, NEW k, NEW c,
           WorkArgs(p, o, x, y, k, c), Work(w, p, o, x, y, k, c)
    PROVE  Worked(w, p, o, x, y, k, c) /\ WorkTyped
<1>1. Worked(w, p, o, x, y, k, c)
  BY TypeNow DEF Work, WorkArgs, Worked
<1>2. WorkTyped
  BY TypeNow DEF Work, WorkArgs, WorkTyped
<1> QED BY <1>1, <1>2

\* With the mover and the pages left alone, the types are right.
LEMMA WorkTypes ==
    ASSUME IInv, UNCHANGED <<slab_list, slots, memVars, moverVars>>,
           item' \in [Chunks -> HeaderType], assoc' \in [Keys -> Chunks \cup {None}],
           item_locks' \in [Keys -> Workers \cup {Mover, None}], WorkTyped
    PROVE  TypeOK'
BY TypeNow, TypeThen DEF memVars, moverVars, WorkTyped

\* What is left as it was, written as an update.
LEMMA Same ==
    ASSUME TypeOK, NEW w \in Workers
    PROVE  /\ wpc = [wpc EXCEPT ![w] = wpc[w]] /\ op = [op EXCEPT ![w] = op[w]]
           /\ it = [it EXCEPT ![w] = it[w]] /\ victim = [victim EXCEPT ![w] = victim[w]]
           /\ wkey = [wkey EXCEPT ![w] = wkey[w]] /\ wcls = [wcls EXCEPT ![w] = wcls[w]]
           /\ wpc[w] \in {"idle", "alloc", "pull", "new", "using", "locked", "free"}
           /\ op[w] \in Ops /\ it[w] \in Chunks \cup {None} /\ victim[w] \in Chunks \cup {None}
           /\ wkey[w] \in Keys \cup {None} /\ wcls[w] \in Classes \cup {POOL}
BY TypeNow

LEMMA NoOps ==
    /\ NoOp \in Ops /\ NoOp.do = "none" /\ NoOp.key = None
    /\ \A k \in Keys, o \in {"get", "store", "unlink", "remove", "evict"} :
         /\ [do |-> o, key |-> k] \in Ops
         /\ [do |-> o, key |-> k].do = o /\ [do |-> o, key |-> k].key = k
<1>1. NoOp \in Ops /\ NoOp.do = "none" /\ NoOp.key = None
  BY DEF Ops, NoOp
<1>2. \A k \in Keys, o \in {"get", "store", "unlink", "remove", "evict"} :
        /\ [do |-> o, key |-> k] \in Ops
        /\ [do |-> o, key |-> k].do = o /\ [do |-> o, key |-> k].key = k
  BY DEF Ops
<1> QED BY <1>1, <1>2

-----------------------------------------------------------------------------
(* The workers' steps on items.                                            *)

\* The mover's lock is nobody else's.
LEMMA MoversLock ==
    ASSUME IInv,
           \A k \in Keys : item_locks[k] = Mover => item_locks'[k] = Mover
    PROVE  Holding => item_locks'[item[Pos].key] = Mover
<1> SUFFICES ASSUME Holding PROVE item_locks'[item[Pos].key] = Mover
  OBVIOUS
<1>1. item[Pos].key \in Keys
  BY PosFacts DEF Plain
<1> QED BY <1>1 DEF MoverOK

\* The pages are where they were.
LEMMA SamePages ==
    ASSUME IInv, UNCHANGED <<slab_list, memVars>>
    PROVE  PagesOwnedOnce'
BY DEF PagesOwnedOnce, Owned, memVars

\* A step that changes only where worker w is, and locks.
LEMMA QuietWorker ==
    ASSUME IInv, NEW w \in Workers, TypeOK', PagesOwnedOnce',
           UNCHANGED <<slab_list, slots, moverVars, item, assoc, it, victim>>,
           \A v \in Workers : v # w => /\ wpc'[v] = wpc[v] /\ op'[v] = op[v]
                                       /\ wkey'[v] = wkey[v] /\ wcls'[v] = wcls[v],
           wpc[w] # "free", WorkerOK(w)',
           \A k \in Keys : item_locks[k] \in (Workers \ {w}) \cup {Mover} =>
                               item_locks'[k] = item_locks[k]
    PROVE  IInv'
<1>1. \A x \in Chunks : Touched(x)
  BY DEF Touched
<1>2. \A v \in Workers : v # w => (HasNew(v) => it'[w] # it[v])
  BY DEF WorkerOK
<1>3. \A v \in Workers : v # w => WorkerOK(v)'
  BY <1>1, <1>2, Others DEF IsLinked
<1>4. Holding => item_locks'[item[Pos].key] = Mover /\ \A v \in Workers : it'[v] # Pos
  BY MoversLock DEF MoverOK
<1>5. \A x \in Chunks : Freeing(x) => Freeing(x)'
  BY DEF Freeing
<1>6. \A x \in Chunks : Exact(x) => Exact(x)'
  <2>1. \A x \in Chunks : Count(x)' = Count(x)
    BY CountNow
  <2>2. \A x \in Chunks : MoverHolds(x)' <=> MoverHolds(x)
    BY DEF MoverHolds, Pos, moverVars
  <2> QED BY <2>1, <2>2 DEF Exact, IsLinked, BIT
<1>7. \A v \in Workers : \A x \in {it'[v], victim'[v]} \ {None} : Plain(x)
  BY HeldFacts, VictimFacts
<1>8. \A k \in Keys : assoc'[k] # None =>
        \E x \in Chunks : assoc'[k] = x /\ Plain(x) /\ item[x].key = k /\ IsLinked(x)'
  BY TableFacts DEF Plain, IsLinked
<1>9. \A x \in Chunks : Plain(x) /\ IsLinked(x)' => assoc'[item[x].key] = x
  BY DEF NoDanglingItem, Plain, IsLinked
<1> QED BY <1>1, <1>3, <1>4, <1>5, <1>6, <1>7, <1>8, <1>9, ItemStep

LEMMA Step_GiveUp ==
    ASSUME IInv, NEW w \in Workers, GiveUp(w)
    PROVE  IInv'
<1>1. /\ wpc[w] = "pull" /\ wpc' = [wpc EXCEPT ![w] = "idle"]
      /\ wkey' = [wkey EXCEPT ![w] = None] /\ wcls' = [wcls EXCEPT ![w] = POOL]
      /\ UNCHANGED <<slab_list, slots, memVars, moverVars, item, assoc, it, victim>>
      /\ UNCHANGED <<item_locks, op>>
  BY DEF GiveUp
<1>2. PICK o, x, y : o = op[w] /\ x = it[w] /\ y = victim[w]
  OBVIOUS
<1>3. Work(w, "idle", o, x, y, None, POOL) /\ WorkArgs("idle", o, x, y, None, POOL)
  BY <1>1, <1>2, Same DEF Work, WorkArgs
<1>4. Worked(w, "idle", o, x, y, None, POOL) /\ WorkTyped
  BY <1>3, WorkValues
<1>5. TypeOK'
  BY <1>1, <1>4, TypeNow, WorkTypes
<1>6. WorkerOK(w)'
  <2>1. WorkerOK(w) /\ op'[w] = op[w] /\ it'[w] = it[w] /\ victim'[w] = victim[w]
    BY <1>1
  <2> QED BY <1>1, <1>4, <2>1 DEF WorkerOK, HasNew, Worked
<1>7. PagesOwnedOnce'
  BY <1>1, SamePages
<1>8. UNCHANGED <<slab_list, slots, moverVars, item, assoc, it, victim>>
  BY <1>1
<1> QED BY <1>1, <1>4, <1>5, <1>6, <1>7, <1>8, QuietWorker DEF Worked

LEMMA Step_item_lock ==
    ASSUME IInv, NEW w \in Workers, item_lock(w)
    PROVE  IInv'
<1>1. PICK k \in Keys, o \in {"get", "store", "unlink", "remove"} :
         /\ \/ wpc[w] = "idle" /\ o = "get"
            \/ wpc[w] = "new" /\ o \in {"store", "remove"} /\ k = item[it[w]].key
            \/ wpc[w] = "using" /\ o \in {"unlink", "remove"} /\ k = item[it[w]].key
         /\ item_locks[k] = None
         /\ item_locks' = [item_locks EXCEPT ![k] = w]
         /\ op' = [op EXCEPT ![w] = [do |-> o, key |-> k]]
  BY DEF item_lock
<1>2. /\ wpc' = [wpc EXCEPT ![w] = "locked"]
      /\ UNCHANGED <<slab_list, slots, memVars, moverVars, item, assoc, it, victim, wkey, wcls>>
  BY DEF item_lock
<1>3. /\ [do |-> o, key |-> k] \in Ops
      /\ [do |-> o, key |-> k].do = o /\ [do |-> o, key |-> k].key = k
  BY DEF Ops
<1>4. PICK n, x, y, j, c : /\ n = [do |-> o, key |-> k] /\ n \in Ops /\ n.do = o /\ n.key = k
                           /\ x = it[w] /\ y = victim[w] /\ j = wkey[w] /\ c = wcls[w]
  BY <1>3
<1>5. Work(w, "locked", n, x, y, j, c) /\ WorkArgs("locked", n, x, y, j, c)
  BY <1>1, <1>2, <1>4, Same DEF Work, WorkArgs
<1>6. Worked(w, "locked", n, x, y, j, c) /\ WorkTyped
  BY <1>5, WorkValues
<1>7. /\ item_locks' \in [Keys -> Workers \cup {Mover, None}] /\ item_locks'[k] = w
      /\ \A i \in Keys : i # k => item_locks'[i] = item_locks[i]
  BY <1>1, TypeNow
<1>8. TypeOK'
  BY <1>2, <1>6, <1>7, TypeNow, WorkTypes
<1>9. WorkerOK(w)'
  <2>1. WorkerOK(w)
    OBVIOUS
  <2>2. /\ wpc'[w] = "locked" /\ op'[w].do = o /\ op'[w].key = k /\ it'[w] = it[w]
        /\ victim'[w] = victim[w]
    BY <1>4, <1>6 DEF Worked
  <2>3. CASE wpc[w] = "idle" /\ o = "get"
    BY <1>2, <1>7, <2>1, <2>2, <2>3 DEF WorkerOK, HasNew
  <2>4. CASE wpc[w] = "new" /\ o \in {"store", "remove"} /\ k = item[it[w]].key
    BY <1>2, <1>7, <2>1, <2>2, <2>4 DEF WorkerOK, HasNew, IsLinked
  <2>5. CASE wpc[w] = "using" /\ o \in {"unlink", "remove"} /\ k = item[it[w]].key
    BY <1>2, <1>7, <2>1, <2>2, <2>5 DEF WorkerOK, HasNew
  <2> QED BY <1>1, <2>3, <2>4, <2>5
<1>10. wpc[w] # "free"
  BY <1>1
<1>11. \A i \in Keys : item_locks[i] \in (Workers \ {w}) \cup {Mover} =>
                         item_locks'[i] = item_locks[i]
  BY <1>1, <1>7, Constants
<1>12. PagesOwnedOnce'
  BY <1>2, SamePages
<1>13. UNCHANGED <<slab_list, slots, moverVars, item, assoc, it, victim>>
  BY <1>2
<1> QED BY <1>6, <1>8, <1>9, <1>10, <1>11, <1>12, <1>13, QuietWorker DEF Worked

\* One item changes, and stays an item.
LEMMA OneItem ==
    ASSUME IInv, NEW x, Plain(x), item[x].refcount > 0, Holding => x # Pos,
           NEW h \in HeaderType, SLABBED \notin h.it_flags,
           h.slabs_clsid = item[x].slabs_clsid, h.key = item[x].key,
           item' = [item EXCEPT ![x] = h]
    PROVE  /\ item' \in [Chunks -> HeaderType] /\ item'[x] = h
           /\ \A y \in Chunks : y # x => item'[y] = item[y]
           /\ \A y \in Chunks : Touched(y)
<1>1. x \in Chunks /\ item \in [Chunks -> HeaderType]
  BY Typed DEF Plain
<1>2. /\ item' \in [Chunks -> HeaderType] /\ item'[x] = h
      /\ \A y \in Chunks : y # x => item'[y] = item[y]
  BY <1>1
<1>3. \A y \in Chunks : Touched(y)
  BY <1>2 DEF Touched, Used
<1> QED BY <1>2, <1>3

\* do_item_unlink of the item that the hash table has for k.
Unlinking(k, x) ==
    /\ x = assoc[k] /\ x # None /\ item_locks[k] # Mover
    /\ item' = [item EXCEPT ![x] = Unlinked(item[x])] /\ assoc' = [assoc EXCEPT ![k] = None]
    /\ UNCHANGED <<it, moverVars>>
TableRight ==
    /\ \A j \in Keys : assoc'[j] # None =>
         \E y \in Chunks : assoc'[j] = y /\ Plain(y) /\ item[y].key = j /\ IsLinked(y)'
    /\ \A y \in Chunks : Plain(y) /\ IsLinked(y)' => assoc'[item[y].key] = y
UnlinkDone(k, x) ==
    /\ item' \in [Chunks -> HeaderType] /\ assoc' \in [Keys -> Chunks \cup {None}]
    /\ item'[x].refcount = item[x].refcount - 1 /\ ~(LINKED \in item'[x].it_flags)
    /\ item'[x].key = k
    /\ \A y \in Chunks : y # x => item'[y] = item[y]
    /\ \A y \in Chunks : Touched(y) /\ (Exact(y) => Exact(y)')
    /\ TableRight

LEMMA UnlinkOne ==
    ASSUME IInv, NEW k \in Keys, NEW x, Unlinking(k, x)
    PROVE  UnlinkDone(k, x)
<1> USE DEF Unlinking
<1>1. /\ Plain(x) /\ item[x].refcount > 0 /\ item[x].key = k /\ IsLinked(x)
      /\ ~MoverHolds(x) /\ (Holding => x # Pos)
  BY TableFacts
<1>2. x \in Chunks /\ item[x] \in HeaderType /\ item[x].refcount \in Nat
  BY <1>1, Typed DEF Plain
<1>3. PICK h \in HeaderType : /\ h = Unlinked(item[x]) /\ h.refcount = item[x].refcount - 1
                              /\ h.slabs_clsid = item[x].slabs_clsid /\ h.key = item[x].key
                              /\ h.it_flags = item[x].it_flags \ {LINKED}
  BY <1>1, <1>2, UnlinkedFields
<1>4. item' = [item EXCEPT ![x] = h]
  BY <1>3
<1>5. SLABBED \notin h.it_flags
  BY <1>1, <1>3 DEF Plain, Used
<1>6. /\ item' \in [Chunks -> HeaderType] /\ item'[x] = h
      /\ \A y \in Chunks : y # x => item'[y] = item[y]
      /\ \A y \in Chunks : Touched(y)
  BY <1>1, <1>3, <1>4, <1>5, OneItem
<1>7. ~IsLinked(x)' /\ item'[x].refcount = item[x].refcount - 1 /\ item'[x].key = k
  BY <1>1, <1>3, <1>6 DEF IsLinked
<1>8. /\ assoc' \in [Keys -> Chunks \cup {None}] /\ assoc'[k] = None
      /\ \A j \in Keys : j # k => assoc'[j] = assoc[j]
  BY TypeNow
<1>9. \A y \in Chunks : Exact(y) => Exact(y)'
  <2>1. \A y \in Chunks : Count(y)' = Count(y) /\ Count(y) \in Nat
    BY CountNow
  <2>2. \A y \in Chunks : MoverHolds(y)' <=> MoverHolds(y)
    BY DEF MoverHolds, Pos, moverVars
  <2>3. Exact(x) => Exact(x)'
    BY <1>1, <1>2, <1>7, <2>1, <2>2 DEF Exact, BIT
  <2>4. \A y \in Chunks : y # x => (Exact(y) => Exact(y)')
    BY <1>6, <2>1, <2>2 DEF Exact, IsLinked, BIT
  <2> QED BY <2>3, <2>4
<1>10. \A y \in Chunks : IsLinked(y)' => y # x /\ IsLinked(y)
  BY <1>6, <1>7 DEF IsLinked
<1>11. \A j \in Keys : assoc'[j] # None =>
         \E y \in Chunks : assoc'[j] = y /\ Plain(y) /\ item[y].key = j /\ IsLinked(y)'
  <2> SUFFICES ASSUME NEW j \in Keys, assoc'[j] # None
               PROVE  \E y \in Chunks : /\ assoc'[j] = y /\ Plain(y) /\ item[y].key = j
                                        /\ IsLinked(y)'
    OBVIOUS
  <2>1. j # k /\ assoc'[j] = assoc[j]
    BY <1>8
  <2>2. PICK y \in Chunks : y = assoc[j] /\ Plain(y) /\ item[y].key = j /\ IsLinked(y)
    BY <2>1, TableFacts DEF Plain
  <2>3. y # x
    BY <1>1, <2>1, <2>2
  <2> QED BY <1>6, <2>1, <2>2, <2>3 DEF IsLinked
<1>12. \A y \in Chunks : Plain(y) /\ IsLinked(y)' => assoc'[item[y].key] = y
  <2> SUFFICES ASSUME NEW y \in Chunks, Plain(y), IsLinked(y)' PROVE assoc'[item[y].key] = y
    OBVIOUS
  <2>1. assoc[item[y].key] = y /\ item[y].key \in Keys /\ y # x
    BY <1>10 DEF NoDanglingItem, Plain, IsLinked
  <2> QED BY <1>8, <2>1
<1> QED BY <1>6, <1>7, <1>8, <1>9, <1>11, <1>12 DEF UnlinkDone, TableRight, IsLinked

\* A step of worker w on items, in the terms that its steps establish.
LEMMA WorkerStep ==
    ASSUME IInv, NEW w \in Workers, TypeOK',
           UNCHANGED <<slab_list, slots, memVars, moverVars>>,
           \A x \in Chunks : Touched(x) /\ (Exact(x) => Exact(x)'),
           \A v \in Workers : v # w =>
             /\ wpc'[v] = wpc[v] /\ op'[v] = op[v] /\ wkey'[v] = wkey[v] /\ wcls'[v] = wcls[v]
             /\ it'[v] = it[v] /\ victim'[v] = victim[v],
           \A v \in Workers : v # w /\ HasNew(v) => it'[w] # it[v] /\ item'[it[v]] = item[it[v]],
           \A k \in Keys : item_locks[k] \in (Workers \ {w}) \cup {Mover} =>
                               item_locks'[k] = item_locks[k],
           Holding => it'[w] # Pos,
           \A x \in Chunks : item'[x] # item[x] =>
             item'[x].refcount > 0 \/ (wpc'[w] = "free" /\ victim'[w] = x),
           wpc[w] # "free",
           \A x \in Chunks : x = it'[w] \/ x = victim'[w] => Plain(x),
           \A k \in Keys : assoc'[k] # None =>
             \E x \in Chunks : assoc'[k] = x /\ Plain(x) /\ item[x].key = k /\ IsLinked(x)',
           \A x \in Chunks : Plain(x) /\ IsLinked(x)' => assoc'[item[x].key] = x,
           WorkerOK(w)'
    PROVE  IInv'
<1>1. \A x \in Chunks : Touched(x)
  OBVIOUS
<1>2. \A v \in Workers : v # w =>
        (HasNew(v) => it'[w] # it[v] /\ (IsLinked(it[v]) <=> LINKED \in item'[it[v]].it_flags))
  BY DEF IsLinked
<1>3. \A k \in Keys : item_locks[k] \in Workers \ {w} => item_locks'[k] = item_locks[k]
  OBVIOUS
<1>4. \A v \in Workers : v # w => WorkerOK(v)'
  BY <1>1, <1>2, <1>3, Others
<1>5. \A v \in Workers : WorkerOK(v)'
  BY <1>4
<1>6. Holding => item_locks'[item[Pos].key] = Mover /\ \A v \in Workers : it'[v] # Pos
  <2>1. Holding => item_locks'[item[Pos].key] = Mover
    BY MoversLock
  <2>2. Holding => \A v \in Workers : it'[v] # Pos
    BY DEF MoverOK
  <2> QED BY <2>1, <2>2
<1>7. \A x \in Chunks : Freeing(x) => Freeing(x)'
  BY DEF Freeing
<1>8. \A x \in Chunks : item'[x] # item[x] => item'[x].refcount > 0 \/ Freeing(x)'
  BY DEF Freeing
<1>9. \A v \in Workers : \A x \in {it'[v], victim'[v]} \ {None} : Plain(x)
  <2>1. \A v \in Workers : v # w => \A x \in {it'[v], victim'[v]} \ {None} : Plain(x)
    BY HeldFacts, VictimFacts
  <2>2. \A x \in {it'[w], victim'[w]} \ {None} : Plain(x)
    BY TypeThen, Typed DEF TypeOK
  <2> QED BY <2>1, <2>2
<1>10. PagesOwnedOnce' /\ UNCHANGED <<slab_list, slots, moverVars>>
  BY SamePages
<1> QED BY <1>1, <1>5, <1>6, <1>7, <1>8, <1>9, <1>10, ItemStep

LEMMA Step_lru_pull_tail ==
    ASSUME IInv, NEW w \in Workers, lru_pull_tail(w)
    PROVE  IInv'
<1>1. PICK k, x :
        /\ k \in Keys /\ x = assoc[k] /\ x # None /\ item_locks[k] = None
        /\ item' = [item EXCEPT ![x] = Unlinked(@)]
        /\ assoc' = [assoc EXCEPT ![k] = None]
        /\ IF item[x].refcount = 1
           THEN /\ wpc' = [wpc EXCEPT ![w] = "free"]
                /\ victim' = [victim EXCEPT ![w] = x]
                /\ op' = [op EXCEPT ![w] = [do |-> "evict", key |-> k]]
                /\ item_locks' = [item_locks EXCEPT ![k] = w]
           ELSE /\ wpc' = [wpc EXCEPT ![w] = "alloc"]
                /\ UNCHANGED <<victim, op, item_locks>>
  BY DEF lru_pull_tail
<1> k \in Keys
  BY <1>1
<1>2. /\ wpc[w] = "pull"
      /\ UNCHANGED <<slab_list, slots, memVars, moverVars, wkey, wcls, it>>
  BY DEF lru_pull_tail
<1>3. /\ Plain(x) /\ item[x].refcount \in Nat /\ item[x].refcount > 0 /\ item[x].key = k
      /\ IsLinked(x) /\ x \in Chunks
  BY <1>1, TableFacts DEF Plain
<1>4. /\ item' \in [Chunks -> HeaderType] /\ assoc' \in [Keys -> Chunks \cup {None}]
      /\ item'[x].refcount = item[x].refcount - 1 /\ ~IsLinked(x)'
      /\ item'[x].key = k
      /\ \A y \in Chunks : y # x => item'[y] = item[y]
      /\ \A y \in Chunks : Touched(y) /\ (Exact(y) => Exact(y)')
      /\ \A j \in Keys : assoc'[j] # None =>
           \E y \in Chunks : assoc'[j] = y /\ Plain(y) /\ item[y].key = j /\ IsLinked(y)'
      /\ \A y \in Chunks : Plain(y) /\ IsLinked(y)' => assoc'[item[y].key] = y
  <2>1. item_locks[k] # Mover
    BY <1>1, Constants
  <2>2. Unlinking(k, x)
    BY <1>1, <1>2, <2>1 DEF Unlinking
  <2>3. UnlinkDone(k, x)
    BY <2>2, UnlinkOne
  <2> QED BY <2>3 DEF UnlinkDone, TableRight, IsLinked
<1>5. WorkerOK(w) /\ it[w] = None /\ wkey[w] \in Keys /\ wcls[w] \in Classes /\ victim[w] = None
      /\ op[w].do # "evict"
  BY <1>2 DEF WorkerOK
<1>6. \A v \in Workers : HasNew(v) => /\ it[v] # None /\ item'[it[v]] = item[it[v]]
  <2> SUFFICES ASSUME NEW v \in Workers, HasNew(v)
               PROVE  it[v] # None /\ item'[it[v]] = item[it[v]]
    OBVIOUS
  <2>1. it[v] # None /\ ~IsLinked(it[v])
    BY DEF WorkerOK, HasNew
  <2>2. it[v] \in Chunks /\ it[v] # x
    BY <1>3, <2>1, HeldFacts DEF Plain
  <2> QED BY <1>4, <2>1, <2>2
<1>7. PICK c, i, j, o : /\ c = wcls[w] /\ i = it[w] /\ j = wkey[w] /\ o = op[w]
  OBVIOUS
<1>8. \A y \in Chunks : item'[y] # item[y] => y = x
  BY <1>4
<1>9. it'[w] = None /\ None # x /\ (Holding => Pos # None)
  BY <1>1, <1>2, <1>5, PosFacts, Constants DEF Moving
<1>10. CASE item[x].refcount = 1
  <2>1. /\ wpc' = [wpc EXCEPT ![w] = "free"]
        /\ victim' = [victim EXCEPT ![w] = x]
        /\ op' = [op EXCEPT ![w] = [do |-> "evict", key |-> k]]
        /\ item_locks' = [item_locks EXCEPT ![k] = w]
    BY <1>1, <1>10
  <2>2. /\ [do |-> "evict", key |-> k] \in Ops
        /\ [do |-> "evict", key |-> k].do = "evict" /\ [do |-> "evict", key |-> k].key = k
    BY DEF Ops
  <2>3. PICK n : n = [do |-> "evict", key |-> k] /\ n \in Ops /\ n.do = "evict" /\ n.key = k
    BY <2>2
  <2>4. Work(w, "free", n, i, x, j, c) /\ WorkArgs("free", n, i, x, j, c)
    BY <1>2, <1>3, <1>7, <2>1, <2>3, Same DEF Work, WorkArgs
  <2>5. Worked(w, "free", n, i, x, j, c) /\ WorkTyped
    BY <2>4, WorkValues
  <2>6. /\ item_locks' \in [Keys -> Workers \cup {Mover, None}] /\ item_locks'[k] = w
        /\ \A l \in Keys : l # k => item_locks'[l] = item_locks[l]
    BY <2>1, TypeNow
  <2>7. TypeOK'
    BY <1>2, <1>4, <2>5, <2>6, TypeNow, WorkTypes
  <2>8. WorkerOK(w)'
    <3>1. item'[x].refcount = 0
      BY <1>4, <1>10
    <3>2. /\ wpc'[w] = "free" /\ victim'[w] = x /\ op'[w] = n /\ it'[w] = None
          /\ wkey'[w] \in Keys /\ wcls'[w] \in Classes
      BY <1>5, <1>7, <2>5 DEF Worked
    <3> QED BY <1>1, <1>4, <2>3, <2>6, <3>1, <3>2 DEF WorkerOK, HasNew, IsLinked
  <2>9. \A l \in Keys : item_locks[l] \in (Workers \ {w}) \cup {Mover} =>
                          item_locks'[l] = item_locks[l]
    BY <1>1, <2>6, Constants
  <2>10. \A y \in Chunks : y = it'[w] \/ y = victim'[w] => Plain(y)
    BY <1>3, <1>9, <2>5, Constants DEF Worked
  <2>11. \A v \in Workers : v # w =>
             /\ wpc'[v] = wpc[v] /\ op'[v] = op[v] /\ wkey'[v] = wkey[v] /\ wcls'[v] = wcls[v]
             /\ it'[v] = it[v] /\ victim'[v] = victim[v]
    BY <2>5 DEF Worked
  <2>12. \A y \in Chunks : item'[y] # item[y] =>
             item'[y].refcount > 0 \/ (wpc'[w] = "free" /\ victim'[w] = y)
    BY <1>8, <2>5 DEF Worked
  <2>13. wpc[w] # "free"
    BY <1>2
  <2> QED BY <1>2, <1>4, <1>6, <1>9, <2>7, <2>8, <2>9, <2>10, <2>11, <2>12, <2>13, WorkerStep
<1>11. CASE item[x].refcount # 1
  <2>1. wpc' = [wpc EXCEPT ![w] = "alloc"] /\ UNCHANGED <<victim, op, item_locks>>
    BY <1>1, <1>11
  <2>3. PICK y : y = victim[w]
    OBVIOUS
  <2>4. Work(w, "alloc", o, i, y, j, c) /\ WorkArgs("alloc", o, i, y, j, c)
    BY <1>2, <1>7, <2>1, <2>3, Same DEF Work, WorkArgs
  <2>5. Worked(w, "alloc", o, i, y, j, c) /\ WorkTyped
    BY <2>4, WorkValues
  <2>7. TypeOK'
    BY <1>2, <1>4, <2>1, <2>5, TypeNow, WorkTypes
  <2>8. WorkerOK(w)'
    <3>2. /\ wpc'[w] = "alloc" /\ victim'[w] = None /\ op'[w] = op[w] /\ it'[w] = None
          /\ wkey'[w] \in Keys /\ wcls'[w] \in Classes
      BY <1>5, <1>7, <2>3, <2>5 DEF Worked
    <3> QED BY <1>5, <3>2 DEF WorkerOK, HasNew
  <2>10. \A z \in Chunks : z = it'[w] \/ z = victim'[w] => Plain(z)
    BY <1>5, <1>9, <2>1, Constants
  <2>11. \A v \in Workers : v # w =>
             /\ wpc'[v] = wpc[v] /\ op'[v] = op[v] /\ wkey'[v] = wkey[v] /\ wcls'[v] = wcls[v]
             /\ it'[v] = it[v] /\ victim'[v] = victim[v]
    BY <2>5 DEF Worked
  <2>12. \A z \in Chunks : item'[z] # item[z] => item'[z].refcount > 0
    <3>1. item'[x].refcount > 0
      BY <1>3, <1>4, <1>11
    <3> QED BY <1>8, <3>1
  <2>13. wpc[w] # "free"
    BY <1>2
  <2>14. \A l \in Keys : item_locks'[l] = item_locks[l]
    BY <2>1
  <2> QED BY <1>2, <1>4, <1>6, <1>9, <2>7, <2>8, <2>10, <2>11, <2>12, <2>13, <2>14, WorkerStep
<1> QED BY <1>10, <1>11

\* A worker under an item lock.
LEMMA Busy ==
    ASSUME IInv, NEW w \in Workers, wpc[w] = "locked"
    PROVE  /\ op[w].key \in Keys /\ item_locks[op[w].key] = w /\ victim[w] = None
           /\ op[w].do # "evict"
           /\ op[w].do = "get" => it[w] = None
           /\ op[w].do # "get" => /\ it[w] # None /\ item[it[w]].key = op[w].key
                                  /\ Plain(it[w]) /\ item[it[w]].refcount > 0
                                  /\ ~MoverHolds(it[w]) /\ (Holding => it[w] # Pos)
<1>1. WorkerOK(w)
  OBVIOUS
<1>2. op[w].do # "get" => it[w] # None
  BY <1>1 DEF WorkerOK
<1> QED BY <1>1, <1>2, HeldFacts DEF WorkerOK

\* The end of an operation: the lock is released, or x is freed first.
EndsWith(w, x, n, m) ==
    /\ ThenFree(w, x, n, m) /\ it' = [it EXCEPT ![w] = m]
    /\ UNCHANGED <<slab_list, slots, memVars, wkey, wcls, moverVars>>
    /\ m \in Chunks \cup {None} /\ (m # None => Plain(m)) /\ (Holding => m # Pos)
    /\ item' \in [Chunks -> HeaderType] /\ assoc' \in [Keys -> Chunks \cup {None}]
    /\ \A y \in Chunks : Touched(y) /\ (Exact(y) => Exact(y)')
    /\ \A v \in Workers : v # w /\ HasNew(v) => m # it[v] /\ item'[it[v]] = item[it[v]]
    /\ n = 0 => /\ x \in Chunks /\ Plain(x) /\ item'[x].refcount = 0
                /\ ~(LINKED \in item'[x].it_flags) /\ item'[x].key = op[w].key
    /\ \A y \in Chunks : item'[y] # item[y] => item'[y].refcount > 0 \/ (y = x /\ n = 0)
    /\ TableRight

LEMMA EndOp ==
    ASSUME IInv, NEW w \in Workers, wpc[w] = "locked", NEW x, NEW n, NEW m, EndsWith(w, x, n, m)
    PROVE  IInv'
<1>1. /\ op[w].key \in Keys /\ item_locks[op[w].key] = w /\ victim[w] = None
      /\ op[w].do # "evict"
  BY Busy
<1>2. /\ it' = [it EXCEPT ![w] = m] /\ m \in Chunks \cup {None} /\ (m # None => Plain(m))
      /\ UNCHANGED <<slab_list, slots, memVars, moverVars>> /\ UNCHANGED <<wkey, wcls>>
      /\ item' \in [Chunks -> HeaderType] /\ assoc' \in [Keys -> Chunks \cup {None}]
      /\ TableRight /\ (Holding => m # Pos)
  BY DEF EndsWith
<1>3. PICK k, j, c, o, z : /\ k = op[w].key /\ j = wkey[w] /\ c = wcls[w] /\ o = op[w]
                           /\ z = victim[w]
  OBVIOUS
<1>4. /\ \A y \in Chunks : Touched(y) /\ (Exact(y) => Exact(y)')
      /\ \A v \in Workers : v # w /\ HasNew(v) => m # it[v] /\ item'[it[v]] = item[it[v]]
      /\ \A y \in Chunks : item'[y] # item[y] => item'[y].refcount > 0 \/ (y = x /\ n = 0)
  BY DEF EndsWith
<1>5. wpc[w] # "free"
  OBVIOUS
<1>6. CASE n = 0 /\ UNCHANGED <<item_locks, op>> /\ wpc' = [wpc EXCEPT ![w] = "free"]
           /\ victim' = [victim EXCEPT ![w] = x]
  <2>1. /\ x \in Chunks /\ Plain(x) /\ item'[x].refcount = 0
        /\ ~(LINKED \in item'[x].it_flags) /\ item'[x].key = op[w].key
    BY <1>6 DEF EndsWith
  <2>2. Work(w, "free", o, m, x, j, c) /\ WorkArgs("free", o, m, x, j, c)
    BY <1>2, <1>3, <1>6, <2>1, Same DEF Work, WorkArgs
  <2>3. Worked(w, "free", o, m, x, j, c) /\ WorkTyped
    BY <2>2, WorkValues
  <2>4. TypeOK'
    BY <1>2, <1>6, <2>3, TypeNow, WorkTypes
  <2>5. /\ wpc'[w] = "free" /\ victim'[w] = x /\ op'[w] = op[w] /\ it'[w] = m
        /\ \A v \in Workers : v # w =>
             /\ wpc'[v] = wpc[v] /\ op'[v] = op[v] /\ wkey'[v] = wkey[v] /\ wcls'[v] = wcls[v]
             /\ it'[v] = it[v] /\ victim'[v] = victim[v]
    BY <1>3, <2>3 DEF Worked
  <2>6. WorkerOK(w)'
    BY <1>1, <1>6, <2>1, <2>5, Constants DEF WorkerOK, HasNew, IsLinked
  <2>7. \A y \in Chunks : y = it'[w] \/ y = victim'[w] => Plain(y)
    BY <1>2, <2>1, <2>5, Constants
  <2>8. \A v \in Workers : v # w /\ HasNew(v) => it'[w] # it[v] /\ item'[it[v]] = item[it[v]]
    BY <1>4, <2>5
  <2>9. \A y \in Chunks : item'[y] # item[y] =>
             item'[y].refcount > 0 \/ (wpc'[w] = "free" /\ victim'[w] = y)
    BY <1>4, <2>5
  <2>10. \A l \in Keys : item_locks[l] \in (Workers \ {w}) \cup {Mover} =>
                          item_locks'[l] = item_locks[l]
    BY <1>6
  <2>11. Holding => it'[w] # Pos
    BY <1>2, <2>5
  <2> QED BY <1>2, <1>4, <1>5, <2>4, <2>5, <2>6, <2>7, <2>8, <2>9, <2>10, <2>11, WorkerStep
             DEF TableRight
<1>7. CASE n # 0 /\ item_unlock(w, m) /\ UNCHANGED victim
  <2>1. PICK p \in {"idle", "using"} : p = IF m = None THEN "idle" ELSE "using"
    OBVIOUS
  <2>2. /\ wpc' = [wpc EXCEPT ![w] = p] /\ op' = [op EXCEPT ![w] = NoOp]
        /\ item_locks' = [item_locks EXCEPT ![op[w].key] = None] /\ UNCHANGED victim
    BY <1>1, <1>7, <2>1 DEF item_unlock
  <2>3. Work(w, p, NoOp, m, z, j, c) /\ WorkArgs(p, NoOp, m, z, j, c)
    BY <1>2, <1>3, <2>1, <2>2, Same, NoOps DEF Work, WorkArgs
  <2>4. Worked(w, p, NoOp, m, z, j, c) /\ WorkTyped
    BY <2>3, WorkValues
  <2>5. /\ item_locks' \in [Keys -> Workers \cup {Mover, None}]
        /\ \A l \in Keys : l # op[w].key => item_locks'[l] = item_locks[l]
    BY <1>1, <2>2, TypeNow
  <2>6. TypeOK'
    BY <1>2, <2>4, <2>5, TypeNow, WorkTypes
  <2>7. /\ wpc'[w] = p /\ victim'[w] = None /\ op'[w] = NoOp /\ it'[w] = m
        /\ \A v \in Workers : v # w =>
             /\ wpc'[v] = wpc[v] /\ op'[v] = op[v] /\ wkey'[v] = wkey[v] /\ wcls'[v] = wcls[v]
             /\ it'[v] = it[v] /\ victim'[v] = victim[v]
    BY <1>1, <1>3, <2>4 DEF Worked
  <2>8. WorkerOK(w)'
    <3>1. op'[w].do = "none"
      BY <2>7, NoOps
    <3> QED BY <2>1, <2>7, <3>1 DEF WorkerOK, HasNew
  <2>9. \A y \in Chunks : y = it'[w] \/ y = victim'[w] => Plain(y)
    BY <1>2, <2>7, Constants
  <2>10. \A v \in Workers : v # w /\ HasNew(v) => it'[w] # it[v] /\ item'[it[v]] = item[it[v]]
    BY <1>4, <2>7
  <2>11. \A y \in Chunks : item'[y] # item[y] =>
             item'[y].refcount > 0 \/ (wpc'[w] = "free" /\ victim'[w] = y)
    BY <1>4, <1>7
  <2>12. \A l \in Keys : item_locks[l] \in (Workers \ {w}) \cup {Mover} =>
                          item_locks'[l] = item_locks[l]
    BY <1>1, <2>5, Constants
  <2>13. Holding => it'[w] # Pos
    BY <1>2, <2>7
  <2> QED BY <1>2, <1>4, <1>5, <2>6, <2>7, <2>8, <2>9, <2>10, <2>11, <2>12, <2>13, WorkerStep
             DEF TableRight
<1> QED BY <1>6, <1>7 DEF EndsWith, ThenFree

LEMMA NewItems ==
    ASSUME IInv, NEW v \in Workers, HasNew(v)
    PROVE  /\ it[v] \in Chunks /\ ~IsLinked(it[v])
           /\ \A u \in Workers : it[u] = it[v] => u = v
<1>1. it[v] # None /\ ~IsLinked(it[v]) /\ \A u \in Workers : it[u] = it[v] => u = v
  BY DEF WorkerOK, HasNew
<1> QED BY <1>1, HeldFacts DEF Plain

\* The hash table and the links are as they were.
LEMMA TableSame ==
    ASSUME IInv, assoc' = assoc,
           \A y \in Chunks : (LINKED \in item'[y].it_flags) <=> (LINKED \in item[y].it_flags)
    PROVE  TableRight /\ assoc' \in [Keys -> Chunks \cup {None}]
<1>1. \A y \in Chunks : IsLinked(y)' <=> IsLinked(y)
  BY DEF IsLinked
<1>2. \A j \in Keys : assoc'[j] # None =>
        \E y \in Chunks : assoc'[j] = y /\ Plain(y) /\ item[y].key = j /\ IsLinked(y)'
  BY <1>1, TableFacts DEF Plain
<1>3. \A y \in Chunks : Plain(y) /\ IsLinked(y)' => assoc'[item[y].key] = y
  BY <1>1 DEF NoDanglingItem, Plain, IsLinked
<1> QED BY <1>2, <1>3, TypeNow DEF TableRight

\* What a chunk's count depends on.
LEMMA SameExact ==
    ASSUME NEW y, UNCHANGED moverVars, Count(y)' = Count(y),
           item'[y].refcount = item[y].refcount,
           (LINKED \in item'[y].it_flags) <=> (LINKED \in item[y].it_flags)
    PROVE  Exact(y) => Exact(y)'
<1>1. MoverHolds(y)' <=> MoverHolds(y)
  BY DEF MoverHolds, Pos, moverVars
<1> QED BY <1>1 DEF Exact, IsLinked, BIT

LEMMA Step_do_item_get ==
    ASSUME IInv, NEW w \in Workers, do_item_get(w)
    PROVE  IInv'
<1>1. PICK k, x : k = op[w].key /\ x = assoc[k]
  OBVIOUS
<1>2. /\ wpc[w] = "locked" /\ op[w].do = "get"
      /\ UNCHANGED <<slab_list, slots, memVars, wkey, wcls, moverVars>>
      /\ \/ /\ x = None
            /\ item_unlock(w, None)
            /\ UNCHANGED <<item, assoc, it, victim>>
         \/ /\ x # None
            /\ item' = [item EXCEPT ![x].refcount = @ + 1, ![x].it_flags = @ \cup {FETCHED}]
            /\ it' = [it EXCEPT ![w] = x]
            /\ item_unlock(w, x)
            /\ UNCHANGED <<assoc, victim>>
         \/ /\ x # None
            /\ item' = [item EXCEPT ![x] = Unlinked(item[x])]
            /\ assoc' = [assoc EXCEPT ![k] = None]
            /\ ThenFree(w, x, item[x].refcount - 1, None)
            /\ UNCHANGED it
  BY <1>1 DEF do_item_get, Locked
<1>3. k \in Keys /\ item_locks[k] = w /\ it[w] = None /\ item_locks[k] # Mover
  BY <1>1, <1>2, Busy, Constants
<1>4. it = [it EXCEPT ![w] = None] /\ (Holding => Pos # None)
  BY <1>3, Same, PosFacts, Constants DEF Moving
<1>5. \A v \in Workers : HasNew(v) => None # it[v]
  BY NewItems, Constants
<1>6. CASE /\ x = None
           /\ item_unlock(w, None)
           /\ UNCHANGED <<item, assoc, it, victim>>
  <2>1. \A y \in Chunks : Touched(y) /\ (Exact(y) => Exact(y)')
    BY <1>2, <1>6, CountNow, SameExact DEF Touched
  <2>2. TableRight /\ assoc' \in [Keys -> Chunks \cup {None}]
    BY <1>6, TableSame
  <2>3. EndsWith(w, None, 1, None)
    BY <1>2, <1>4, <1>5, <1>6, <2>1, <2>2, TypeNow DEF EndsWith, ThenFree
  <2> QED BY <1>2, <2>3, EndOp
<1>7. ASSUME x # None
      PROVE  /\ Plain(x) /\ x \in Chunks /\ item[x] \in HeaderType /\ item[x].refcount \in Nat
             /\ item[x].refcount > 0 /\ item[x].key = k /\ IsLinked(x)
             /\ ~MoverHolds(x) /\ (Holding => x # Pos)
             /\ \A v \in Workers : HasNew(v) => it[v] \in Chunks /\ it[v] # x
  BY <1>1, <1>3, <1>7, TableFacts, NewItems, Typed DEF Plain
<1>8. CASE /\ x # None
           /\ item' = [item EXCEPT ![x].refcount = @ + 1, ![x].it_flags = @ \cup {FETCHED}]
           /\ it' = [it EXCEPT ![w] = x]
           /\ item_unlock(w, x)
           /\ UNCHANGED <<assoc, victim>>
  <2>1. PICK r \in Nat, f \in SUBSET {LINKED, SLABBED, FETCHED} :
          r = item[x].refcount + 1 /\ f = item[x].it_flags \cup {FETCHED}
    <3>1. item[x].refcount + 1 \in Nat
      BY <1>7, <1>8
    <3>2. item[x].it_flags \cup {FETCHED} \in SUBSET {LINKED, SLABBED, FETCHED}
      BY <1>7, <1>8, Fields
    <3> QED BY <3>1, <3>2
  <2>2. PICK g, h : g = item[x] /\ h = [g EXCEPT !.refcount = r, !.it_flags = f]
    OBVIOUS
  <2>3. /\ h \in HeaderType /\ h.refcount = r /\ h.it_flags = f /\ h.key = g.key
        /\ h.slabs_clsid = g.slabs_clsid
    <3>1. g \in HeaderType
      BY <1>7, <1>8, <2>2
    <3> QED BY ONLY <2>2, <3>1, r \in Nat, f \in SUBSET {LINKED, SLABBED, FETCHED} DEF HeaderType
  <2>4. item' = [item EXCEPT ![x] = h]
    BY <1>7, <1>8, <2>1, <2>2, TypeNow
  <2>5. SLABBED \notin f /\ LINKED \in f
    BY <1>7, <1>8, <2>1, Flags DEF Plain, Used, IsLinked
  <2>6. /\ item' \in [Chunks -> HeaderType] /\ item'[x] = h
        /\ \A y \in Chunks : y # x => item'[y] = item[y]
        /\ \A y \in Chunks : Touched(y)
    BY <1>7, <1>8, <2>2, <2>3, <2>4, <2>5, OneItem
  <2>7. \A y \in Chunks : (LINKED \in item'[y].it_flags) <=> (LINKED \in item[y].it_flags)
    BY <1>7, <1>8, <2>3, <2>5, <2>6 DEF IsLinked
  <2>8. \A y \in Chunks : Exact(y) => Exact(y)'
    <3>1. \A y \in Chunks : y # x => (Exact(y) => Exact(y)')
      <4>1. \A y \in Chunks : y # x => Count(y)' = Count(y)
        BY <1>3, <1>8, TypeNow, CountStep, Constants
      <4> QED BY <1>2, <2>6, <4>1, SameExact
    <3>2. Count(x)' = Count(x) + 1 /\ Count(x) \in Nat
      BY <1>3, <1>8, TypeNow, CountStep, CountNow
    <3>3. MoverHolds(x)' <=> MoverHolds(x)
      BY <1>2 DEF MoverHolds, Pos, moverVars
    <3>4. Exact(x)'
      BY <1>7, <1>8, <2>1, <2>3, <2>5, <2>6, <3>2, <3>3 DEF Exact, Plain, IsLinked, BIT
    <3> QED BY <3>1, <3>4
  <2>9. TableRight /\ assoc' \in [Keys -> Chunks \cup {None}]
    BY <1>8, <2>7, TableSame
  <2>10. \A y \in Chunks : item'[y] # item[y] => item'[y].refcount > 0
    BY <1>7, <1>8, <2>1, <2>3, <2>6
  <2>11. \A v \in Workers : v # w /\ HasNew(v) => x # it[v] /\ item'[it[v]] = item[it[v]]
    BY <1>7, <1>8, <2>6
  <2>12. ThenFree(w, None, 1, x)
    BY <1>8 DEF ThenFree
  <2>13. EndsWith(w, None, 1, x)
    BY <1>2, <1>7, <1>8, <2>6, <2>8, <2>9, <2>10, <2>11, <2>12 DEF EndsWith
  <2> QED BY <1>2, <2>13, EndOp
<1>9. CASE /\ x # None
           /\ item' = [item EXCEPT ![x] = Unlinked(item[x])]
           /\ assoc' = [assoc EXCEPT ![k] = None]
           /\ ThenFree(w, x, item[x].refcount - 1, None)
           /\ UNCHANGED it
  <2>1. Unlinking(k, x)
    BY <1>1, <1>2, <1>3, <1>9 DEF Unlinking
  <2>2. UnlinkDone(k, x)
    BY <1>3, <2>1, UnlinkOne
  <2>3. PICK n \in Nat : n = item[x].refcount - 1
    BY <1>7, <1>9
  <2>4. \A y \in Chunks : item'[y] # item[y] => item'[y].refcount > 0 \/ (y = x /\ n = 0)
    <3>1. \A y \in Chunks : item'[y] # item[y] => y = x
      BY <2>2 DEF UnlinkDone
    <3>2. item'[x].refcount = n
      BY <2>2, <2>3 DEF UnlinkDone
    <3> QED BY <3>1, <3>2
  <2>5. \A v \in Workers : v # w /\ HasNew(v) => None # it[v] /\ item'[it[v]] = item[it[v]]
    BY <1>5, <1>7, <1>9, <2>2 DEF UnlinkDone
  <2>6. ThenFree(w, x, n, None)
    BY <1>9, <2>3
  <2>7. EndsWith(w, x, n, None)
    BY <1>1, <1>2, <1>4, <1>7, <1>9, <2>2, <2>3, <2>4, <2>5, <2>6 DEF EndsWith, UnlinkDone
  <2> QED BY <1>2, <2>7, EndOp
<1> QED BY <1>2, <1>6, <1>8, <1>9

LEMMA Step_item_unlink ==
    ASSUME IInv, NEW w \in Workers, item_unlink(w)
    PROVE  IInv'
<1>1. PICK k, x : k = op[w].key /\ x = it[w]
  OBVIOUS
<1>2. /\ wpc[w] = "locked" /\ op[w].do = "unlink"
      /\ UNCHANGED <<slab_list, slots, memVars, wkey, wcls, moverVars>>
      /\ UNCHANGED <<it, victim>> /\ item_unlock(w, x)
  BY <1>1 DEF item_unlink, Locked
<1>3. /\ k \in Keys /\ item_locks[k] = w /\ item_locks[k] # Mover
      /\ x # None /\ x \in Chunks /\ item[x].key = k /\ Plain(x) /\ item[x].refcount > 0
      /\ ~MoverHolds(x) /\ (Holding => x # Pos) /\ item[x].refcount \in Nat
  BY <1>1, <1>2, Busy, Constants DEF Plain
<1>4. it' = [it EXCEPT ![w] = x]
  BY <1>1, <1>2, Same
<1>5. ThenFree(w, None, 1, x)
  BY <1>2 DEF ThenFree
<1>6. \A v \in Workers : v # w /\ HasNew(v) => x # it[v]
  BY <1>1, NewItems
<1>9. UNCHANGED <<slab_list, slots, memVars, wkey, wcls, moverVars>>
  BY <1>2
<1>10. x \in Chunks \cup {None} /\ Plain(x) /\ (Holding => x # Pos)
  BY <1>3
<1>7. CASE IsLinked(x)
  <2>1. /\ item' = [item EXCEPT ![x] = Unlinked(item[x])]
        /\ assoc' = [assoc EXCEPT ![k] = None]
    BY <1>1, <1>7 DEF item_unlink, IsLinked
  <2>2. assoc[k] = x
    BY <1>3, <1>7 DEF Plain, NoDanglingItem, IsLinked
  <2>3. Unlinking(k, x)
    BY <1>2, <1>3, <2>1, <2>2 DEF Unlinking
  <2>4. UnlinkDone(k, x)
    BY <1>3, <2>3, UnlinkOne
  <2>5. item[x].refcount > 1
    <3>1. Count(x) \in Nat /\ Count(x) >= 1
      BY <1>1, CountNow
    <3> QED BY <1>3, <1>7, <3>1 DEF Plain, Exact, BIT
  <2>6. \A y \in Chunks : item'[y] # item[y] => item'[y].refcount > 0
    <3>1. \A y \in Chunks : item'[y] # item[y] => y = x
      BY <2>4 DEF UnlinkDone
    <3>2. item'[x].refcount > 0
      BY <1>3, <2>4, <2>5 DEF UnlinkDone
    <3> QED BY <3>1, <3>2
  <2>7. \A v \in Workers : v # w /\ HasNew(v) => x # it[v] /\ item'[it[v]] = item[it[v]]
    BY <1>6, <2>4, NewItems DEF UnlinkDone
  <2>8. EndsWith(w, None, 1, x)
    BY <1>4, <1>5, <1>9, <1>10, <2>4, <2>6, <2>7 DEF EndsWith, UnlinkDone
  <2> QED BY <1>2, <2>8, EndOp
<1>8. CASE ~IsLinked(x)
  <2>1. UNCHANGED <<item, assoc>>
    BY <1>1, <1>8 DEF item_unlink, IsLinked
  <2>2. \A y \in Chunks : Touched(y) /\ (Exact(y) => Exact(y)')
    BY <1>2, <2>1, CountNow, SameExact DEF Touched
  <2>3. TableRight /\ assoc' \in [Keys -> Chunks \cup {None}]
    BY <2>1, TableSame
  <2>4. EndsWith(w, None, 1, x)
    <3>1. item' \in [Chunks -> HeaderType] /\ \A y \in Chunks : item'[y] = item[y]
      BY <2>1, TypeNow
    <3>2. \A v \in Workers : v # w /\ HasNew(v) => x # it[v] /\ item'[it[v]] = item[it[v]]
      BY <1>6, <2>1
    <3> QED BY <1>4, <1>5, <1>9, <1>10, <2>2, <2>3, <3>1, <3>2 DEF EndsWith
  <2> QED BY <1>2, <2>4, EndOp
<1> QED BY <1>7, <1>8

LEMMA Step_item_remove ==
    ASSUME IInv, NEW w \in Workers, item_remove(w)
    PROVE  IInv'
<1>1. PICK k, x : k = op[w].key /\ x = it[w]
  OBVIOUS
<1>2. /\ wpc[w] = "locked" /\ op[w].do = "remove"
      /\ UNCHANGED <<slab_list, slots, memVars, wkey, wcls, moverVars>>
      /\ UNCHANGED assoc /\ it' = [it EXCEPT ![w] = None]
      /\ item' = [item EXCEPT ![x].refcount = @ - 1]
      /\ ThenFree(w, x, item[x].refcount - 1, None)
  BY <1>1 DEF item_remove, Locked
<1>3. /\ k \in Keys /\ x # None /\ x \in Chunks /\ item[x].key = k /\ Plain(x)
      /\ item[x].refcount > 0 /\ ~MoverHolds(x) /\ (Holding => x # Pos)
      /\ item[x].refcount \in Nat /\ item[x] \in HeaderType
  BY <1>1, <1>2, Busy, Constants, Typed DEF Plain
<1>4. PICK n \in Nat : n = item[x].refcount - 1
  BY <1>3
<1>5. PICK g, h : g = item[x] /\ h = [g EXCEPT !.refcount = n]
  OBVIOUS
<1>6. /\ h \in HeaderType /\ h.refcount = n /\ h.it_flags = g.it_flags /\ h.key = g.key
      /\ h.slabs_clsid = g.slabs_clsid
  BY <1>3, <1>5, CountedFields
<1>7. item' = [item EXCEPT ![x] = h]
  BY <1>2, <1>3, <1>4, <1>5, TypeNow
<1>8. SLABBED \notin h.it_flags
  BY <1>3, <1>5, <1>6 DEF Plain, Used
<1>9. /\ item' \in [Chunks -> HeaderType] /\ item'[x] = h
      /\ \A y \in Chunks : y # x => item'[y] = item[y]
      /\ \A y \in Chunks : Touched(y)
  BY <1>3, <1>5, <1>6, <1>7, <1>8, OneItem
<1>10. \A y \in Chunks : (LINKED \in item'[y].it_flags) <=> (LINKED \in item[y].it_flags)
  BY <1>5, <1>6, <1>9
<1>11. Count(x)' = Count(x) - 1 /\ Count(x) \in Nat /\ Count(x) >= 1
  <2>1. it[w] = x /\ None # x /\ it \in [Workers -> Chunks \cup {None}]
    BY <1>1, <1>3, TypeNow
  <2>2. Count(x)' = Count(x) - 1
    BY <1>2, <2>1, CountStep
  <2> QED BY <2>1, <2>2, CountNow
<1>12. \A y \in Chunks : Exact(y) => Exact(y)'
  <2>1. \A y \in Chunks : y # x => (Exact(y) => Exact(y)')
    <3>1. \A y \in Chunks : y # x => Count(y)' = Count(y)
      BY <1>1, <1>2, TypeNow, CountStep, Constants
    <3> QED BY <1>2, <1>9, <3>1, SameExact
  <2>2. MoverHolds(x)' <=> MoverHolds(x)
    BY <1>2 DEF MoverHolds, Pos, moverVars
  <2>3. Exact(x)'
    BY <1>3, <1>4, <1>5, <1>6, <1>9, <1>11, <2>2 DEF Exact, Plain, IsLinked, BIT
  <2> QED BY <2>1, <2>3
<1>13. TableRight /\ assoc' \in [Keys -> Chunks \cup {None}]
  BY <1>2, <1>10, TableSame
<1>14. \A y \in Chunks : item'[y] # item[y] => item'[y].refcount > 0 \/ (y = x /\ n = 0)
  BY <1>6, <1>9
<1>15. \A v \in Workers : v # w /\ HasNew(v) => None # it[v] /\ item'[it[v]] = item[it[v]]
  BY <1>1, <1>9, NewItems, Constants
<1>16. ThenFree(w, x, n, None)
  BY <1>2, <1>4
<1>17. n = 0 => ~(LINKED \in item'[x].it_flags) /\ item'[x].key = op[w].key
  BY <1>1, <1>3, <1>4, <1>5, <1>6, <1>9, <1>11 DEF Plain, Exact, IsLinked, BIT
<1>18. Holding => None # Pos
  BY PosFacts, Constants DEF Moving
<1>19. EndsWith(w, x, n, None)
  BY <1>2, <1>3, <1>6, <1>9, <1>12, <1>13, <1>14, <1>15, <1>16, <1>17, <1>18 DEF EndsWith
<1> QED BY <1>2, <1>19, EndOp

LEMMA Step_store_item ==
    ASSUME IInv, NEW w \in Workers, store_item(w)
    PROVE  IInv'
<1>1. PICK k, x, old : k = op[w].key /\ x = it[w] /\ old = assoc[k]
  OBVIOUS
<1>2. /\ wpc[w] = "locked" /\ op[w].do = "store"
      /\ item' = [y \in Chunks |-> CASE y = x -> Linked(item[y])
                                     [] y = old -> Unlinked(item[y])
                                     [] OTHER -> item[y]]
      /\ assoc' = [assoc EXCEPT ![k] = x]
      /\ ThenFree(w, old, IF old = None THEN 1 ELSE item[old].refcount - 1, x)
  BY <1>1 DEF store_item, Locked
<1>3. UNCHANGED <<slab_list, slots, memVars, wkey, wcls, moverVars>> /\ UNCHANGED it
  BY DEF store_item
<1>4. /\ k \in Keys /\ item_locks[k] = w /\ item_locks[k] # Mover
      /\ x # None /\ x \in Chunks /\ item[x].key = k /\ Plain(x) /\ item[x].refcount > 0
      /\ ~MoverHolds(x) /\ (Holding => x # Pos) /\ item[x].refcount \in Nat
      /\ item[x] \in HeaderType
  BY <1>1, <1>2, Busy, Constants, Typed DEF Plain
<1>5. HasNew(w) /\ ~IsLinked(x)
  BY <1>1, <1>2, NewItems DEF HasNew
<1>6. ASSUME old # None
      PROVE  /\ Plain(old) /\ old \in Chunks /\ item[old] \in HeaderType
             /\ item[old].refcount \in Nat /\ item[old].refcount > 0 /\ item[old].key = k
             /\ IsLinked(old) /\ ~MoverHolds(old) /\ (Holding => old # Pos) /\ old # x
  BY <1>1, <1>4, <1>5, <1>6, TableFacts, Typed DEF Plain
<1>7. PICK r \in Nat : r = IF old = None THEN 1 ELSE item[old].refcount - 1
  <2>1. old # None => item[old].refcount - 1 \in Nat
    BY <1>6
  <2> QED BY <2>1
<1>8. \A y \in Chunks : /\ y = x => item'[y] = Linked(item[y])
                        /\ y = old => item'[y] = Unlinked(item[y])
                        /\ y # x /\ y # old => item'[y] = item[y]
  <2>1. x # old
    BY <1>4, <1>6
  <2> QED BY <1>2, <2>1
<1>9. /\ item'[x] \in HeaderType /\ item'[x].refcount = item[x].refcount + 1
      /\ item'[x].slabs_clsid = item[x].slabs_clsid /\ item'[x].key = k
      /\ item'[x].it_flags = item[x].it_flags \cup {LINKED}
  BY <1>4, <1>8, LinkedFields
<1>10. old # None => /\ item'[old] \in HeaderType /\ item'[old].refcount = r
                     /\ item'[old].slabs_clsid = item[old].slabs_clsid /\ item'[old].key = k
                     /\ item'[old].it_flags = item[old].it_flags \ {LINKED}
  <2> SUFFICES ASSUME old # None
               PROVE  /\ item'[old] \in HeaderType /\ item'[old].refcount = r
                      /\ item'[old].slabs_clsid = item[old].slabs_clsid /\ item'[old].key = k
                      /\ item'[old].it_flags = item[old].it_flags \ {LINKED}
    OBVIOUS
  <2>1. item'[old] = Unlinked(item[old]) /\ item[old] \in HeaderType /\ item[old].refcount # 0
    BY <1>6, <1>8
  <2> QED BY <1>6, <1>7, <2>1, UnlinkedFields
<1>11. item' \in [Chunks -> HeaderType]
  <2>1. \A y \in Chunks : item'[y] \in HeaderType
    BY <1>8, <1>9, <1>10, Typed, Constants
  <2>2. item' = [y \in Chunks |-> item'[y]]
    BY <1>2
  <2> QED BY <2>1, <2>2
<1>12. \A y \in Chunks : Touched(y)
  <2>1. Touched(x)
    BY <1>4, <1>9, Flags DEF Touched, Plain, Used
  <2>2. old # None => Touched(old)
    BY <1>6, <1>10 DEF Touched, Plain, Used
  <2> QED BY <1>8, <2>1, <2>2, Constants DEF Touched
<1>13. \A y \in Chunks : Exact(y) => Exact(y)'
  <2>1. \A y \in Chunks : Count(y)' = Count(y) /\ Count(y) \in Nat
    BY <1>3, CountNow
  <2>2. \A y \in Chunks : MoverHolds(y)' <=> MoverHolds(y)
    BY <1>3 DEF MoverHolds, Pos, moverVars
  <2>3. Exact(x)'
    BY <1>4, <1>5, <1>9, <2>1, <2>2 DEF Exact, Plain, IsLinked, BIT
  <2>4. old # None => Exact(old)'
    <3> SUFFICES ASSUME old # None PROVE Exact(old)'
      OBVIOUS
    <3>1. ~IsLinked(old)'
      BY <1>10 DEF IsLinked
    <3> QED BY <1>6, <1>7, <1>10, <2>1, <2>2, <3>1 DEF Exact, Plain, BIT
  <2>5. \A y \in Chunks : y # x /\ y # old => (Exact(y) => Exact(y)')
    BY <1>3, <1>8, <2>1, SameExact
  <2> QED BY <2>3, <2>4, <2>5, Constants
<1>14. /\ assoc' \in [Keys -> Chunks \cup {None}] /\ assoc'[k] = x
       /\ \A j \in Keys : j # k => assoc'[j] = assoc[j]
  BY <1>2, <1>4, TypeNow
<1>15. \A y \in Chunks : IsLinked(y)' <=> y = x \/ (y # old /\ IsLinked(y))
  <2>1. IsLinked(x)' /\ (old # None => ~IsLinked(old)')
    BY <1>9, <1>10 DEF IsLinked
  <2>2. \A y \in Chunks : y # x /\ y # old => (IsLinked(y)' <=> IsLinked(y))
    BY <1>8 DEF IsLinked
  <2>3. \A y \in Chunks : y = old => old # None /\ old # x
    BY <1>6, Constants
  <2> QED BY <2>1, <2>2, <2>3
<1>16. TableRight
  <2>1. ASSUME NEW j \in Keys, assoc'[j] # None
        PROVE  \E y \in Chunks : assoc'[j] = y /\ Plain(y) /\ item[y].key = j /\ IsLinked(y)'
    <3>1. CASE j = k
      BY <1>4, <1>14, <1>15, <3>1
    <3>2. CASE j # k
      <4>1. assoc[j] # None /\ assoc'[j] = assoc[j]
        BY <1>14, <2>1, <3>2
      <4>2. PICK y \in Chunks : y = assoc[j] /\ Plain(y) /\ item[y].key = j /\ IsLinked(y)
        BY <4>1, TableFacts DEF Plain
      <4>3. y # old
        BY <1>6, <3>2, <4>1, <4>2
      <4> QED BY <1>15, <4>1, <4>2, <4>3
    <3> QED BY <3>1, <3>2
  <2>2. ASSUME NEW y \in Chunks, Plain(y), IsLinked(y)'
        PROVE  assoc'[item[y].key] = y
    <3>1. CASE y = x
      BY <1>4, <1>14, <3>1
    <3>2. CASE y # x
      <4>1. IsLinked(y) /\ y # old
        BY <1>15, <2>2, <3>2
      <4>2. assoc[item[y].key] = y /\ item[y].key \in Keys
        BY <2>2, <4>1 DEF NoDanglingItem, Plain, IsLinked
      <4>3. item[y].key # k
        BY <1>1, <4>1, <4>2
      <4> QED BY <1>14, <4>2, <4>3
    <3> QED BY <3>1, <3>2
  <2> QED BY <2>1, <2>2 DEF TableRight
<1>17. \A y \in Chunks : item'[y] # item[y] => item'[y].refcount > 0 \/ (y = old /\ r = 0)
  <2>1. item'[x].refcount > 0
    BY <1>4, <1>9
  <2>2. old # None => item'[old].refcount > 0 \/ r = 0
    BY <1>10
  <2> QED BY <1>8, <2>1, <2>2, Constants
<1>18. \A v \in Workers : v # w /\ HasNew(v) => x # it[v] /\ item'[it[v]] = item[it[v]]
  <2> SUFFICES ASSUME NEW v \in Workers, v # w, HasNew(v)
               PROVE  x # it[v] /\ item'[it[v]] = item[it[v]]
    OBVIOUS
  <2>1. it[v] \in Chunks /\ ~IsLinked(it[v]) /\ it[v] # x
    BY <1>1, NewItems
  <2>2. it[v] # old
    BY <1>6, <2>1, Constants
  <2> QED BY <1>8, <2>1, <2>2
<1>19. ThenFree(w, old, r, x)
  BY <1>2, <1>7
<1>20. r = 0 => /\ old \in Chunks /\ Plain(old) /\ item'[old].refcount = 0
                /\ ~(LINKED \in item'[old].it_flags) /\ item'[old].key = op[w].key
  <2>1. r = 0 => old # None
    BY <1>7
  <2> QED BY <1>1, <1>6, <1>10, <2>1
<1>21. it' = [it EXCEPT ![w] = x]
  BY <1>1, <1>3, Same
<1>22. UNCHANGED <<slab_list, slots, memVars, wkey, wcls, moverVars>>
  BY <1>3
<1>23. x \in Chunks \cup {None} /\ Plain(x) /\ (Holding => x # Pos)
  BY <1>4
<1>24. EndsWith(w, old, r, x)
  BY <1>11, <1>12, <1>13, <1>14, <1>16, <1>17, <1>18, <1>19, <1>20, <1>21, <1>22, <1>23
     DEF EndsWith
<1> QED BY <1>2, <1>24, EndOp

LEMMA Step_AllocFails ==
    ASSUME IInv, NEW w \in Workers, AllocFails(w)
    PROVE  IInv'
<1>1. PICK k \in Keys, c \in Classes :
        /\ do_item_alloc(w, k, c)
        /\ \/ UNCHANGED mem_malloced
           \/ mem_malloced' = mem_malloced + 1
        /\ wkey' = [wkey EXCEPT ![w] = k]
        /\ wcls' = [wcls EXCEPT ![w] = c]
  BY DEF AllocFails
<1>2. /\ wpc' = [wpc EXCEPT ![w] = "pull"]
      /\ UNCHANGED <<slab_list, slots, moverVars, item, assoc, it, victim>>
      /\ UNCHANGED <<item_locks, op, mem_limit>>
  BY DEF AllocFails
<1>3. wpc[w] \in {"idle", "alloc"}
  BY <1>1 DEF do_item_alloc
<1>4. PICK o, x, y : o = op[w] /\ x = it[w] /\ y = victim[w]
  OBVIOUS
<1>5. Work(w, "pull", o, x, y, k, c) /\ WorkArgs("pull", o, x, y, k, c)
  BY <1>1, <1>2, <1>4, Same DEF Work, WorkArgs
<1>6. Worked(w, "pull", o, x, y, k, c) /\ WorkTyped
  BY <1>5, WorkValues
<1>7. mem_malloced' \in Nat /\ mem_malloced' >= mem_malloced
  BY <1>1, TypeNow
<1>8. TypeOK'
  BY <1>2, <1>6, <1>7, TypeNow, TypeThen DEF WorkTyped, moverVars
<1>9. WorkerOK(w)'
  <2>1. WorkerOK(w) /\ op'[w] = op[w] /\ it'[w] = it[w] /\ victim'[w] = victim[w]
    BY <1>2
  <2>2. wpc'[w] = "pull" /\ wkey'[w] \in Keys /\ wcls'[w] \in Classes
    BY <1>6 DEF Worked
  <2> QED BY <1>3, <2>1, <2>2 DEF WorkerOK, HasNew
<1>10. PagesOwnedOnce'
  <2>1. slab_list' \in Lists /\ slab_list \in Lists /\ slab_list' = slab_list
    BY <1>2, TypeNow
  <2>2. Once(slab_list) /\ Cardinality(All(slab_list)) <= mem_malloced
        /\ Cardinality(All(slab_list)) \in Nat
    BY <2>1, PagesNow, OnceIs DEF Bought
  <2>3. Cardinality(All(slab_list)) <= mem_malloced'
    BY <1>7, <2>2, TypeNow
  <2>4. Bought(slab_list', mem_malloced')
    BY <2>1, <2>2, <2>3 DEF Bought
  <2> QED BY <2>1, <2>4, PagesThen
<1>11. wpc[w] # "free"
  BY <1>3
<1> QED BY <1>2, <1>6, <1>8, <1>9, <1>10, <1>11, QuietWorker DEF Worked

-----------------------------------------------------------------------------
(* Steps that move chunks between freelists, items and the mover.          *)

\* What becomes of a chunk of class c.
Fate(y, c) ==
    \/ IsFree(y)' /\ y \in slots'[c] /\ item'[y].slabs_clsid = 0
    \/ IsCleared(y)' /\ y \notin slots'[c] /\ InRange(y)' /\ item'[y].refcount = 0
    \/ /\ Used(y)' /\ y \notin slots'[c] /\ (item'[y].refcount > 0 \/ Freeing(y)')
       /\ Exact(y)' /\ (y # new_it' => item'[y].slabs_clsid = c /\ item'[y].key \in Keys)

ItemThen(y) == \E c \in Classes : Used(y)' /\ InClass(y, c)' /\ item'[y].slabs_clsid = c

LEMMA Assemble ==
    ASSUME TypeOK', PagesOwnedOnce', MoverOK', SweptClear', \A v \in Workers : WorkerOK(v)',
           \A c \in Classes : \A y \in slots'[c] : InClass(y, c)',
           \A c \in Classes, y \in Chunks : InClass(y, c)' => Fate(y, c),
           \A y \in Chunks : (\A c \in Classes : ~InClass(y, c)') =>
             item'[y].refcount = 0 /\ ~IsLinked(y)',
           \A v \in Workers : \A y \in Chunks : y = it'[v] \/ y = victim'[v] => ItemThen(y),
           \A k \in Keys : assoc'[k] # None =>
             \E y \in Chunks : assoc'[k] = y /\ ItemThen(y) /\ item'[y].key = k /\ IsLinked(y)',
           \A c \in Classes, y \in Chunks : InClass(y, c)' /\ IsLinked(y)' =>
             assoc'[item'[y].key] = y
    PROVE  IInv'
<1>1. \A y : /\ IsFree(y)' => ~Used(y)' /\ ~IsCleared(y)' /\ ~IsLinked(y)'
             /\ IsCleared(y)' => ~Used(y)' /\ ~IsFree(y)' /\ ~IsLinked(y)'
  BY Flags DEF IsFree, IsCleared, Used, IsLinked
<1>2. ChunksAccounted'
  <2>1. \A c \in Classes, x \in Chunks : InClass(x, c)' =>
             \/ IsFree(x)' /\ x \in slots'[c] /\ item'[x].slabs_clsid = 0
             \/ IsCleared(x)' /\ x \notin slots'[c] /\ InRange(x)'
             \/ Used(x)' /\ x \notin slots'[c] /\ (item'[x].refcount > 0 \/ Freeing(x)')
    BY DEF Fate
  <2> QED BY <2>1, AccountedThen
<1>3. Headers'
  <2>1. \A c \in Classes, x \in Chunks : InClass(x, c)' =>
          /\ Used(x)' /\ x # new_it' => item'[x].slabs_clsid = c /\ item'[x].key \in Keys
          /\ ~Used(x)' => ~IsLinked(x)'
          /\ IsCleared(x)' => item'[x].refcount = 0
    BY <1>1 DEF Fate
  <2> QED BY <2>1 DEF Headers
<1>4. RefcountExact'
  <2>1. \A c \in Classes, x \in Chunks : InClass(x, c)' /\ Used(x)' => Exact(x)'
    BY <1>1 DEF Fate
  <2> QED BY <2>1, ExactIs
<1>5. \A y \in Chunks : ItemThen(y) => IsItem(y)'
  <2> SUFFICES ASSUME NEW y \in Chunks, ItemThen(y) PROVE IsItem(y)'
    OBVIOUS
  <2>1. PICK c \in Classes : Used(y)' /\ InClass(y, c)' /\ item'[y].slabs_clsid = c
    BY DEF ItemThen
  <2>2. c # POOL
    BY Constants
  <2> QED BY <2>1, <2>2 DEF IsItem, Used, InClass
<1>6. NoDanglingItem'
  <2>1. \A v \in Workers : \A x \in {it'[v], victim'[v]} \ {None} : IsItem(x)'
    <3>1. \A v \in Workers : it'[v] \in Chunks \cup {None} /\ victim'[v] \in Chunks \cup {None}
      BY DEF TypeOK
    <3> QED BY <1>5, <3>1
  <2>2. \A k \in Keys : assoc'[k] # None =>
          \E x \in Chunks : /\ assoc'[k] = x /\ IsItem(x)' /\ item'[x].key = k
                            /\ LINKED \in item'[x].it_flags
    BY <1>5 DEF IsLinked
  <2>3. (\A k \in Keys : assoc[k] # None =>
           IsItem(assoc[k]) /\ item[assoc[k]].key = k /\ LINKED \in item[assoc[k]].it_flags)'
    BY <2>2 DEF IsItem, InClass
  <2>4. (\A c \in Classes, x \in Chunks :
           InClass(x, c) /\ LINKED \in item[x].it_flags => assoc[item[x].key] = x)'
    BY DEF IsLinked
  <2> QED BY <2>1, <2>3, <2>4 DEF NoDanglingItem
<1> QED BY <1>2, <1>3, <1>4, <1>6

\* A chunk that nothing happens to.
Left(y, c) == /\ item'[y] = item[y] /\ (y \in slots'[c] <=> y \in slots[c])
              /\ (Freeing(y) => Freeing(y)') /\ Count(y)' = Count(y)
              /\ (MoverHolds(y)' <=> MoverHolds(y)) /\ (y = new_it => y = new_it')
              /\ (InRange(y) => InRange(y)')
LEMMA FateLeft ==
    ASSUME IInv, NEW c \in Classes, NEW y \in Chunks, InClass(y, c), Left(y, c)
    PROVE  Fate(y, c)
<1>1. CASE IsFree(y)
  <2>1. IsFree(y)'
    BY <1>1 DEF IsFree, Left
  <2> QED BY <1>1, <2>1, AccountedNow DEF Fate, Left
<1>2. CASE IsCleared(y)
  <2>1. IsCleared(y)' /\ item'[y].refcount = 0
    BY <1>2 DEF IsCleared, Left, Headers
  <2> QED BY <1>2, <2>1, AccountedNow DEF Fate, Left
<1>3. CASE Used(y)
  <2>1. Used(y)' /\ y \notin slots'[c] /\ (item'[y].refcount > 0 \/ Freeing(y)')
    BY <1>3, AccountedNow DEF Left, Used
  <2>2. Exact(y)
    BY <1>3, ExactIs
  <2>3. Exact(y)'
    BY <2>2 DEF Left, Exact, IsLinked, BIT
  <2>4. y # new_it' => item'[y].slabs_clsid = c /\ item'[y].key \in Keys
    BY <1>3 DEF Left, Headers
  <2> QED BY <2>1, <2>3, <2>4 DEF Fate
<1> QED BY <1>1, <1>2, <1>3, AccountedNow

\* A worker whom the step does not concern.
Stands(v) ==
    /\ wpc'[v] = wpc[v] /\ op'[v] = op[v] /\ wkey'[v] = wkey[v] /\ wcls'[v] = wcls[v]
    /\ it'[v] = it[v] /\ victim'[v] = victim[v]
    /\ it[v] # None => item'[it[v]].key = item[it[v]].key
    /\ victim[v] # None => item'[victim[v]] = item[victim[v]]
    /\ HasNew(v) => /\ (LINKED \in item'[it[v]].it_flags) => IsLinked(it[v])
                    /\ \A u \in Workers : u # v => it'[u] # it[v]
    /\ \A k \in Keys : item_locks[k] = v => item_locks'[k] = v
LEMMA Bystander ==
    ASSUME IInv, NEW v \in Workers, Stands(v)
    PROVE  WorkerOK(v)'
<1> USE DEF Stands
<1>1. /\ wpc'[v] = wpc[v] /\ op'[v] = op[v] /\ wkey'[v] = wkey[v] /\ wcls'[v] = wcls[v]
      /\ it'[v] = it[v] /\ victim'[v] = victim[v] /\ WorkerOK(v)
  OBVIOUS
<1>2. wpc[v] \in {"locked", "free"} => item_locks'[op[v].key] = v
  BY <1>1 DEF WorkerOK
<1>3. HasNew(v)' <=> HasNew(v)
  BY <1>1 DEF HasNew
<1>4. HasNew(v) => ~(LINKED \in item'[it[v]].it_flags)
                   /\ (\A u \in Workers : it'[u] = it[v] => u = v)
  BY <1>1 DEF WorkerOK
<1>5. wpc[v] = "free" => victim[v] # None /\ item'[victim[v]] = item[victim[v]]
  BY <1>1 DEF WorkerOK
<1>6. it[v] # None => item'[it[v]].key = item[it[v]].key
  OBVIOUS
<1> HIDE DEF Stands
<1> QED BY <1>1, <1>2, <1>3, <1>4, <1>5, <1>6 DEF WorkerOK, IsLinked

\* The chunks that the mover has been over are chunks of its page.
LEMMA SweptFacts ==
    ASSUME IInv, Moving \/ mpc = "finish", NEW i \in 1 .. Swept
    PROVE  /\ i \in 1 .. PerSlab[SrcCls] /\ <<slab_rebal.slab_start, i>> \in Chunks
           /\ InClass(<<slab_rebal.slab_start, i>>, SrcCls)
           /\ SrcCls \in Classes /\ slab_rebal.slab_start \in Pages
<1>1. /\ SrcCls \in Classes /\ slab_rebal.slab_start \in Pages
      /\ slab_rebal.slab_pos \in 1 .. PerSlab[SrcCls]
      /\ slab_list[SrcCls] # <<>> /\ slab_list[SrcCls][1] = slab_rebal.slab_start
  BY DEF MoverOK, Moving, Holding
<1>2. PICK n \in Nat, m \in Nat :
        n = PerSlab[SrcCls] /\ m = slab_rebal.slab_pos /\ m >= 1 /\ m <= n
  BY <1>1, Constants
<1>3. Swept \in {n, m, m - 1}
  BY <1>2 DEF Swept
<1>4. i \in 1 .. PerSlab[SrcCls]
  BY <1>2, <1>3
<1>5. 1 \in DOMAIN slab_list[SrcCls]
  BY <1>1, Typed, ListFacts
<1>6. PICK x \in Chunks : x = <<slab_rebal.slab_start, i>> /\ x[1] = slab_rebal.slab_start
                          /\ x[2] = i
  <2>1. PICK p \in Pages, c \in Classes : p = slab_rebal.slab_start /\ c = SrcCls
    BY <1>1
  <2>2. <<p, i>> \in Chunks /\ <<p, i>>[1] = p /\ <<p, i>>[2] = i
    BY <1>4, <2>1, ChunkFacts
  <2> QED BY <2>1, <2>2
<1>7. InClass(x, SrcCls)
  BY <1>1, <1>2, <1>4, <1>5, <1>6 DEF InClass
<1> QED BY <1>1, <1>4, <1>6, <1>7

\* The mover's view, when it does nothing itself.
Watches ==
    /\ UNCHANGED moverVars
    /\ Moving \/ mpc = "finish" =>
         slab_list'[SrcCls] # <<>> /\ slab_list'[SrcCls][1] = slab_list[SrcCls][1]
    /\ \A y \in Chunks : (Holding /\ y = Pos) \/ y = new_it => item'[y] = item[y]
    /\ \A y \in Chunks : IsCleared(y) /\ InClass(y, SrcCls) /\ SrcCls \in Classes =>
                           item'[y] = item[y]
    /\ \A k \in Keys : item_locks[k] = Mover => item_locks'[k] = Mover
    /\ Holding => \A v \in Workers : it'[v] # Pos
    /\ \A y \in Chunks : y = new_it /\ InClass(y, SrcCls) => InClass(y, SrcCls)'
LEMMA MoverSame ==
    ASSUME IInv, Watches
    PROVE  MoverOK' /\ SweptClear'
<1>1. UNCHANGED <<slab_rebal, new_it, mpc>>
  BY DEF Watches, moverVars
<1>2. SrcCls' = SrcCls /\ Pos' = Pos /\ (Holding' <=> Holding) /\ (Moving' <=> Moving)
  BY <1>1 DEF SrcCls, Pos, Holding, Moving
<1>3. Swept' = Swept
  BY <1>1 DEF Swept, SrcCls
<1>4. SweptClear'
  <2>1. ASSUME NEW i \in 1 .. Swept, Moving \/ mpc = "finish",
               IsCleared(<<slab_rebal.slab_start, i>>)
        PROVE  IsCleared(<<slab_rebal.slab_start, i>>)'
    <3>1. PICK x \in Chunks : x = <<slab_rebal.slab_start, i>> /\ InClass(x, SrcCls)
                              /\ SrcCls \in Classes
      BY <2>1, SweptFacts
    <3>2. item'[x] = item[x]
      BY <2>1, <3>1 DEF Watches
    <3> QED BY <1>1, <2>1, <3>1, <3>2 DEF IsCleared
  <2> QED BY <1>1, <1>2, <1>3, <2>1 DEF SweptClear
<1>5. Holding => /\ item'[Pos] = item[Pos] /\ item_locks'[item[Pos].key] = Mover
                 /\ \A w \in Workers : it'[w] # Pos
  <2> SUFFICES ASSUME Holding
               PROVE  /\ item'[Pos] = item[Pos] /\ item_locks'[item[Pos].key] = Mover
                      /\ \A w \in Workers : it'[w] # Pos
    OBVIOUS
  <2>1. Pos \in Chunks /\ item[Pos].key \in Keys /\ item_locks[item[Pos].key] = Mover
    BY PosFacts DEF Plain, MoverOK
  <2> QED BY <2>1 DEF Watches
<1>6. mpc = "rescue" => item'[new_it] = item[new_it] /\ InClass(new_it, SrcCls)'
  <2> SUFFICES ASSUME mpc = "rescue"
               PROVE  item'[new_it] = item[new_it] /\ InClass(new_it, SrcCls)'
    OBVIOUS
  <2>1. PICK y \in Chunks : y = new_it /\ InClass(y, SrcCls)
    BY Typed DEF MoverOK
  <2>2. item'[y] = item[y] /\ InClass(y, SrcCls)'
    BY <2>1 DEF Watches
  <2> QED BY <1>1, <2>1, <2>2 DEF InClass
<1>7. mpc = "finish" \/ Moving => slab_list'[SrcCls] # <<>>
                                  /\ slab_list'[SrcCls][1] = slab_list[SrcCls][1]
  BY DEF Watches
<1>8. InRange(new_it)' <=> InRange(new_it)
  BY <1>1 DEF InRange
<1>9. MoverOK
  OBVIOUS
<1>10. MoverOK'
  BY <1>1, <1>2, <1>5, <1>6, <1>7, <1>8, <1>9 DEF MoverOK, Used, IsLinked, InClass
<1> QED BY <1>4, <1>10

\* do_slabs_alloc: worker w gets chunk x, off the freelist of c or of the
\* chunks of a new page of c.
Takes(w, k, c, x, fresh) ==
    /\ wpc[w] \in {"idle", "alloc"}
    /\ TakeChunk(w, k, c, x, fresh) /\ UNCHANGED moverVars
    /\ UNCHANGED <<assoc, item_locks, op, victim, mem_limit>>
    /\ slab_list' \in Lists /\ PagesOwnedOnce' /\ mem_malloced' \in Nat
    /\ fresh \subseteq Chunks /\ x \in slots[c] \cup fresh
    /\ \A y \in fresh : \A d \in Classes : ~InClass(y, d)
    /\ \A y \in Chunks, d \in Classes :
         InClass(y, d)' <=> InClass(y, d) \/ (y \in fresh /\ d = c)
    /\ Moving \/ mpc = "finish" =>
         slab_list'[SrcCls] # <<>> /\ slab_list'[SrcCls][1] = slab_list[SrcCls][1]

LEMMA TakesStep ==
    ASSUME IInv, NEW w \in Workers, NEW k \in Keys, NEW c \in Classes, NEW x, NEW fresh,
           Takes(w, k, c, x, fresh)
    PROVE  IInv'
<1>1. /\ wpc[w] \in {"idle", "alloc"} /\ UNCHANGED moverVars
      /\ UNCHANGED <<assoc, item_locks, op, victim, mem_limit>>
      /\ slab_list' \in Lists /\ PagesOwnedOnce' /\ mem_malloced' \in Nat
      /\ fresh \subseteq Chunks /\ x \in slots[c] \cup fresh
  BY DEF Takes
<1>2. /\ \A y \in fresh : \A d \in Classes : ~InClass(y, d)
      /\ \A y \in Chunks, d \in Classes :
           InClass(y, d)' <=> InClass(y, d) \/ (y \in fresh /\ d = c)
  BY DEF Takes
<1>3. /\ item' = [y \in Chunks |-> CASE y = x -> Header({}, 1, c, k)
                                     [] y \in fresh \ {x} -> Zeroed
                                     [] OTHER -> item[y]]
      /\ slots' = [slots EXCEPT ![c] = (@ \cup fresh) \ {x}]
      /\ it' = [it EXCEPT ![w] = x]
      /\ wpc' = [wpc EXCEPT ![w] = "new"]
      /\ wkey' = [wkey EXCEPT ![w] = None]
      /\ wcls' = [wcls EXCEPT ![w] = POOL]
  BY DEF Takes, TakeChunk
<1>4. x \in Chunks
  BY <1>1, TypeNow
<1>5. /\ item'[x] \in HeaderType /\ item'[x].it_flags = {} /\ item'[x].refcount = 1
      /\ item'[x].slabs_clsid = c /\ item'[x].key = k
  <2>1. item'[x] = Header({}, 1, c, k)
    BY <1>3, <1>4
  <2> QED BY <2>1, HeaderFields
<1>6. \A y \in fresh : y # x => /\ item'[y] \in HeaderType /\ item'[y].it_flags = {SLABBED}
                                /\ item'[y].refcount = 0 /\ item'[y].slabs_clsid = 0
  <2>1. \A y \in fresh : y # x => item'[y] = Zeroed
    BY <1>1, <1>3
  <2>2. /\ Zeroed \in HeaderType /\ Zeroed.it_flags = {SLABBED} /\ Zeroed.refcount = 0
        /\ Zeroed.slabs_clsid = 0
    BY HeaderFields DEF Zeroed, POOL
  <2> QED BY <2>1, <2>2
<1>7. \A y \in Chunks : y # x /\ y \notin fresh => item'[y] = item[y]
  BY <1>3
<1>8. item' \in [Chunks -> HeaderType]
  <2>1. \A y \in Chunks : item'[y] \in HeaderType
    BY <1>5, <1>6, <1>7, Typed
  <2>2. item' = [y \in Chunks |-> item'[y]]
    BY <1>3
  <2> QED BY <2>1, <2>2
<1>9. /\ slots' \in [Classes -> SUBSET Chunks] /\ slots'[c] = (slots[c] \cup fresh) \ {x}
      /\ \A d \in Classes : d # c => slots'[d] = slots[d]
  BY <1>1, <1>3, TypeNow
<1>10. WorkerOK(w) /\ it[w] = None /\ victim[w] = None /\ op[w].do # "evict"
  BY <1>1 DEF WorkerOK
<1>11. PICK o, z : o = op[w] /\ z = victim[w]
  OBVIOUS
<1>12. Work(w, "new", o, x, z, None, POOL) /\ WorkArgs("new", o, x, z, None, POOL)
  BY <1>1, <1>3, <1>4, <1>11, Same DEF Work, WorkArgs
<1>13. Worked(w, "new", o, x, z, None, POOL) /\ WorkTyped
  BY <1>12, WorkValues
<1>14. TypeOK'
  BY <1>1, <1>8, <1>9, <1>13, TypeNow, TypeThen DEF WorkTyped, moverVars
<1>15. \A d \in Classes : ~(Used(x) /\ InClass(x, d))
  <2>1. CASE x \in fresh
    BY <1>2, <2>1
  <2>2. CASE x \in slots[c]
    BY <1>4, <2>2, AccountedNow, OneClass DEF ChunksAccounted
  <2> QED BY <1>1, <2>1, <2>2
<1>16. \A y \in Chunks : Plain(y) => y # x /\ y \notin fresh
  BY <1>2, <1>15 DEF Plain
<1>17. \A v \in Workers : it[v] # x
  BY <1>4, <1>16, HeldFacts, Constants
<1>18. \A v \in Workers : v # w => Stands(v)
  <2> SUFFICES ASSUME NEW v \in Workers, v # w PROVE Stands(v)
    OBVIOUS
  <2>1. it[v] # None => item'[it[v]] = item[it[v]]
    BY <1>7, <1>16, HeldFacts DEF Plain
  <2>2. victim[v] # None => item'[victim[v]] = item[victim[v]]
    BY <1>7, <1>16, VictimFacts DEF Plain
  <2>3. HasNew(v) => /\ (LINKED \in item'[it[v]].it_flags) => IsLinked(it[v])
                     /\ \A u \in Workers : u # v => it'[u] # it[v]
    <3> SUFFICES ASSUME HasNew(v)
                 PROVE  /\ (LINKED \in item'[it[v]].it_flags) => IsLinked(it[v])
                        /\ \A u \in Workers : u # v => it'[u] # it[v]
      OBVIOUS
    <3>1. it[v] \in Chunks /\ \A u \in Workers : it[u] = it[v] => u = v
      BY NewItems
    <3>2. it[v] # None
      BY <3>1, Constants
    <3> QED BY <1>13, <1>17, <2>1, <3>1, <3>2 DEF Worked, IsLinked
  <2> QED BY <1>1, <1>13, <2>1, <2>2, <2>3 DEF Stands, Worked
<1>19. WorkerOK(w)'
  <2>1. /\ wpc'[w] = "new" /\ op'[w] = op[w] /\ it'[w] = x /\ victim'[w] = None
    BY <1>10, <1>11, <1>13 DEF Worked
  <2>2. \A v \in Workers : it'[v] = x => v = w
    BY <1>13, <1>17 DEF Worked
  <2>3. x # None
    BY <1>4, Constants
  <2> QED BY <1>5, <1>10, <2>1, <2>2, <2>3 DEF WorkerOK, HasNew, IsLinked
<1>20. \A v \in Workers : WorkerOK(v)'
  BY <1>18, <1>19, Bystander
<1>21. Watches
  <2>1. \A y \in Chunks : (Holding /\ y = Pos) \/ y = new_it => item'[y] = item[y]
    <3>1. \A y \in Chunks : Holding /\ y = Pos => item'[y] = item[y]
      BY <1>7, <1>16, PosFacts
    <3>2. \A y \in Chunks : y = new_it => Used(y) /\ InClass(y, SrcCls) /\ SrcCls \in Classes
      BY Constants DEF MoverOK
    <3> QED BY <1>2, <1>7, <1>15, <3>1, <3>2
  <2>2. \A y \in Chunks : IsCleared(y) /\ InClass(y, SrcCls) /\ SrcCls \in Classes =>
                            item'[y] = item[y]
    <3> SUFFICES ASSUME NEW y \in Chunks, IsCleared(y), InClass(y, SrcCls), SrcCls \in Classes
                 PROVE  item'[y] = item[y]
      OBVIOUS
    <3>1. y \notin fresh
      BY <1>2
    <3>2. y # x
      <4>1. x \in slots[c] => InClass(x, c)
        BY DEF ChunksAccounted
      <4> QED BY <1>1, <3>1, <4>1, AccountedNow, OneClass
    <3> QED BY <1>7, <3>1, <3>2
  <2>3. Holding => \A v \in Workers : it'[v] # Pos
    <3>1. Holding => Pos # x /\ \A v \in Workers : it[v] # Pos
      BY <1>4, <1>16, PosFacts DEF MoverOK, Plain
    <3> QED BY <1>13, <3>1 DEF Worked
  <2>4. \A y \in Chunks : y = new_it => InClass(y, SrcCls)'
    <3>1. SrcCls' = SrcCls
      BY <1>1 DEF moverVars, SrcCls
    <3>2. \A y \in Chunks : y = new_it => InClass(y, SrcCls) /\ SrcCls \in Classes
      BY Constants DEF MoverOK
    <3>3. PICK s : s = SrcCls
      OBVIOUS
    <3>4. \A y \in Chunks : y = new_it => InClass(y, s)'
      BY <1>2, <3>2, <3>3
    <3> QED BY <3>1, <3>3, <3>4 DEF InClass
  <2>5. Moving \/ mpc = "finish" =>
         slab_list'[SrcCls] # <<>> /\ slab_list'[SrcCls][1] = slab_list[SrcCls][1]
    BY DEF Takes
  <2> QED BY <1>1, <2>1, <2>2, <2>3, <2>4, <2>5 DEF Watches
<1>22. MoverOK' /\ SweptClear'
  BY <1>21, MoverSame
<1>23. UNCHANGED <<slab_rebal, new_it, mpc>>
  BY <1>1 DEF moverVars
<1>24. \A y \in Chunks : (MoverHolds(y)' <=> MoverHolds(y)) /\ (InRange(y)' <=> InRange(y))
  BY <1>23 DEF MoverHolds, Pos, InRange
<1>25. Exact(x)'
  <2>1. ~MoverHolds(x)
    <3>1. Holding => Pos # x
      BY <1>4, <1>16, PosFacts DEF Plain
    <3>2. x # new_it
      <4>1. x = new_it => Used(x) /\ InClass(x, SrcCls) /\ SrcCls \in Classes
        BY <1>4, Constants DEF MoverOK
      <4> QED BY <1>15, <4>1
    <3> QED BY <3>1, <3>2 DEF MoverHolds, Holding
  <2>2. Count(x) = 0
    BY <1>17, CountNow
  <2>3. Count(x)' = 1
    <3>1. it[w] # x /\ it \in [Workers -> Chunks \cup {None}]
      BY <1>17, TypeNow
    <3>2. Count(x)' = Count(x) + 1
      BY <1>3, <3>1, CountStep
    <3> QED BY <2>2, <3>2
  <2> QED BY <1>4, <1>5, <1>24, <2>1, <2>3 DEF Exact, IsLinked, BIT
<1>26. ASSUME NEW d \in Classes, NEW y \in Chunks, InClass(y, d)'
       PROVE  Fate(y, d)
  <2>1. CASE y = x
    <3>1. d = c
      <4>1. x \in slots[c] => InClass(x, c)
        BY DEF ChunksAccounted
      <4> QED BY <1>1, <1>2, <1>26, <2>1, <4>1, OneClass
    <3>2. Used(x)' /\ x \notin slots'[c]
      BY <1>5, <1>9 DEF Used
    <3> QED BY <1>5, <1>25, <2>1, <3>1, <3>2 DEF Fate
  <2>2. CASE y # x /\ y \in fresh
    <3>1. d = c /\ y \in slots'[c] /\ IsFree(y)' /\ item'[y].slabs_clsid = 0
      BY <1>2, <1>6, <1>9, <1>26, <2>2 DEF IsFree
    <3> QED BY <3>1 DEF Fate
  <2>3. CASE y # x /\ y \notin fresh
    <3>1. InClass(y, d) /\ item'[y] = item[y] /\ (y \in slots'[d] <=> y \in slots[d])
      BY <1>2, <1>7, <1>9, <1>26, <2>3
    <3>2. Count(y)' = Count(y)
      <4>1. it[w] # y /\ it \in [Workers -> Chunks \cup {None}]
        BY <1>10, TypeNow, Constants
      <4> QED BY <1>3, <2>3, <4>1, CountStep
    <3>3. Freeing(y) => Freeing(y)'
      <4>1. \A v \in Workers : v # w => wpc'[v] = wpc[v] /\ victim'[v] = victim[v]
        BY <1>13 DEF Worked
      <4> QED BY <1>1, <4>1 DEF Freeing
    <3>4. Left(y, d)
      BY <1>23, <1>24, <3>1, <3>2, <3>3 DEF Left
    <3> QED BY <3>1, <3>4, FateLeft
  <2> QED BY <2>1, <2>2, <2>3
<1>27. \A d \in Classes : \A y \in slots'[d] : InClass(y, d)'
  <2>1. \A d \in Classes : \A y \in slots[d] : InClass(y, d) /\ y \in Chunks
    BY Typed DEF ChunksAccounted
  <2> QED BY <1>1, <1>2, <1>9, <2>1
<1>28. \A y \in Chunks : (\A d \in Classes : ~InClass(y, d)') =>
         item'[y].refcount = 0 /\ ~IsLinked(y)'
  <2> SUFFICES ASSUME NEW y \in Chunks, \A d \in Classes : ~InClass(y, d)'
               PROVE  item'[y].refcount = 0 /\ ~IsLinked(y)'
    OBVIOUS
  <2>1. y \notin fresh /\ \A d \in Classes : ~InClass(y, d)
    BY <1>2
  <2>2. y # x
    BY <1>1, <2>1 DEF ChunksAccounted
  <2> QED BY <1>7, <2>1, <2>2 DEF Headers, IsLinked
<1>29. \A y \in Chunks : Plain(y) => ItemThen(y)
  <2> SUFFICES ASSUME NEW y \in Chunks, Plain(y) PROVE ItemThen(y)
    OBVIOUS
  <2>1. item'[y] = item[y]
    BY <1>7, <1>16
  <2>2. PICK d \in Classes : d = item[y].slabs_clsid /\ InClass(y, d) /\ Used(y)
    BY DEF Plain
  <2> QED BY <1>2, <2>1, <2>2 DEF ItemThen, Used
<1>30. ItemThen(x)
  <2>1. InClass(x, c)'
    BY <1>1, <1>2, <1>4 DEF ChunksAccounted
  <2> QED BY <1>5, <2>1 DEF ItemThen, Used
<1>31. \A v \in Workers : \A y \in Chunks : y = it'[v] \/ y = victim'[v] => ItemThen(y)
  <2>1. \A v \in Workers : \A y \in Chunks : y = it[v] \/ y = victim[v] => Plain(y)
    BY HeldFacts, VictimFacts, Constants
  <2>2. \A v \in Workers : (it'[v] = it[v] \/ it'[v] = x) /\ victim'[v] = victim[v]
    BY <1>1, <1>13 DEF Worked
  <2> QED BY <1>29, <1>30, <2>1, <2>2
<1>32. \A j \in Keys : assoc'[j] # None =>
         \E y \in Chunks : assoc'[j] = y /\ ItemThen(y) /\ item'[y].key = j /\ IsLinked(y)'
  <2> SUFFICES ASSUME NEW j \in Keys, assoc[j] # None
               PROVE  \E y \in Chunks : /\ assoc'[j] = y /\ ItemThen(y) /\ item'[y].key = j
                                        /\ IsLinked(y)'
    BY <1>1
  <2>1. PICK y \in Chunks : y = assoc[j] /\ Plain(y) /\ item[y].key = j /\ IsLinked(y)
    BY TableFacts DEF Plain
  <2>2. item'[y] = item[y]
    BY <1>7, <1>16, <2>1
  <2> QED BY <1>1, <1>29, <2>1, <2>2 DEF IsLinked
<1>33. \A d \in Classes, y \in Chunks : InClass(y, d)' /\ IsLinked(y)' =>
         assoc'[item'[y].key] = y
  <2> SUFFICES ASSUME NEW d \in Classes, NEW y \in Chunks, InClass(y, d)', IsLinked(y)'
               PROVE  assoc'[item'[y].key] = y
    OBVIOUS
  <2>1. y # x /\ y \notin fresh
    BY <1>5, <1>6, Flags DEF IsLinked
  <2>2. item'[y] = item[y] /\ InClass(y, d)
    BY <1>2, <1>7, <2>1
  <2> QED BY <1>1, <2>2 DEF NoDanglingItem, IsLinked
<1> QED BY <1>1, <1>14, <1>20, <1>22, <1>26, <1>27, <1>28, <1>31, <1>32, <1>33, Assemble

LEMMA Step_slabs_alloc ==
    ASSUME IInv, NEW w \in Workers, slabs_alloc(w)
    PROVE  IInv'
<1>1. PICK k \in Keys, c \in Classes : /\ do_item_alloc(w, k, c)
                                       /\ \E x \in slots[c] : TakeChunk(w, k, c, x, {})
  BY DEF slabs_alloc
<1>2. PICK x \in slots[c] : TakeChunk(w, k, c, x, {})
  BY <1>1
<1>3. /\ UNCHANGED <<slab_list, memVars>> /\ UNCHANGED moverVars
      /\ UNCHANGED <<assoc, item_locks, op, victim>>
  BY DEF slabs_alloc
<1>4. wpc[w] \in {"idle", "alloc"}
  BY <1>1 DEF do_item_alloc
<1>5. slab_list' \in Lists /\ PagesOwnedOnce' /\ mem_malloced' \in Nat /\ UNCHANGED mem_limit
  BY <1>3, TypeNow, SamePages DEF memVars
<1>6. \A y \in Chunks, d \in Classes : InClass(y, d)' <=> InClass(y, d)
  BY <1>3 DEF InClass
<1>7. Moving \/ mpc = "finish" =>
        slab_list'[SrcCls] # <<>> /\ slab_list'[SrcCls][1] = slab_list[SrcCls][1]
  BY <1>3 DEF MoverOK
<1>8. Takes(w, k, c, x, {})
  BY <1>2, <1>3, <1>4, <1>5, <1>6, <1>7 DEF Takes
<1> QED BY <1>8, TakesStep

\* A new page is in no class: not one of its chunks is.
LEMMA NewPage ==
    ASSUME IInv, NEW c \in Classes, NEW p \in Pages, slab_list' \in Lists,
           \A d \in Classes : p \notin On(slab_list, d),
           On(slab_list', c) = On(slab_list, c) \cup {p},
           \A d \in Classes : d # c => On(slab_list', d) = On(slab_list, d)
    PROVE  /\ ChunksOf(p, c) \subseteq Chunks
           /\ \A y \in ChunksOf(p, c) : \A d \in Classes : ~InClass(y, d)
           /\ \A y \in Chunks, d \in Classes :
                InClass(y, d)' <=> InClass(y, d) \/ (y \in ChunksOf(p, c) /\ d = c)
<1>1. slab_list \in Lists
  BY TypeNow
<1>2. /\ ChunksOf(p, c) \subseteq Chunks
      /\ \A x \in Chunks : x \in ChunksOf(p, c) <=> x[1] = p /\ x[2] <= PerSlab[c]
  BY ChunkFacts
<1>3. \A y \in Chunks, d \in Classes :
        InClass(y, d) <=> y[2] <= PerSlab[d] /\ y[1] \in On(slab_list, d)
  BY <1>1, PagesNow
<1>4. \A y \in Chunks, d \in Classes :
        InClass(y, d)' <=> y[2] <= PerSlab[d] /\ y[1] \in On(slab_list', d)
  BY PagesThen
<1>5. \A y \in ChunksOf(p, c) : \A d \in Classes : ~InClass(y, d)
  BY <1>2, <1>3
<1>6. ASSUME NEW y \in Chunks, NEW d \in Classes
      PROVE  InClass(y, d)' <=> InClass(y, d) \/ (y \in ChunksOf(p, c) /\ d = c)
  <2>1. CASE d = c
    BY <1>2, <1>3, <1>4, <2>1
  <2>2. CASE d # c
    BY <1>3, <1>4, <2>2
  <2> QED BY <2>1, <2>2
<1> QED BY <1>2, <1>5, <1>6

\* get_page_from_global_pool and memory_allocate.
LEMMA PageGot ==
    ASSUME IInv, NEW c \in Classes, NEW p \in Pages, PageFromPool(p, c) \/ PageFromMalloc(p, c)
    PROVE  /\ slab_list' \in Lists /\ PagesOwnedOnce' /\ mem_malloced' \in Nat
           /\ UNCHANGED mem_limit
           /\ \A d \in Classes : p \notin On(slab_list, d)
           /\ On(slab_list', c) = On(slab_list, c) \cup {p}
           /\ \A d \in Classes : d # c => On(slab_list', d) = On(slab_list, d)
           /\ \A d \in Classes : slab_list[d] # <<>> =>
                slab_list'[d] # <<>> /\ slab_list'[d][1] = slab_list[d][1]
<1>1. PICK L : L = slab_list /\ L \in Lists /\ Once(L) /\ Cardinality(All(L)) <= mem_malloced
  BY TypeNow, PagesNow DEF Bought
<1>2. c \in Classes \cup {POOL} /\ POOL \in Classes \cup {POOL} /\ c # POOL
  BY Constants
<1>3. mem_malloced \in Nat /\ Cardinality(All(L)) \in Nat /\ IsFiniteSet(All(L))
  BY <1>1, TypeNow, OnceIs
<1>4. CASE PageFromPool(p, c)
  <2>1. PICK n : n = Len(L[POOL]) /\ p = L[POOL][n] /\ L[POOL] # <<>>
                 /\ slab_list' = [L EXCEPT ![POOL] = SubSeq(L[POOL], 1, n - 1),
                                           ![c] = Append(L[c], p)]
    BY <1>1, <1>2, <1>4 DEF PageFromPool
  <2>2. n \in Nat /\ n # 0 /\ 1 \in 0 .. n
    BY <1>1, <2>1, ListFacts
  <2>3. PICK M : M = Cut(L, POOL, 1)
    OBVIOUS
  <2>4. /\ M \in Lists /\ Once(M) /\ Len(M[POOL]) = n - 1
        /\ \A d \in Classes \cup {POOL} : d # POOL => M[d] = L[d]
        /\ All(M) = All(L) \ LastPages(L, POOL, 1)
    <3>1. 1 \in 0 .. Len(L[POOL])
      BY <2>1, <2>2
    <3> QED BY <1>1, <1>2, <2>1, <2>3, <3>1, TakeLast
  <2>5. LastPages(L, POOL, 1) = {p}
    <3>1. (Len(L[POOL]) - 1 + 1) .. Len(L[POOL]) = {n}
      BY <2>1, <2>2
    <3> QED BY <2>1, <3>1 DEF LastPages
  <2>6. slab_list' = Put(M, c, p)
    BY <1>1, <1>2, <2>1, <2>3, <2>4 DEF Lists, Put, Cut
  <2>7. p \notin All(M) /\ p \in All(L)
    <3>1. n \in 1 .. Len(L[POOL])
      BY <2>1, <2>2
    <3>2. L[POOL][n] \in On(L, POOL)
      BY <3>1 DEF On
    <3>3. p \in All(L)
      BY <2>1, <3>2 DEF All
    <3> QED BY <2>4, <2>5, <3>3
  <2>8. /\ slab_list' \in Lists /\ Once(slab_list')
        /\ \A d \in Classes \cup {POOL} : d # c => slab_list'[d] = M[d]
        /\ Len(slab_list'[c]) = Len(M[c]) + 1
        /\ \A i \in 1 .. Len(M[c]) : slab_list'[c][i] = M[c][i]
        /\ On(slab_list', c) = On(M, c) \cup {p} /\ All(slab_list') = All(M) \cup {p}
    BY <1>2, <2>4, <2>6, <2>7, GivePage
  <2>9. All(slab_list') = All(L)
    BY <2>4, <2>5, <2>7, <2>8
  <2>10. UNCHANGED <<mem_limit, mem_malloced>>
    BY <1>4 DEF PageFromPool, memVars
  <2>11. PagesOwnedOnce'
    BY <1>1, <2>8, <2>9, <2>10, PagesThen DEF Bought
  <2>12. \A d \in Classes : M[d] = L[d]
    BY <1>2, <2>4, Constants
  <2>13. \A d \in Classes : On(M, d) = On(L, d)
    BY <2>12 DEF On
  <2>14. \A d \in Classes : p \notin On(L, d)
    BY <2>7, <2>13 DEF All
  <2>15. \A d \in Classes : d # c => On(slab_list', d) = On(L, d)
    BY <2>8, <2>12 DEF On
  <2>16. \A d \in Classes : L[d] # <<>> =>
           slab_list'[d] # <<>> /\ slab_list'[d][1] = L[d][1]
    <3>1. CASE L[c] # <<>>
      <4>1. Len(M[c]) \in Nat /\ Len(M[c]) # 0
        BY <1>1, <2>4, <2>12, <3>1, ListFacts
      <4>2. Len(slab_list'[c]) # 0 /\ 1 \in 1 .. Len(M[c])
        BY <2>8, <4>1
      <4>3. slab_list'[c] # <<>>
        BY <1>2, <2>8, <4>2, ListFacts
      <4> QED BY <2>8, <2>12, <4>2, <4>3
    <3>2. \A d \in Classes : d # c => slab_list'[d] = L[d]
      BY <2>8, <2>12
    <3> QED BY <3>1, <3>2
  <2> QED BY <1>1, <1>3, <2>8, <2>10, <2>11, <2>13, <2>14, <2>15, <2>16
<1>5. CASE PageFromMalloc(p, c)
  <2>1. /\ p \notin All(L) /\ slab_list' = Put(L, c, p)
        /\ mem_malloced' = mem_malloced + 1 /\ UNCHANGED mem_limit
    BY <1>1, <1>5, PagesNow DEF PageFromMalloc, Put
  <2>2. /\ slab_list' \in Lists /\ Once(slab_list')
        /\ \A d \in Classes \cup {POOL} : d # c => slab_list'[d] = L[d]
        /\ Len(slab_list'[c]) = Len(L[c]) + 1
        /\ \A i \in 1 .. Len(L[c]) : slab_list'[c][i] = L[c][i]
        /\ On(slab_list', c) = On(L, c) \cup {p} /\ All(slab_list') = All(L) \cup {p}
    BY <1>1, <1>2, <2>1, GivePage
  <2>3. Cardinality(All(slab_list')) = Cardinality(All(L)) + 1
    BY <1>3, <2>1, <2>2, FS_AddElement
  <2>4. Cardinality(All(slab_list')) <= mem_malloced' /\ mem_malloced' \in Nat
    BY <1>1, <1>3, <2>1, <2>3
  <2>5. PagesOwnedOnce'
    BY <2>2, <2>4, PagesThen DEF Bought
  <2>6. \A d \in Classes : p \notin On(L, d)
    BY <2>1 DEF All
  <2>7. \A d \in Classes : d # c => On(slab_list', d) = On(L, d)
    BY <2>2 DEF On
  <2>8. \A d \in Classes : L[d] # <<>> =>
           slab_list'[d] # <<>> /\ slab_list'[d][1] = L[d][1]
    <3>1. CASE L[c] # <<>>
      <4>1. Len(L[c]) \in Nat /\ Len(L[c]) # 0
        BY <1>1, <3>1, ListFacts
      <4>2. Len(slab_list'[c]) # 0 /\ 1 \in 1 .. Len(L[c])
        BY <2>2, <4>1
      <4>3. slab_list'[c] # <<>>
        BY <1>2, <2>2, <4>2, ListFacts
      <4> QED BY <2>2, <4>2, <4>3
    <3>2. \A d \in Classes : d # c => slab_list'[d] = L[d]
      BY <2>2
    <3> QED BY <3>1, <3>2
  <2> QED BY <1>1, <2>1, <2>2, <2>4, <2>5, <2>6, <2>7, <2>8
<1> QED BY <1>4, <1>5

LEMMA Step_do_slabs_newslab ==
    ASSUME IInv, NEW w \in Workers, do_slabs_newslab(w)
    PROVE  IInv'
<1>1. PICK k \in Keys, c \in Classes, p \in Pages :
        /\ do_item_alloc(w, k, c)
        /\ PageFromPool(p, c) \/ PageFromMalloc(p, c)
        /\ \E x \in ChunksOf(p, c) : TakeChunk(w, k, c, x, ChunksOf(p, c))
  BY DEF do_slabs_newslab
<1>2. PICK x \in ChunksOf(p, c) : TakeChunk(w, k, c, x, ChunksOf(p, c))
  BY <1>1
<1>3. UNCHANGED moverVars /\ UNCHANGED <<assoc, item_locks, op, victim>>
  BY DEF do_slabs_newslab
<1>4. wpc[w] \in {"idle", "alloc"}
  BY <1>1 DEF do_item_alloc
<1>5. /\ slab_list' \in Lists /\ PagesOwnedOnce' /\ mem_malloced' \in Nat
      /\ UNCHANGED mem_limit
      /\ \A d \in Classes : p \notin On(slab_list, d)
      /\ On(slab_list', c) = On(slab_list, c) \cup {p}
      /\ \A d \in Classes : d # c => On(slab_list', d) = On(slab_list, d)
      /\ \A d \in Classes : slab_list[d] # <<>> =>
           slab_list'[d] # <<>> /\ slab_list'[d][1] = slab_list[d][1]
  BY <1>1, PageGot
<1>6. PICK fresh : fresh = ChunksOf(p, c)
  OBVIOUS
<1>7. /\ fresh \subseteq Chunks
      /\ \A y \in fresh : \A d \in Classes : ~InClass(y, d)
      /\ \A y \in Chunks, d \in Classes :
           InClass(y, d)' <=> InClass(y, d) \/ (y \in fresh /\ d = c)
  BY <1>5, <1>6, NewPage
<1>8. Moving \/ mpc = "finish" =>
        slab_list'[SrcCls] # <<>> /\ slab_list'[SrcCls][1] = slab_list[SrcCls][1]
  BY <1>5 DEF MoverOK, Moving, Holding
<1>9. UNCHANGED <<assoc, item_locks, op, victim, mem_limit>>
  BY <1>3, <1>5
<1>10. TakeChunk(w, k, c, x, fresh) /\ x \in slots[c] \cup fresh
  BY <1>2, <1>6
<1>11. Takes(w, k, c, x, fresh)
  BY <1>3, <1>4, <1>5, <1>7, <1>8, <1>9, <1>10 DEF Takes
<1> QED BY <1>11, TakesStep

LEMMA Step_item_free ==
    ASSUME IInv, NEW w \in Workers, item_free(w)
    PROVE  IInv'
<1>1. PICK x, k, c, m : /\ x = victim[w] /\ k = op[w].key /\ c = item[x].slabs_clsid
                        /\ m = it[w]
  OBVIOUS
<1>2. /\ wpc[w] = "free"
      /\ slots' = [slots EXCEPT ![c] = slots[c] \cup {x}]
      /\ item' = [item EXCEPT ![x] = Freed(x)]
      /\ victim' = [victim EXCEPT ![w] = None]
      /\ item_unlock(w, m)
  BY <1>1 DEF item_free
<1>3. UNCHANGED <<slab_list, memVars>> /\ UNCHANGED <<assoc, wkey, wcls, it>>
      /\ UNCHANGED moverVars
  BY DEF item_free
<1>4. WorkerOK(w) /\ x # None /\ k \in Keys /\ item_locks[k] = w
  BY <1>1, <1>2 DEF WorkerOK
<1>5. /\ Plain(x) /\ x \in Chunks /\ item[x].refcount = 0 /\ x # new_it
      /\ ~MoverHolds(x) /\ (Holding => x # Pos) /\ c \in Classes /\ InClass(x, c) /\ Used(x)
      /\ (\A v \in Workers : it[v] # x) /\ (\A v \in Workers : victim[v] = x => v = w)
      /\ ~IsLinked(x) /\ \A d \in Classes : x \notin slots[d]
  BY <1>1, <1>4, VictimFacts DEF Plain
<1>6. /\ item' \in [Chunks -> HeaderType] /\ item'[x].it_flags = {SLABBED}
      /\ item'[x].slabs_clsid = 0 /\ \A y \in Chunks : y # x => item'[y] = item[y]
  <2>1. PICK h : h = Freed(x)
    OBVIOUS
  <2>2. h \in HeaderType /\ h.it_flags = {SLABBED} /\ h.slabs_clsid = 0
    BY <1>5, <2>1, HeaderFields DEF Freed, POOL
  <2> QED BY <1>2, <1>5, <2>1, <2>2, TypeNow
<1>7. /\ slots' \in [Classes -> SUBSET Chunks] /\ slots'[c] = slots[c] \cup {x}
      /\ \A d \in Classes : d # c => slots'[d] = slots[d]
  BY <1>2, <1>5, TypeNow
<1>8. PICK p : p = IF op[w].do = "evict" THEN "alloc" ELSE IF m = None THEN "idle" ELSE "using"
  OBVIOUS
<1>9. PICK j, b : j = wkey[w] /\ b = wcls[w]
  OBVIOUS
<1>10. /\ wpc' = [wpc EXCEPT ![w] = p] /\ op' = [op EXCEPT ![w] = NoOp]
       /\ item_locks' = [item_locks EXCEPT ![k] = None]
  BY <1>1, <1>2, <1>8 DEF item_unlock
<1>11. Work(w, p, NoOp, m, None, j, b) /\ WorkArgs(p, NoOp, m, None, j, b)
  BY <1>1, <1>2, <1>3, <1>8, <1>9, <1>10, Same, NoOps DEF Work, WorkArgs
<1>12. Worked(w, p, NoOp, m, None, j, b) /\ WorkTyped
  BY <1>11, WorkValues
<1>13. /\ item_locks' \in [Keys -> Workers \cup {Mover, None}]
       /\ \A l \in Keys : l # k => item_locks'[l] = item_locks[l]
  BY <1>4, <1>10, TypeNow
<1>14. TypeOK'
  BY <1>3, <1>6, <1>7, <1>12, <1>13, TypeNow, TypeThen DEF WorkTyped, moverVars, memVars
<1>15. /\ wpc'[w] = p /\ op'[w] = NoOp /\ it'[w] = m /\ victim'[w] = None /\ wkey'[w] = j
       /\ wcls'[w] = b
       /\ \A v \in Workers : v # w =>
            /\ wpc'[v] = wpc[v] /\ op'[v] = op[v] /\ wkey'[v] = wkey[v]
            /\ wcls'[v] = wcls[v] /\ it'[v] = it[v] /\ victim'[v] = victim[v]
  BY <1>12 DEF Worked
<1>16. \A y \in Chunks : Plain(y) /\ y # x => item'[y] = item[y]
  BY <1>6
<1>17. \A v \in Workers : v # w => Stands(v)
  <2> SUFFICES ASSUME NEW v \in Workers, v # w PROVE Stands(v)
    OBVIOUS
  <2>1. it[v] # None => item'[it[v]] = item[it[v]]
    BY <1>5, <1>6, HeldFacts DEF Plain
  <2>2. victim[v] # None => item'[victim[v]] = item[victim[v]]
    BY <1>5, <1>6, VictimFacts DEF Plain
  <2>3. HasNew(v) => /\ (LINKED \in item'[it[v]].it_flags) => IsLinked(it[v])
                     /\ \A u \in Workers : u # v => it'[u] # it[v]
    <3> SUFFICES ASSUME HasNew(v)
                 PROVE  /\ (LINKED \in item'[it[v]].it_flags) => IsLinked(it[v])
                        /\ \A u \in Workers : u # v => it'[u] # it[v]
      OBVIOUS
    <3>1. it[v] \in Chunks /\ \A u \in Workers : it[u] = it[v] => u = v
      BY NewItems
    <3>2. it[v] # None
      BY <3>1, Constants
    <3> QED BY <1>3, <2>1, <3>1, <3>2 DEF IsLinked
  <2>4. \A l \in Keys : item_locks[l] = v => item_locks'[l] = v
    BY <1>4, <1>13
  <2> QED BY <1>15, <2>1, <2>2, <2>3, <2>4 DEF Stands
<1>18. WorkerOK(w)'
  <2>1. op'[w].do = "none"
    BY <1>15, NoOps
  <2>2. op[w].do = "evict" => it[w] = None /\ wkey[w] \in Keys /\ wcls[w] \in Classes
    BY <1>4 DEF WorkerOK
  <2> QED BY <1>1, <1>8, <1>9, <1>15, <2>1, <2>2 DEF WorkerOK, HasNew
<1>19. \A v \in Workers : WorkerOK(v)'
  BY <1>17, <1>18, Bystander
<1>20. UNCHANGED <<slab_rebal, new_it, mpc>>
  BY <1>3 DEF moverVars
<1>21. \A y \in Chunks, d \in Classes : InClass(y, d)' <=> InClass(y, d)
  BY <1>3 DEF InClass
<1>22. Watches
  <2>1. \A y \in Chunks : (Holding /\ y = Pos) \/ y = new_it => item'[y] = item[y]
    BY <1>5, <1>6
  <2>2. \A y \in Chunks : IsCleared(y) => item'[y] = item[y]
    BY <1>5, <1>6, Kinds
  <2>3. Moving \/ mpc = "finish" =>
          slab_list'[SrcCls] # <<>> /\ slab_list'[SrcCls][1] = slab_list[SrcCls][1]
    BY <1>3 DEF MoverOK
  <2>4. \A l \in Keys : item_locks[l] = Mover => item_locks'[l] = Mover
    BY <1>4, <1>13, Constants
  <2>5. Holding => \A v \in Workers : it'[v] # Pos
    BY <1>3 DEF MoverOK
  <2>6. \A y \in Chunks : InClass(y, SrcCls) => InClass(y, SrcCls)'
    BY <1>3, <1>20 DEF InClass, SrcCls
  <2> QED BY <1>3, <2>1, <2>2, <2>3, <2>4, <2>5, <2>6 DEF Watches
<1>23. MoverOK' /\ SweptClear'
  BY <1>22, MoverSame
<1>24. \A y \in Chunks : (MoverHolds(y)' <=> MoverHolds(y)) /\ (InRange(y)' <=> InRange(y))
  BY <1>20 DEF MoverHolds, Pos, InRange
<1>25. ASSUME NEW d \in Classes, NEW y \in Chunks, InClass(y, d)'
       PROVE  Fate(y, d)
  <2>1. CASE y = x
    <3>1. d = c
      BY <1>5, <1>21, <1>25, <2>1, OneClass
    <3>2. IsFree(x)' /\ x \in slots'[c] /\ item'[x].slabs_clsid = 0
      BY <1>6, <1>7 DEF IsFree
    <3> QED BY <2>1, <3>1, <3>2 DEF Fate
  <2>2. CASE y # x
    <3>1. InClass(y, d) /\ item'[y] = item[y] /\ (y \in slots'[d] <=> y \in slots[d])
      BY <1>6, <1>7, <1>21, <1>25, <2>2
    <3>2. Count(y)' = Count(y)
      BY <1>3, CountNow
    <3>3. Freeing(y) => Freeing(y)'
      BY <1>1, <1>15, <2>2 DEF Freeing
    <3>4. Left(y, d)
      BY <1>20, <1>24, <3>1, <3>2, <3>3 DEF Left
    <3> QED BY <3>1, <3>4, FateLeft
  <2> QED BY <2>1, <2>2
<1>26. \A d \in Classes : \A y \in slots'[d] : InClass(y, d)'
  <2>1. \A d \in Classes : \A y \in slots[d] : InClass(y, d) /\ y \in Chunks
    BY Typed DEF ChunksAccounted
  <2> QED BY <1>5, <1>7, <1>21, <2>1
<1>27. \A y \in Chunks : (\A d \in Classes : ~InClass(y, d)') =>
         item'[y].refcount = 0 /\ ~IsLinked(y)'
  BY <1>5, <1>6, <1>21 DEF Headers, IsLinked
<1>28. \A y \in Chunks : Plain(y) /\ y # x => ItemThen(y)
  <2> SUFFICES ASSUME NEW y \in Chunks, Plain(y), y # x PROVE ItemThen(y)
    OBVIOUS
  <2>1. PICK d \in Classes : d = item[y].slabs_clsid /\ InClass(y, d) /\ Used(y)
    BY DEF Plain
  <2> QED BY <1>6, <1>21, <2>1 DEF ItemThen, Used
<1>29. \A v \in Workers : \A y \in Chunks : y = it'[v] \/ y = victim'[v] => ItemThen(y)
  <2>1. \A v \in Workers : \A y \in Chunks : y = it[v] \/ (v # w /\ y = victim[v]) =>
                             Plain(y) /\ y # x
    BY <1>5, HeldFacts, VictimFacts, Constants
  <2>2. \A v \in Workers : \A y \in Chunks : y = victim'[v] => v # w /\ y = victim[v]
    BY <1>15, Constants
  <2> QED BY <1>3, <1>28, <2>1, <2>2
<1>30. \A j2 \in Keys : assoc'[j2] # None =>
         \E y \in Chunks : assoc'[j2] = y /\ ItemThen(y) /\ item'[y].key = j2 /\ IsLinked(y)'
  <2> SUFFICES ASSUME NEW i \in Keys, assoc[i] # None
               PROVE  \E y \in Chunks : /\ assoc'[i] = y /\ ItemThen(y) /\ item'[y].key = i
                                        /\ IsLinked(y)'
    BY <1>3
  <2>1. PICK y \in Chunks : y = assoc[i] /\ Plain(y) /\ item[y].key = i /\ IsLinked(y)
    BY TableFacts DEF Plain
  <2>2. y # x /\ item'[y] = item[y]
    BY <1>5, <1>6, <2>1
  <2> QED BY <1>3, <1>28, <2>1, <2>2 DEF IsLinked
<1>31. \A d \in Classes, y \in Chunks : InClass(y, d)' /\ IsLinked(y)' =>
         assoc'[item'[y].key] = y
  <2> SUFFICES ASSUME NEW d \in Classes, NEW y \in Chunks, InClass(y, d)', IsLinked(y)'
               PROVE  assoc'[item'[y].key] = y
    OBVIOUS
  <2>1. y # x
    BY <1>6, Flags DEF IsLinked
  <2>2. item'[y] = item[y] /\ InClass(y, d)
    BY <1>6, <1>21, <2>1
  <2> QED BY <1>3, <2>2 DEF NoDanglingItem, IsLinked
<1>32. PagesOwnedOnce'
  BY <1>3, SamePages
<1> QED BY <1>14, <1>19, <1>23, <1>25, <1>26, <1>27, <1>29, <1>30, <1>31, <1>32, Assemble

\* A step after which the items, the freelists and the workers are as before.
LEMMA Still ==
    ASSUME IInv, TypeOK', PagesOwnedOnce', MoverOK', SweptClear',
           UNCHANGED <<item, slots, assoc, item_locks>>, UNCHANGED workVars,
           \A y \in Chunks, d \in Classes : InClass(y, d)' <=> InClass(y, d),
           \A y \in Chunks : /\ MoverHolds(y)' <=> MoverHolds(y)
                             /\ y = new_it => y = new_it'
                             /\ InRange(y) => InRange(y)'
    PROVE  IInv'
<1>1. UNCHANGED <<wpc, op, wkey, wcls, it, victim>>
  BY DEF workVars
<1>2. \A v \in Workers : Stands(v)
  <2>1. \A v \in Workers : HasNew(v) => \A u \in Workers : u # v => it[u] # it[v]
    BY DEF WorkerOK
  <2> QED BY <1>1, <2>1 DEF Stands, IsLinked
<1>3. \A v \in Workers : WorkerOK(v)'
  BY <1>2, Bystander
<1>4. \A d \in Classes, y \in Chunks : InClass(y, d)' => Fate(y, d)
  <2> SUFFICES ASSUME NEW d \in Classes, NEW y \in Chunks, InClass(y, d) PROVE Fate(y, d)
    OBVIOUS
  <2>1. Count(y)' = Count(y)
    BY <1>1, CountNow
  <2>2. Freeing(y) => Freeing(y)'
    BY <1>1 DEF Freeing
  <2>3. Left(y, d)
    BY <2>1, <2>2 DEF Left
  <2> QED BY <2>3, FateLeft
<1>5. \A d \in Classes : \A y \in slots'[d] : InClass(y, d)'
  BY Typed DEF ChunksAccounted
<1>6. \A y \in Chunks : (\A d \in Classes : ~InClass(y, d)') =>
         item'[y].refcount = 0 /\ ~IsLinked(y)'
  BY DEF Headers, IsLinked
<1>7. \A y \in Chunks : Plain(y) => ItemThen(y)
  <2> SUFFICES ASSUME NEW y \in Chunks, Plain(y) PROVE ItemThen(y)
    OBVIOUS
  <2>1. PICK d \in Classes : d = item[y].slabs_clsid /\ InClass(y, d) /\ Used(y)
    BY DEF Plain
  <2> QED BY <2>1 DEF ItemThen, Used
<1>8. \A v \in Workers : \A y \in Chunks : y = it'[v] \/ y = victim'[v] => ItemThen(y)
  <2>1. \A v \in Workers : \A y \in Chunks : y = it[v] \/ y = victim[v] => Plain(y)
    BY HeldFacts, VictimFacts, Constants
  <2> QED BY <1>1, <1>7, <2>1
<1>9. \A k \in Keys : assoc'[k] # None =>
         \E y \in Chunks : assoc'[k] = y /\ ItemThen(y) /\ item'[y].key = k /\ IsLinked(y)'
  BY <1>7, TableFacts DEF Plain, IsLinked
<1>10. \A d \in Classes, y \in Chunks : InClass(y, d)' /\ IsLinked(y)' =>
         assoc'[item'[y].key] = y
  BY DEF NoDanglingItem, IsLinked
<1> QED BY <1>3, <1>4, <1>5, <1>6, <1>8, <1>9, <1>10, Assemble

LEMMA Step_slabs_adjust_mem_limit ==
    ASSUME IInv, slabs_adjust_mem_limit
    PROVE  IInv'
<1>1. PICK l, n :
        /\ l \in Limits /\ n = Released(slab_list[POOL], mem_malloced, l)
        /\ mem_limit' = l
        /\ mem_malloced' = mem_malloced - n
        /\ slab_list' = [slab_list EXCEPT
                           ![POOL] = SubSeq(slab_list[POOL], 1, Len(slab_list[POOL]) - n)]
  BY DEF slabs_adjust_mem_limit
<1> l \in Limits
  BY <1>1
<1>2. UNCHANGED <<item, slots, assoc, item_locks>> /\ UNCHANGED workVars /\ UNCHANGED moverVars
  BY DEF slabs_adjust_mem_limit
<1>3. PICK L : L = slab_list /\ L \in Lists /\ Once(L) /\ Cardinality(All(L)) <= mem_malloced
  BY TypeNow, PagesNow DEF Bought
<1>4. l \in Nat /\ mem_malloced \in Nat /\ POOL \in Classes \cup {POOL}
  BY LimitAssumption, TypeNow
<1>5. n \in 0 .. Len(L[POOL])
  BY <1>1, <1>3, <1>4, ListFacts, ReleasedFew
<1>6. slab_list' = Cut(L, POOL, n)
  BY <1>1, <1>3 DEF Cut
<1>7. Bought(slab_list', mem_malloced') /\ mem_malloced' \in Nat
  BY <1>1, <1>3, <1>4, <1>5, <1>6, TakenCount
<1>8. slab_list' \in Lists /\ \A d \in Classes \cup {POOL} : d # POOL => slab_list'[d] = L[d]
  BY <1>3, <1>4, <1>5, <1>6, TakeLast
<1>9. \A d \in Classes : slab_list'[d] = slab_list[d]
  BY <1>3, <1>8, Constants
<1>10. PagesOwnedOnce'
  BY <1>7, <1>8, PagesThen
<1>11. TypeOK'
  BY <1>1, <1>2, <1>4, <1>7, <1>8, TypeNow, TypeThen DEF workVars, moverVars
<1>12. \A y \in Chunks, d \in Classes : InClass(y, d)' <=> InClass(y, d)
  BY <1>9 DEF InClass
<1>13. UNCHANGED <<slab_rebal, new_it, mpc>> /\ UNCHANGED <<wpc, op, wkey, wcls, it, victim>>
  BY <1>2 DEF moverVars, workVars
<1>14. Watches
  <2>1. Moving \/ mpc = "finish" =>
          slab_list'[SrcCls] # <<>> /\ slab_list'[SrcCls][1] = slab_list[SrcCls][1]
    BY <1>9 DEF MoverOK, Moving, Holding
  <2>2. Holding => \A v \in Workers : it'[v] # Pos
    BY <1>13 DEF MoverOK
  <2>3. \A y \in Chunks : y = new_it => InClass(y, SrcCls)'
    <3>1. PICK s : s = SrcCls /\ s = SrcCls'
      BY <1>13 DEF SrcCls
    <3>2. \A y \in Chunks : y = new_it => InClass(y, s) /\ s \in Classes
      BY <3>1, Constants DEF MoverOK
    <3>3. \A y \in Chunks : y = new_it => InClass(y, s)'
      BY <1>12, <3>2
    <3> QED BY <3>1, <3>3 DEF InClass
  <2> QED BY <1>2, <2>1, <2>2, <2>3 DEF Watches
<1>15. MoverOK' /\ SweptClear'
  BY <1>14, MoverSame
<1>16. \A y \in Chunks : /\ MoverHolds(y)' <=> MoverHolds(y)
                         /\ y = new_it => y = new_it'
                         /\ InRange(y) => InRange(y)'
  BY <1>13 DEF MoverHolds, Pos, InRange
<1> QED BY <1>2, <1>10, <1>11, <1>12, <1>15, <1>16, Still

-----------------------------------------------------------------------------
(* The mover's steps.                                                      *)

\* The mover's record u after it has gone on from s, to chunk n.
GoneOn(s, u, n, b) == /\ u \in RebalType /\ u.slab_pos = n /\ u.busy_items = b
                      /\ u.s_clsid = s.s_clsid /\ u.d_clsid = s.d_clsid
                      /\ u.slab_start = s.slab_start


\* The end of slab_rebalance_move.
LEMMA AdvanceStep ==
    ASSUME IInv, NEW busy \in BOOLEAN, Advance(busy), mpc \in {"move", "trylock", "advance"},
           UNCHANGED <<slab_list, new_it>>,
           \/ busy
           \/ slab_rebal.busy_items
           \/ \A i \in 1 .. slab_rebal.slab_pos :
                item'[<<slab_rebal.slab_start, i>>].it_flags = {SLABBED, FETCHED}
    PROVE  /\ slab_rebal' \in RebalType /\ mpc' \in {"move", "finish"}
           /\ slab_rebal'.slab_start = slab_rebal.slab_start
           /\ MoverOK' /\ SweptClear'
<1>1. PICK s, q, c, m : /\ s = slab_rebal /\ q = slab_rebal.slab_pos /\ c = SrcCls
                        /\ m = PerSlab[c]
  OBVIOUS
<1>2. /\ s \in RebalType /\ s.busy_items \in BOOLEAN /\ s.busy_loops \in 0 .. MaxLoops + 1
      /\ s.slab_pos = q
  BY <1>1, RebalTyped
<1>3. /\ c \in Classes /\ c # s.d_clsid /\ s.slab_start \in Pages /\ slab_list[c] # <<>>
      /\ slab_list[c][1] = s.slab_start /\ q \in 1 .. m /\ new_it = None
      /\ m \in Nat /\ q \in Nat
  <2>1. Moving /\ mpc \notin {"wait", "exited", "rescue"}
    BY DEF Moving
  <2>2. /\ SrcCls \in Classes /\ SrcCls # slab_rebal.d_clsid /\ slab_rebal.slab_start \in Pages
        /\ slab_list[SrcCls] # <<>> /\ slab_list[SrcCls][1] = slab_rebal.slab_start
        /\ slab_rebal.slab_pos \in 1 .. PerSlab[SrcCls] /\ new_it = None
    BY <2>1 DEF MoverOK
  <2>3. m \in Nat
    BY <1>1, <2>2, Constants
  <2> QED BY <1>1, <2>2, <2>3
<1>4. PICK again \in BOOLEAN : again <=> (busy \/ s.busy_items)
  OBVIOUS
<1>5. again \/ \A i \in 1 .. q : item'[<<s.slab_start, i>>].it_flags = {SLABBED, FETCHED}
  BY <1>1, <1>4
<1>6. MaxLoops \in Nat
  BY LimitAssumption
<1>7. CASE q < m
  <2>1. slab_rebal' = [s EXCEPT !.slab_pos = q + 1, !.busy_items = again] /\ mpc' = "move"
    <3>1. /\ slab_rebal' = [s EXCEPT !.slab_pos = @ + 1, !.busy_items = busy \/ s.busy_items]
          /\ mpc' = "move"
      BY <1>1, <1>7 DEF Advance
    <3>2. (busy \/ s.busy_items) = again
      BY <1>2, <1>4, Zenon
    <3> QED BY <1>2, <3>1, <3>2
  <2>2. PICK u : u = slab_rebal' /\ u = [s EXCEPT !.slab_pos = q + 1, !.busy_items = again]
    BY <2>1
  <2>3. /\ u \in RebalType /\ u.slab_pos = q + 1 /\ u.busy_items = again
        /\ u.s_clsid = s.s_clsid /\ u.d_clsid = s.d_clsid /\ u.slab_start = s.slab_start
    <3>1. q + 1 \in Nat
      BY <1>3
    <3>2. GoneOn(s, u, q + 1, again)
      <4>1. s \in RebalType /\ u = [s EXCEPT !.slab_pos = q + 1, !.busy_items = again]
        BY <1>2, <2>2
      <4> QED BY ONLY <3>1, <4>1, again \in BOOLEAN DEF RebalType, GoneOn
    <3> QED BY <3>2 DEF GoneOn
  <2>4. q + 1 \in 1 .. m /\ q + 1 - 1 = q
    BY <1>3, <1>7
  <2>5. MoverOK'
    BY <1>1, <1>3, <2>1, <2>2, <2>3, <2>4 DEF MoverOK, SrcCls, Holding, Moving
  <2>6. SweptClear'
    <3>1. Swept' = q
      <4>1. mpc' # "finish" /\ mpc' # "advance" /\ slab_rebal'.slab_pos - 1 = q
        <5>1. slab_rebal' = u /\ u.slab_pos = q + 1 /\ mpc' = "move"
          BY <2>1, <2>2, <2>3
        <5>2. slab_rebal'.slab_pos = q + 1
          BY ONLY <5>1
        <5>3. PICK z : z = slab_rebal'.slab_pos
          OBVIOUS
        <5>4. z = q + 1 /\ q \in Nat
          BY <1>3, <5>2, <5>3
        <5>5. z - 1 = q
          BY ONLY <5>4
        <5> QED BY <5>1, <5>3, <5>5
      <4> QED BY <4>1 DEF Swept
    <3> QED BY <1>5, <2>1, <2>2, <2>3, <3>1 DEF SweptClear, IsCleared
  <2> QED BY <1>1, <2>1, <2>2, <2>3, <2>5, <2>6
<1>8. CASE ~(q < m) /\ again
  <2>1. PICK l \in 0 .. MaxLoops + 1 :
          l = IF s.busy_loops > MaxLoops THEN s.busy_loops ELSE s.busy_loops + 1
    BY <1>2, <1>6
  <2>2. /\ slab_rebal' = [s EXCEPT !.slab_pos = 1, !.busy_items = FALSE, !.busy_loops = l]
        /\ mpc' = "move"
    BY <1>1, <1>4, <1>8, <2>1 DEF Advance
  <2>3. PICK u : u = slab_rebal'
                 /\ u = [s EXCEPT !.slab_pos = 1, !.busy_items = FALSE, !.busy_loops = l]
    BY <2>2
  <2>4. /\ u \in RebalType /\ u.slab_pos = 1 /\ u.busy_items = FALSE
        /\ u.s_clsid = s.s_clsid /\ u.d_clsid = s.d_clsid /\ u.slab_start = s.slab_start
    <3>1. GoneOn(s, u, 1, FALSE)
      <4>1. /\ s \in RebalType
            /\ u = [s EXCEPT !.slab_pos = 1, !.busy_items = FALSE, !.busy_loops = l]
        BY <1>2, <2>3
      <4> QED BY ONLY <4>1, l \in 0 .. MaxLoops + 1 DEF RebalType, GoneOn
    <3> QED BY <3>1 DEF GoneOn
  <2>5. 1 \in 1 .. m /\ 1 - 1 = 0
    BY <1>3
  <2>6. MoverOK'
    BY <1>1, <1>3, <2>2, <2>3, <2>4, <2>5 DEF MoverOK, SrcCls, Holding, Moving
  <2>7. SweptClear'
    <3>1. Swept' = 0
      BY <2>2, <2>3, <2>4, <2>5 DEF Swept
    <3> QED BY <2>2, <3>1 DEF SweptClear
  <2> QED BY <1>1, <2>2, <2>3, <2>4, <2>6, <2>7
<1>9. CASE ~(q < m) /\ ~again
  <2>1. slab_rebal' = s /\ mpc' = "finish" /\ q = m
    BY <1>1, <1>3, <1>4, <1>9 DEF Advance
  <2>2. MoverOK'
    BY <1>1, <1>3, <2>1 DEF MoverOK, SrcCls, Holding, Moving
  <2>3. SweptClear'
    <3>1. Swept' = m
      BY <1>1, <2>1 DEF Swept, SrcCls
    <3> QED BY <1>1, <1>5, <1>9, <2>1, <3>1 DEF SweptClear, IsCleared
  <2> QED BY <1>1, <1>2, <2>1, <2>2, <2>3
<1> QED BY <1>7, <1>8, <1>9

\* A step of the mover on the chunks of T, with the workers as they were.
Handles(T) ==
    /\ UNCHANGED workVars /\ T \subseteq Chunks
    /\ \A y \in Chunks \ T :
         /\ item'[y] = item[y] /\ (MoverHolds(y)' <=> MoverHolds(y))
         /\ (y = new_it => y = new_it') /\ (InRange(y) => InRange(y)')
         /\ \A d \in Classes : /\ InClass(y, d)' <=> InClass(y, d)
                               /\ y \in slots'[d] <=> y \in slots[d]
    /\ \A y \in T : /\ \A d \in Classes : /\ InClass(y, d)' => Fate(y, d)
                                          /\ y \in slots'[d] => InClass(y, d)'
                    /\ (\A d \in Classes : ~InClass(y, d)') =>
                         item'[y].refcount = 0 /\ ~IsLinked(y)'
                    /\ \A d \in Classes : InClass(y, d)' /\ IsLinked(y)' =>
                         assoc'[item'[y].key] = y
    /\ \A v \in Workers : \A y \in T :
         /\ victim[v] # y
         /\ it[v] = y => /\ ItemThen(y) /\ item'[y].key = item[y].key
                         /\ IsLinked(y)' => IsLinked(y)
    /\ \A k \in Keys : item_locks[k] \in Workers => item_locks'[k] = item_locks[k]
    /\ \A k \in Keys : /\ assoc[k] # None /\ assoc[k] \notin T => assoc'[k] = assoc[k]
                       /\ assoc'[k] # None =>
                            \/ assoc'[k] = assoc[k] /\ assoc[k] \notin T
                            \/ \E y \in T : /\ assoc'[k] = y /\ ItemThen(y)
                                            /\ item'[y].key = k /\ IsLinked(y)'
LEMMA MoverStepOn ==
    ASSUME IInv, TypeOK', PagesOwnedOnce', MoverOK', SweptClear', NEW T, Handles(T)
    PROVE  IInv'
<1>1. UNCHANGED <<wpc, op, wkey, wcls, it, victim>>
  BY DEF workVars, Handles
<1>2. \A y \in Chunks : y \notin T =>
         /\ item'[y] = item[y] /\ (MoverHolds(y)' <=> MoverHolds(y))
         /\ (y = new_it => y = new_it') /\ (InRange(y) => InRange(y)')
         /\ \A d \in Classes : /\ InClass(y, d)' <=> InClass(y, d)
                               /\ y \in slots'[d] <=> y \in slots[d]
  BY DEF Handles
<1>3. /\ T \subseteq Chunks
      /\ \A y \in T : /\ \A d \in Classes : /\ InClass(y, d)' => Fate(y, d)
                                            /\ y \in slots'[d] => InClass(y, d)'
                      /\ (\A d \in Classes : ~InClass(y, d)') =>
                           item'[y].refcount = 0 /\ ~IsLinked(y)'
                      /\ \A d \in Classes : InClass(y, d)' /\ IsLinked(y)' =>
                           assoc'[item'[y].key] = y
  BY DEF Handles
<1>4. \A v \in Workers : \A y \in T :
         /\ victim[v] # y
         /\ it[v] = y => /\ ItemThen(y) /\ item'[y].key = item[y].key
                         /\ IsLinked(y)' => IsLinked(y)
  BY DEF Handles
<1>5. \A v \in Workers : Stands(v)
  <2> SUFFICES ASSUME NEW v \in Workers PROVE Stands(v)
    OBVIOUS
  <2>1. it[v] \in Chunks \cup {None} /\ victim[v] \in Chunks \cup {None}
    BY Typed
  <2>2. it[v] # None => item'[it[v]].key = item[it[v]].key
    BY <1>2, <1>4, <2>1
  <2>3. victim[v] # None => item'[victim[v]] = item[victim[v]]
    BY <1>2, <1>4, <2>1
  <2>4. HasNew(v) => /\ (LINKED \in item'[it[v]].it_flags) => IsLinked(it[v])
                     /\ \A u \in Workers : u # v => it'[u] # it[v]
    <3> SUFFICES ASSUME HasNew(v)
                 PROVE  /\ (LINKED \in item'[it[v]].it_flags) => IsLinked(it[v])
                        /\ \A u \in Workers : u # v => it'[u] # it[v]
      OBVIOUS
    <3>1. PICK x \in Chunks : x = it[v] /\ \A u \in Workers : it[u] = x => u = v
      BY NewItems
    <3>2. IsLinked(x)' => IsLinked(x)
      BY <1>2, <1>4, <3>1 DEF IsLinked
    <3> QED BY <1>1, <3>1, <3>2 DEF IsLinked
  <2>5. \A k \in Keys : item_locks[k] = v => item_locks'[k] = v
    BY DEF Handles
  <2> QED BY <1>1, <2>2, <2>3, <2>4, <2>5 DEF Stands
<1>6. \A v \in Workers : WorkerOK(v)'
  BY <1>5, Bystander
<1>7. \A d \in Classes, y \in Chunks : InClass(y, d)' => Fate(y, d)
  <2> SUFFICES ASSUME NEW d \in Classes, NEW y \in Chunks, InClass(y, d)' PROVE Fate(y, d)
    OBVIOUS
  <2>1. CASE y \in T
    BY <1>3, <2>1
  <2>2. CASE y \notin T
    <3>1. Count(y)' = Count(y)
      BY <1>1, CountNow
    <3>2. Freeing(y) => Freeing(y)'
      BY <1>1 DEF Freeing
    <3>3. Left(y, d) /\ InClass(y, d)
      BY <1>2, <2>2, <3>1, <3>2 DEF Left
    <3> QED BY <3>3, FateLeft
  <2> QED BY <2>1, <2>2
<1>8. \A d \in Classes : \A y \in slots'[d] : InClass(y, d)'
  <2> SUFFICES ASSUME NEW d \in Classes, NEW y \in slots'[d] PROVE InClass(y, d)'
    OBVIOUS
  <2>1. y \in Chunks
    BY DEF TypeOK
  <2>2. CASE y \in T
    BY <1>3, <2>2
  <2>3. CASE y \notin T
    BY <1>2, <2>1, <2>3 DEF ChunksAccounted
  <2> QED BY <2>2, <2>3
<1>9. \A y \in Chunks : (\A d \in Classes : ~InClass(y, d)') =>
         item'[y].refcount = 0 /\ ~IsLinked(y)'
  <2> SUFFICES ASSUME NEW y \in Chunks, \A d \in Classes : ~InClass(y, d)'
               PROVE  item'[y].refcount = 0 /\ ~IsLinked(y)'
    OBVIOUS
  <2>1. CASE y \in T
    BY <1>3, <2>1
  <2>2. CASE y \notin T
    <3>1. item'[y] = item[y] /\ \A d \in Classes : ~InClass(y, d)
      BY <1>2, <2>2
    <3> QED BY <3>1 DEF Headers, IsLinked
  <2> QED BY <2>1, <2>2
<1>10. \A y \in Chunks : Plain(y) /\ y \notin T => ItemThen(y)
  <2> SUFFICES ASSUME NEW y \in Chunks, Plain(y), y \notin T PROVE ItemThen(y)
    OBVIOUS
  <2>1. PICK d \in Classes : d = item[y].slabs_clsid /\ InClass(y, d) /\ Used(y)
    BY DEF Plain
  <2>2. item'[y] = item[y] /\ InClass(y, d)'
    BY <1>2, <2>1
  <2> QED BY <2>1, <2>2 DEF ItemThen, Used
<1>11. \A v \in Workers : \A y \in Chunks : y = it'[v] \/ y = victim'[v] => ItemThen(y)
  <2>1. \A v \in Workers : \A y \in Chunks : y = it[v] \/ y = victim[v] => Plain(y)
    BY HeldFacts, VictimFacts, Constants
  <2> QED BY <1>1, <1>4, <1>10, <2>1
<1>12. \A k \in Keys : assoc'[k] # None =>
         \E y \in Chunks : assoc'[k] = y /\ ItemThen(y) /\ item'[y].key = k /\ IsLinked(y)'
  <2> SUFFICES ASSUME NEW k \in Keys, assoc'[k] # None
               PROVE  \E y \in Chunks : /\ assoc'[k] = y /\ ItemThen(y) /\ item'[y].key = k
                                        /\ IsLinked(y)'
    OBVIOUS
  <2>1. CASE assoc'[k] = assoc[k] /\ assoc[k] \notin T
    <3>1. PICK y \in Chunks : /\ y = assoc[k] /\ Plain(y) /\ item[y].key = k /\ IsLinked(y)
                              /\ y \notin T
      BY <2>1, TableFacts DEF Plain
    <3>2. item'[y] = item[y]
      BY <1>2, <3>1
    <3> QED BY <1>10, <2>1, <3>1, <3>2 DEF IsLinked
  <2>2. CASE \E y \in T : /\ assoc'[k] = y /\ ItemThen(y) /\ item'[y].key = k /\ IsLinked(y)'
    BY <1>3, <2>2
  <2> QED BY <2>1, <2>2 DEF Handles
<1>13. \A d \in Classes, y \in Chunks : InClass(y, d)' /\ IsLinked(y)' =>
         assoc'[item'[y].key] = y
  <2> SUFFICES ASSUME NEW d \in Classes, NEW y \in Chunks, InClass(y, d)', IsLinked(y)'
               PROVE  assoc'[item'[y].key] = y
    OBVIOUS
  <2>1. CASE y \in T
    BY <1>3, <2>1
  <2>2. CASE y \notin T
    <3>1. item'[y] = item[y] /\ InClass(y, d) /\ IsLinked(y)
      BY <1>2, <2>2 DEF IsLinked
    <3>2. PICK k : k = item[y].key /\ assoc[k] = y
      BY <3>1 DEF NoDanglingItem, IsLinked
    <3>3. k \in Keys
      <4>1. Used(y) /\ y # new_it
        BY <3>1, Constants DEF Headers, MoverOK
      <4> QED BY <3>1, <3>2, <4>1 DEF Headers
    <3>4. assoc'[k] = assoc[k]
      BY <2>2, <3>2, <3>3, Constants DEF Handles
    <3> QED BY <3>1, <3>2, <3>4
  <2> QED BY <2>1, <2>2
<1> QED BY <1>6, <1>7, <1>8, <1>9, <1>11, <1>12, <1>13, Assemble

LEMMA MoverTypes ==
    ASSUME TypeOK, UNCHANGED workVars, UNCHANGED <<slab_list, memVars>>,
           slots' \in [Classes -> SUBSET Chunks], item' \in [Chunks -> HeaderType],
           assoc' \in [Keys -> Chunks \cup {None}],
           item_locks' \in [Keys -> Workers \cup {Mover, None}],
           slab_rebal' \in RebalType, new_it' \in Chunks \cup {None},
           mpc' \in {"wait", "start", "move", "trylock", "rescue", "evict", "slabs_free",
                     "advance", "finish", "exited"}
    PROVE  TypeOK'
BY TypeNow, TypeThen DEF workVars, memVars

\* Between two moves of items the mover has none.
LEMMA Unheld ==
    ASSUME IInv, ~Holding, new_it' = new_it, mpc' \notin {"rescue", "evict", "slabs_free"}
    PROVE  \A y \in Chunks : ~MoverHolds(y) /\ ~MoverHolds(y)' /\ y # new_it /\ y # new_it'
<1>1. new_it = None
  BY DEF MoverOK, Holding
<1> QED BY <1>1, Constants DEF MoverHolds, Holding

\* The mover goes on and touches nothing.
LEMMA QuietMover ==
    ASSUME IInv, UNCHANGED <<item, slots, assoc, item_locks>>, UNCHANGED workVars,
           UNCHANGED <<slab_list, memVars>>, new_it' = new_it, ~Holding,
           slab_rebal' \in RebalType,
           mpc' \in {"wait", "start", "move", "trylock", "advance", "finish", "exited"},
           slab_rebal.slab_start # None => slab_rebal'.slab_start = slab_rebal.slab_start,
           MoverOK', SweptClear'
    PROVE  IInv'
<1>1. \A y \in Chunks : ~MoverHolds(y) /\ ~MoverHolds(y)' /\ y # new_it /\ y # new_it'
  BY Unheld
<1>2. TypeOK'
  BY TypeNow, MoverTypes
<1>3. PagesOwnedOnce'
  BY SamePages
<1>4. \A y \in Chunks, d \in Classes : InClass(y, d)' <=> InClass(y, d)
  BY DEF InClass
<1>5. \A y \in Chunks : InRange(y) => InRange(y)'
  <2>1. \A y \in Chunks : y[1] # None
    BY ChunkFacts, Constants
  <2> QED BY <2>1 DEF InRange
<1>6. \A y \in Chunks : /\ MoverHolds(y)' <=> MoverHolds(y)
                        /\ y = new_it => y = new_it'
                        /\ InRange(y) => InRange(y)'
  BY <1>1, <1>5
<1> QED BY <1>2, <1>3, <1>4, <1>6, Still

\* The moves that are asked for take pages from classes, not from the pool.
OutOfClasses == \A m \in Moves : m \in Classes \X (Classes \cup {POOL})

LEMMA Step_slabs_reassign ==
    ASSUME OutOfClasses, IInv, slabs_reassign
    PROVE  IInv'
<1>1. PICK m \in Moves :
        /\ m[1] # m[2] /\ slab_rebal' = [slab_rebal EXCEPT !.s_clsid = m[1], !.d_clsid = m[2]]
  BY DEF slabs_reassign
<1>2. /\ UNCHANGED <<item, slots, assoc, item_locks>> /\ UNCHANGED workVars
      /\ UNCHANGED <<slab_list, memVars>> /\ new_it' = new_it
      /\ mpc = "wait" /\ mpc' = "start"
  BY DEF slabs_reassign
<1>3. PICK a \in Classes, b \in Classes \cup {POOL} : a = m[1] /\ b = m[2] /\ a # b
  BY <1>1 DEF OutOfClasses
<1>4. slab_rebal \in RebalType
  BY RebalTyped
<1>5. slab_rebal' = [slab_rebal EXCEPT !.s_clsid = a, !.d_clsid = b]
  BY <1>1, <1>3
<1>6. PICK s, u : s = slab_rebal /\ u = slab_rebal'
  OBVIOUS
<1>7. /\ u \in RebalType /\ u.s_clsid = a /\ u.d_clsid = b /\ u.slab_start = s.slab_start
      /\ u.slab_pos = s.slab_pos
  <2>1. s \in RebalType /\ u = [s EXCEPT !.s_clsid = a, !.d_clsid = b]
    BY <1>4, <1>5, <1>6
  <2> QED BY ONLY <2>1, a \in Classes, b \in Classes \cup {POOL} DEF RebalType
<1>8. s.slab_start = None /\ s.slab_pos = 1 /\ new_it = None
  BY <1>2, <1>6 DEF MoverOK
<1>9. ~Holding /\ ~Holding' /\ ~Moving'
  BY <1>2 DEF Holding, Moving
<1>10. MoverOK'
  BY <1>2, <1>3, <1>6, <1>7, <1>8, <1>9 DEF MoverOK, SrcCls
<1>11. SweptClear'
  BY <1>2, <1>9 DEF SweptClear
<1>12. slab_rebal'.slab_start = slab_rebal.slab_start /\ slab_rebal' \in RebalType
  BY <1>6, <1>7
<1> QED BY <1>2, <1>9, <1>10, <1>11, <1>12, QuietMover

LEMMA Step_stop_slab_maintenance_thread ==
    ASSUME IInv, stop_slab_maintenance_thread
    PROVE  IInv'
<1>1. /\ UNCHANGED <<item, slots, assoc, item_locks>> /\ UNCHANGED workVars
      /\ UNCHANGED <<slab_list, memVars>> /\ new_it' = new_it /\ slab_rebal' = slab_rebal
      /\ mpc = "wait" /\ mpc' = "exited"
  BY DEF stop_slab_maintenance_thread
<1>2. slab_rebal' \in RebalType
  BY <1>1, RebalTyped
<1>3. ~Holding /\ ~Holding' /\ ~Moving'
  BY <1>1 DEF Holding, Moving
<1>4. MoverOK'
  BY <1>1, <1>3 DEF MoverOK
<1>5. SweptClear'
  BY <1>1, <1>3 DEF SweptClear
<1> QED BY <1>1, <1>2, <1>3, <1>4, <1>5, QuietMover

LEMMA Step_slab_rebalance_start ==
    ASSUME IInv, slab_rebalance_start
    PROVE  IInv'
<1>1. /\ UNCHANGED <<item, slots, assoc, item_locks>> /\ UNCHANGED workVars
      /\ UNCHANGED <<slab_list, memVars>> /\ new_it' = new_it /\ mpc = "start"
  BY DEF slab_rebalance_start
<1>2. PICK s, c : s = slab_rebal /\ c = SrcCls
  OBVIOUS
<1>3. /\ s \in RebalType /\ c \in Classes /\ s.s_clsid = c /\ c # s.d_clsid
      /\ s.slab_start = None /\ s.slab_pos = 1 /\ new_it = None
  BY <1>1, <1>2, RebalTyped DEF MoverOK, SrcCls
<1>4. c # POOL
  BY <1>3, Constants
<1>5. ~Holding
  BY <1>1 DEF Holding
<1>6. CASE mpc' = "wait" /\ UNCHANGED slab_rebal
  <2>1. ~Holding' /\ ~Moving'
    BY <1>6 DEF Holding, Moving
  <2>2. MoverOK'
    BY <1>1, <1>2, <1>3, <1>6, <2>1 DEF MoverOK
  <2>3. SweptClear'
    BY <1>6, <2>1 DEF SweptClear
  <2> QED BY <1>1, <1>2, <1>3, <1>5, <1>6, <2>2, <2>3, QuietMover
<1>7. CASE ~(Len(slab_list[c]) < 2)
  <2>1. /\ slab_rebal' = [s EXCEPT !.slab_start = slab_list[c][1], !.slab_pos = 1]
        /\ mpc' = "move"
    BY <1>2, <1>3, <1>4, <1>7 DEF slab_rebalance_start, SrcCls
  <2>2. PICK p \in Pages : p = slab_list[c][1] /\ slab_list[c] # <<>>
    <3>1. slab_list[c] \in Seq(Pages) /\ Len(slab_list[c]) \in Nat
      BY <1>3, Typed, ListFacts
    <3>2. 1 \in 1 .. Len(slab_list[c]) /\ slab_list[c] # <<>>
      BY <1>7, <3>1
    <3> QED BY <3>1, <3>2
  <2>3. PICK u : u = slab_rebal' /\ u = [s EXCEPT !.slab_start = p, !.slab_pos = 1]
    BY <2>1, <2>2
  <2>4. GoneOn([s EXCEPT !.slab_start = p], u, 1, s.busy_items)
        /\ u.slab_start = p /\ u.s_clsid = s.s_clsid /\ u.d_clsid = s.d_clsid
    <3>1. s \in RebalType /\ u = [s EXCEPT !.slab_start = p, !.slab_pos = 1]
      BY <1>3, <2>3
    <3> QED BY ONLY <3>1, p \in Pages DEF RebalType, GoneOn
  <2>5. u \in RebalType /\ u.slab_pos = 1
    BY <2>4 DEF GoneOn
  <2>6. 1 \in 1 .. PerSlab[c] /\ 1 - 1 = 0
    BY <1>3, Constants
  <2>7. MoverOK'
    BY <1>1, <1>2, <1>3, <2>1, <2>2, <2>3, <2>4, <2>5, <2>6 DEF MoverOK, SrcCls, Holding, Moving
  <2>8. SweptClear'
    <3>1. Swept' = 0
      BY <2>1, <2>3, <2>5, <2>6 DEF Swept
    <3> QED BY <2>1, <3>1 DEF SweptClear
  <2>9. slab_rebal' \in RebalType
    BY <2>3, <2>5
  <2> QED BY <1>1, <1>2, <1>3, <1>5, <2>1, <2>7, <2>8, <2>9, QuietMover
<1> QED BY <1>2, <1>6, <1>7 DEF slab_rebalance_start, SrcCls

LEMMA Step_MoveLinked ==
    ASSUME IInv, MoveLinked
    PROVE  IInv'
<1>1. /\ UNCHANGED <<item, slots, assoc, item_locks>> /\ UNCHANGED workVars
      /\ UNCHANGED <<slab_list, memVars>> /\ new_it' = new_it /\ slab_rebal' = slab_rebal
      /\ mpc = "move" /\ mpc' = "trylock"
  BY DEF MoveLinked
<1>2. slab_rebal' \in RebalType
  BY <1>1, RebalTyped
<1>3. ~Holding /\ ~Holding' /\ Moving /\ Moving'
  BY <1>1 DEF Holding, Moving
<1>4. MoverOK'
  BY <1>1, <1>3 DEF MoverOK, SrcCls
<1>5. SweptClear'
  <2>1. Swept' = Swept
    BY <1>1 DEF Swept
  <2> QED BY <1>1, <1>3, <2>1 DEF SweptClear, IsCleared
<1> QED BY <1>1, <1>2, <1>3, <1>4, <1>5, QuietMover

\* What AdvanceStep needs when no chunk was busy.
LEMMA SweptOn ==
    ASSUME IInv, mpc \in {"move", "advance"}, ~slab_rebal.busy_items,
           mpc = "move" => item'[Pos].it_flags = {SLABBED, FETCHED},
           \A y \in Chunks : IsCleared(y) => item'[y] = item[y]
    PROVE  \A i \in 1 .. slab_rebal.slab_pos :
             item'[<<slab_rebal.slab_start, i>>].it_flags = {SLABBED, FETCHED}
<1> SUFFICES ASSUME NEW i \in 1 .. slab_rebal.slab_pos
             PROVE  item'[<<slab_rebal.slab_start, i>>].it_flags = {SLABBED, FETCHED}
  OBVIOUS
<1>1. Moving /\ slab_rebal.slab_pos \in Nat
  BY RebalTyped DEF Moving
<1>2. CASE i \in 1 .. Swept
  <2>1. PICK y \in Chunks : y = <<slab_rebal.slab_start, i>>
    BY <1>1, <1>2, SweptFacts
  <2>2. IsCleared(y)
    BY <1>1, <1>2, <2>1 DEF SweptClear
  <2> QED BY <2>1, <2>2 DEF IsCleared
<1>3. CASE i \notin 1 .. Swept
  <2>1. mpc = "move" /\ Swept = slab_rebal.slab_pos - 1
    BY <1>3 DEF Swept
  <2>2. i = slab_rebal.slab_pos
    BY <1>1, <1>3, <2>1
  <2> QED BY <2>1, <2>2 DEF Pos
<1> QED BY <1>2, <1>3

\* The mover goes on past a chunk that it leaves as it is.
LEMMA AdvanceOnly ==
    ASSUME IInv, NEW busy \in BOOLEAN, Advance(busy), mpc \in {"move", "trylock", "advance"},
           UNCHANGED <<item, slots, assoc, item_locks>>, UNCHANGED workVars,
           UNCHANGED <<slab_list, memVars>>, new_it' = new_it,
           busy \/ mpc = "advance" \/ (mpc = "move" /\ IsCleared(Pos))
    PROVE  IInv'
<1>1. UNCHANGED <<slab_list, new_it>>
  OBVIOUS
<1>2. \/ busy \/ slab_rebal.busy_items
      \/ \A i \in 1 .. slab_rebal.slab_pos :
           item'[<<slab_rebal.slab_start, i>>].it_flags = {SLABBED, FETCHED}
  <2>1. CASE ~busy /\ ~slab_rebal.busy_items
    <3>1. mpc = "move" => item'[Pos].it_flags = {SLABBED, FETCHED}
      BY <2>1 DEF IsCleared
    <3>2. mpc \in {"move", "advance"}
      BY <2>1
    <3> QED BY <2>1, <3>1, <3>2, SweptOn
  <2> QED BY <2>1
<1>3. /\ slab_rebal' \in RebalType /\ mpc' \in {"move", "finish"}
      /\ slab_rebal'.slab_start = slab_rebal.slab_start /\ MoverOK' /\ SweptClear'
  BY <1>1, <1>2, AdvanceStep
<1>4. ~Holding
  BY DEF Holding
<1> QED BY <1>3, <1>4, QuietMover

LEMMA Step_MoveBusy ==
    ASSUME IInv, MoveBusy
    PROVE  IInv'
<1>1. /\ UNCHANGED <<item, slots, assoc, item_locks>> /\ UNCHANGED workVars
      /\ UNCHANGED <<slab_list, memVars>> /\ new_it' = new_it /\ mpc = "trylock"
      /\ Advance(TRUE)
  BY DEF MoveBusy
<1> QED BY <1>1, AdvanceOnly

LEMMA Step_Relock ==
    ASSUME IInv, Relock
    PROVE  IInv'
<1>1. /\ UNCHANGED <<item, slots, assoc, item_locks>> /\ UNCHANGED workVars
      /\ UNCHANGED <<slab_list, memVars>> /\ new_it' = new_it /\ mpc = "advance"
      /\ Advance(FALSE)
  BY DEF Relock
<1> QED BY <1>1, AdvanceOnly

LEMMA ClearedFields ==
    /\ Cleared \in HeaderType /\ Cleared.it_flags = {SLABBED, FETCHED}
    /\ Cleared.refcount = 0 /\ Cleared.slabs_clsid = 0
BY HeaderFields DEF Cleared, POOL

LEMMA Step_MoveUnlinked ==
    ASSUME IInv, MoveUnlinked
    PROVE  IInv'
<1>1. /\ UNCHANGED <<assoc, item_locks>> /\ UNCHANGED workVars
      /\ UNCHANGED <<slab_list, memVars>> /\ new_it' = new_it /\ mpc = "move"
  BY DEF MoveUnlinked
<1>2. CASE UNCHANGED <<slots, item>> /\ Advance(FALSE) /\ IsCleared(Pos)
  BY <1>1, <1>2, AdvanceOnly
<1>3. CASE UNCHANGED <<slots, item>> /\ Advance(TRUE)
  BY <1>1, <1>3, AdvanceOnly
<1>4. CASE /\ ~IsCleared(Pos) /\ ~Used(Pos) /\ Advance(FALSE)
           /\ slots' = [slots EXCEPT ![SrcCls] = @ \ {Pos}]
           /\ item' = [item EXCEPT ![Pos] = Cleared]
  <2>1. PICK x, c : x = Pos /\ c = SrcCls
    OBVIOUS
  <2>2. Moving /\ ~Holding
    BY <1>1 DEF Moving, Holding
  <2>3. x \in Chunks /\ c \in Classes /\ InClass(x, c) /\ InRange(x)
    BY <2>1, <2>2, PosFacts
  <2>4. /\ slots' = [slots EXCEPT ![c] = slots[c] \ {x}] /\ item' = [item EXCEPT ![x] = Cleared]
    BY <1>4, <2>1
  <2>5. /\ slots' \in [Classes -> SUBSET Chunks] /\ slots'[c] = slots[c] \ {x}
        /\ \A d \in Classes : d # c => slots'[d] = slots[d]
    BY <2>3, <2>4, TypeNow
  <2>6. /\ item' \in [Chunks -> HeaderType] /\ item'[x] = Cleared
        /\ \A y \in Chunks : y # x => item'[y] = item[y]
    BY <2>3, <2>4, TypeNow, ClearedFields
  <2>7. IsFree(x) /\ ~Used(x) /\ ~IsCleared(x)
    BY <1>4, <2>1, <2>3, AccountedNow
  <2>8. \/ FALSE \/ slab_rebal.busy_items
        \/ \A i \in 1 .. slab_rebal.slab_pos :
             item'[<<slab_rebal.slab_start, i>>].it_flags = {SLABBED, FETCHED}
    <3>1. item'[Pos].it_flags = {SLABBED, FETCHED}
      BY <2>1, <2>6, ClearedFields
    <3>2. \A y \in Chunks : IsCleared(y) => item'[y] = item[y]
      BY <2>6, <2>7
    <3> QED BY <1>1, <3>1, <3>2, SweptOn
  <2>9. UNCHANGED <<slab_list, new_it>> /\ Advance(FALSE)
    BY <1>1, <1>4
  <2>10. /\ slab_rebal' \in RebalType /\ mpc' \in {"move", "finish"}
         /\ slab_rebal'.slab_start = slab_rebal.slab_start /\ MoverOK' /\ SweptClear'
    BY <1>1, <2>8, <2>9, AdvanceStep
  <2>11. TypeOK'
    BY <1>1, <2>5, <2>6, <2>10, TypeNow, MoverTypes
  <2>12. PagesOwnedOnce'
    BY <1>1, SamePages
  <2>13. \A y \in Chunks : /\ ~MoverHolds(y) /\ ~MoverHolds(y)' /\ y # new_it /\ y # new_it'
                           /\ InRange(y)' <=> InRange(y)
    BY <1>1, <2>2, <2>10, Unheld DEF InRange
  <2>14. \A y \in Chunks, d \in Classes : InClass(y, d)' <=> InClass(y, d)
    BY <1>1 DEF InClass
  <2>15. IsCleared(x)' /\ item'[x].refcount = 0 /\ ~IsLinked(x)' /\ InRange(x)'
    BY <2>3, <2>6, <2>13, ClearedFields, Flags DEF IsCleared, IsLinked
  <2>16. \A d \in Classes : InClass(x, d) => d = c
    BY <2>3, OneClass
  <2>17. Fate(x, c)
    BY <2>5, <2>15 DEF Fate
  <2>18. \A d \in Classes : x \notin slots'[d]
    BY <2>3, <2>5, <2>16 DEF ChunksAccounted
  <2>19. \A y \in Chunks : Plain(y) => y # x
    BY <2>7 DEF Plain
  <2>20. Handles({x})
    <3>1. \A y \in Chunks \ {x} :
            /\ item'[y] = item[y] /\ (MoverHolds(y)' <=> MoverHolds(y))
            /\ (y = new_it => y = new_it') /\ (InRange(y) => InRange(y)')
            /\ \A d \in Classes : /\ InClass(y, d)' <=> InClass(y, d)
                                  /\ y \in slots'[d] <=> y \in slots[d]
      BY <2>5, <2>6, <2>13, <2>14
    <3>2. \A v \in Workers : victim[v] # x /\ it[v] # x
      BY <2>3, <2>19, HeldFacts, VictimFacts, Constants
    <3>3. \A k \in Keys : assoc[k] # x
      BY <2>3, <2>19, TableFacts, Constants
    <3> QED BY <1>1, <2>3, <2>14, <2>15, <2>16, <2>17, <2>18, <3>1, <3>2, <3>3 DEF Handles
  <2> QED BY <2>10, <2>11, <2>12, <2>20, MoverStepOn
<1> QED BY <1>2, <1>3, <1>4 DEF MoveUnlinked, IsCleared, Used

\* A linked item in the mover's way.
LEMMA PosLinked ==
    ASSUME IInv, Moving, IsLinked(Pos)
    PROVE  /\ Plain(Pos) /\ item[Pos].slabs_clsid = SrcCls /\ item[Pos].key \in Keys
           /\ assoc[item[Pos].key] = Pos /\ (\A v \in Workers : victim[v] # Pos)
           /\ \A k \in Keys : assoc[k] = Pos => k = item[Pos].key
<1>1. Pos \in Chunks /\ SrcCls \in Classes /\ InClass(Pos, SrcCls)
  BY PosFacts
<1>2. Used(Pos) /\ Pos # new_it
  BY <1>1, Constants DEF Headers, MoverOK
<1>3. item[Pos].slabs_clsid = SrcCls /\ item[Pos].key \in Keys
  BY <1>1, <1>2 DEF Headers
<1>4. IsItem(Pos)
  BY <1>1, <1>2, <1>3, Constants DEF IsItem, Used
<1>5. Plain(Pos)
  BY <1>1, <1>4, PlainItem
<1>6. assoc[item[Pos].key] = Pos
  BY <1>1 DEF NoDanglingItem, IsLinked
<1>7. \A v \in Workers : victim[v] # Pos
  BY <1>1, VictimFacts, Constants
<1>8. \A k \in Keys : assoc[k] = Pos => k = item[Pos].key
  BY <1>1, TableFacts, Constants
<1> QED BY <1>3, <1>5, <1>6, <1>7, <1>8

LEMMA Step_MoveBusyDelete ==
    ASSUME IInv, MoveBusyDelete
    PROVE  IInv'
<1>1. PICK x, c, k : x = Pos /\ c = SrcCls /\ k = item[Pos].key
  OBVIOUS
<1>2. /\ UNCHANGED workVars /\ UNCHANGED <<slab_list, memVars>> /\ UNCHANGED <<slots, item_locks>>
      /\ new_it' = new_it /\ mpc = "trylock" /\ Advance(TRUE)
      /\ IsLinked(x) /\ item[x].refcount > 1
      /\ item' = [item EXCEPT ![x] = Unlinked(item[x])] /\ assoc' = [assoc EXCEPT ![k] = None]
  BY <1>1 DEF MoveBusyDelete, IsLinked
<1>3. Moving /\ ~Holding
  BY <1>2 DEF Moving, Holding
<1>4. x \in Chunks /\ c \in Classes /\ InClass(x, c)
  BY <1>1, <1>3, PosFacts
<1>5. /\ Plain(x) /\ item[x].slabs_clsid = c /\ item[x].key = k /\ k \in Keys /\ assoc[k] = x
      /\ (\A v \in Workers : victim[v] # x) /\ \A j \in Keys : assoc[j] = x => j = k
  BY <1>1, <1>2, <1>3, PosLinked
<1>6. UNCHANGED <<slab_list, new_it>>
  BY <1>2
<1>7. /\ slab_rebal' \in RebalType /\ mpc' \in {"move", "finish"}
      /\ slab_rebal'.slab_start = slab_rebal.slab_start /\ MoverOK' /\ SweptClear'
  BY <1>2, <1>6, AdvanceStep
<1>8. PICK h \in HeaderType : /\ h = Unlinked(item[x]) /\ h.refcount = item[x].refcount - 1
                              /\ h.slabs_clsid = c /\ h.key = k
                              /\ h.it_flags = item[x].it_flags \ {LINKED}
  BY <1>2, <1>4, <1>5, Typed, UnlinkedFields
<1>9. /\ item' \in [Chunks -> HeaderType] /\ item'[x] = h
      /\ \A y \in Chunks : y # x => item'[y] = item[y]
  BY <1>2, <1>4, <1>8, TypeNow
<1>10. /\ assoc' \in [Keys -> Chunks \cup {None}] /\ assoc'[k] = None
       /\ \A j \in Keys : j # k => assoc'[j] = assoc[j]
  BY <1>2, <1>5, TypeNow
<1>11. TypeOK'
  BY <1>2, <1>7, <1>9, <1>10, TypeNow, MoverTypes
<1>12. PagesOwnedOnce'
  BY <1>2, SamePages
<1>13. \A y \in Chunks : /\ ~MoverHolds(y) /\ ~MoverHolds(y)' /\ y # new_it /\ y # new_it'
                         /\ InRange(y)' <=> InRange(y)
  BY <1>2, <1>3, <1>7, Unheld DEF InRange
<1>14. \A y \in Chunks, d \in Classes : InClass(y, d)' <=> InClass(y, d)
  BY <1>2 DEF InClass
<1>15. Used(x)' /\ ~IsLinked(x)' /\ item'[x].refcount > 0 /\ item'[x].key = k
       /\ item'[x].slabs_clsid = c
  <2>1. item[x].refcount \in Nat
    BY <1>5 DEF Plain
  <2> QED BY <1>2, <1>5, <1>8, <1>9, <2>1 DEF Plain, Used, IsLinked
<1>16. Exact(x)'
  <2>1. Count(x)' = Count(x) /\ Count(x) \in Nat
    BY <1>2, CountNow DEF workVars
  <2>2. Exact(x) /\ item[x].refcount \in Nat
    BY <1>5 DEF Plain
  <2> QED BY <1>2, <1>4, <1>8, <1>9, <1>13, <1>15, <2>1, <2>2 DEF Exact, BIT
<1>17. \A d \in Classes : InClass(x, d) => d = c
  BY <1>4, OneClass
<1>18. \A d \in Classes : x \notin slots'[d]
  BY <1>2, <1>5 DEF Plain
<1>19. Fate(x, c) /\ ItemThen(x)
  BY <1>4, <1>5, <1>14, <1>15, <1>16, <1>18 DEF Fate, ItemThen
<1>20. Handles({x})
  <2>1. \A y \in Chunks \ {x} :
          /\ item'[y] = item[y] /\ (MoverHolds(y)' <=> MoverHolds(y))
          /\ (y = new_it => y = new_it') /\ (InRange(y) => InRange(y)')
          /\ \A d \in Classes : /\ InClass(y, d)' <=> InClass(y, d)
                                /\ y \in slots'[d] <=> y \in slots[d]
    BY <1>2, <1>9, <1>13, <1>14
  <2>2. \A j \in Keys : /\ assoc[j] # None /\ assoc[j] \notin {x} => assoc'[j] = assoc[j]
                        /\ assoc'[j] # None => assoc'[j] = assoc[j] /\ assoc[j] \notin {x}
    BY <1>5, <1>10
  <2> QED BY <1>2, <1>4, <1>5, <1>14, <1>15, <1>17, <1>18, <1>19, <2>1, <2>2 DEF Handles
<1> QED BY <1>7, <1>11, <1>12, <1>20, MoverStepOn

\* The mover takes hold of the item in its way, clears R on the freelist and
\* has the chunk "new", if any, for a copy.
Grips(R, new) ==
    /\ HoldItem(item[Pos]) /\ R \subseteq slots[SrcCls] /\ (\A y \in R : InRange(y))
    /\ new = None \/ (new \in slots[SrcCls] /\ ~InRange(new))
    /\ slots' = [slots EXCEPT ![SrcCls] = slots[SrcCls] \ (R \cup {new})]
    /\ item' = [y \in Chunks |-> CASE y = Pos -> HeldHeader
                                   [] y \in R -> Cleared
                                   [] y = new -> Header({}, 1, 0, None)
                                   [] OTHER -> item[y]]
    /\ new_it' = new /\ mpc' = IF new = None THEN "evict" ELSE "rescue"
    /\ UNCHANGED workVars /\ UNCHANGED <<slab_list, memVars>> /\ UNCHANGED <<assoc, slab_rebal>>
LEMMA GripsStep ==
    ASSUME IInv, NEW R, NEW new, Grips(R, new)
    PROVE  IInv'
<1>1. PICK x, c, k : x = Pos /\ c = SrcCls /\ k = item[Pos].key
  OBVIOUS
<1>2. /\ mpc = "trylock" /\ IsLinked(x) /\ item[x].refcount = 1 /\ item_locks[k] = None
      /\ item_locks' = [item_locks EXCEPT ![k] = Mover]
      /\ R \subseteq slots[c] /\ (\A y \in R : InRange(y))
      /\ (new = None \/ (new \in slots[c] /\ ~InRange(new)))
  BY <1>1 DEF Grips, HoldItem, IsLinked
<1>3. /\ UNCHANGED workVars /\ UNCHANGED <<slab_list, memVars>> /\ UNCHANGED <<assoc, slab_rebal>>
      /\ new_it' = new /\ mpc' = (IF new = None THEN "evict" ELSE "rescue")
      /\ slots' = [slots EXCEPT ![c] = slots[c] \ (R \cup {new})]
  BY <1>1 DEF Grips
<1>4. Moving /\ ~Holding /\ Holding' /\ Moving'
  BY <1>2, <1>3 DEF Moving, Holding
<1>5. x \in Chunks /\ c \in Classes /\ InClass(x, c) /\ InRange(x)
  BY <1>1, <1>4, PosFacts
<1>6. /\ Plain(x) /\ item[x].slabs_clsid = c /\ item[x].key = k /\ k \in Keys /\ assoc[k] = x
      /\ (\A v \in Workers : victim[v] # x) /\ \A j \in Keys : assoc[j] = x => j = k
  BY <1>1, <1>2, <1>4, PosLinked
<1>7. x \notin slots[c] /\ x \notin R /\ x # new /\ new \notin R
  <2>1. slots[c] \subseteq Chunks /\ None \notin Chunks
    BY <1>5, Typed, Constants
  <2> QED BY <1>2, <1>5, <1>6, <2>1 DEF Plain
<1>8. slots[c] \subseteq Chunks /\ \A y \in slots[c] : InClass(y, c)
  BY <1>5, Typed DEF ChunksAccounted
<1>9. \A y \in slots[c] : IsFree(y)
  BY <1>5, <1>8, AccountedNow
<1>10. PICK h \in HeaderType : /\ h = HeldHeader /\ h.refcount = 2
                               /\ h.it_flags = item[x].it_flags
                               /\ h.slabs_clsid = c /\ h.key = k
  <2>1. PICK g \in HeaderType : g = item[x] /\ g.refcount = 1
    BY <1>2, <1>5, Typed
  <2>2. PICK u : u = [g EXCEPT !.refcount = 2]
    OBVIOUS
  <2>3. /\ u \in HeaderType /\ u.refcount = 2 /\ u.it_flags = g.it_flags
        /\ u.slabs_clsid = g.slabs_clsid /\ u.key = g.key
    BY ONLY <2>2, g \in HeaderType DEF HeaderType
  <2>4. HeldHeader = [g EXCEPT !.refcount = g.refcount + 1]
    BY <1>1, <2>1 DEF HeldHeader
  <2>5. g.refcount + 1 = 2
    BY <2>1
  <2>6. HeldHeader = u
    BY <2>2, <2>4, <2>5
  <2> QED BY <1>6, <2>1, <2>3, <2>6
<1>11. PICK g \in HeaderType : /\ g = Header({}, 1, 0, None) /\ g.refcount = 1
                               /\ g.it_flags = {} /\ g.slabs_clsid = 0
  BY HeaderFields DEF POOL
<1>12. /\ item'[x] = h /\ (\A y \in R : item'[y] = Cleared)
       /\ (new # None => item'[new] = g)
       /\ \A y \in Chunks : y # x /\ y \notin R /\ y # new => item'[y] = item[y]
  <2>1. item' = [y \in Chunks |-> CASE y = x -> h
                                    [] y \in R -> Cleared
                                    [] y = new -> g
                                    [] OTHER -> item[y]]
    BY <1>1, <1>10, <1>11 DEF Grips
  <2>2. R \subseteq Chunks /\ (new # None => new \in Chunks)
    BY <1>2, <1>8
  <2> QED BY <1>5, <1>7, <2>1, <2>2
<1>13. item' \in [Chunks -> HeaderType]
  <2>1. \A y \in Chunks : item'[y] \in HeaderType
    <3> SUFFICES ASSUME NEW y \in Chunks PROVE item'[y] \in HeaderType
      OBVIOUS
    <3>1. y # None
      BY Constants
    <3>2. CASE y # x /\ y \notin R /\ y # new
      BY <1>12, <3>2, Typed
    <3>3. CASE y = x \/ y \in R \/ y = new
      BY <1>12, <3>1, <3>3, ClearedFields
    <3> QED BY <3>2, <3>3
  <2>2. item' = [y \in Chunks |-> item'[y]]
    BY DEF Grips
  <2> QED BY <2>1, <2>2
<1>14. /\ slots' \in [Classes -> SUBSET Chunks] /\ slots'[c] = slots[c] \ (R \cup {new})
       /\ \A d \in Classes : d # c => slots'[d] = slots[d]
  BY <1>3, <1>5, TypeNow
<1>15. /\ item_locks' \in [Keys -> Workers \cup {Mover, None}] /\ item_locks'[k] = Mover
       /\ \A j \in Keys : j # k => item_locks'[j] = item_locks[j]
  BY <1>2, <1>6, TypeNow
<1>16. new \in Chunks \cup {None} /\ slab_rebal' \in RebalType
       /\ assoc' \in [Keys -> Chunks \cup {None}] /\ mpc' \in {"evict", "rescue"}
  BY <1>2, <1>3, <1>8, TypeNow
<1>17. TypeOK'
  BY <1>3, <1>13, <1>14, <1>15, <1>16, TypeNow, MoverTypes
<1>18. PagesOwnedOnce'
  BY <1>3, SamePages
<1>19. SrcCls' = c /\ Pos' = x /\ \A y : InRange(y)' <=> InRange(y)
  BY <1>1, <1>3 DEF SrcCls, Pos, InRange
<1>20. \A y, d : InClass(y, d)' <=> InClass(y, d)
  BY <1>3 DEF InClass
<1>21. \A y \in Chunks : ~MoverHolds(y) /\ y # new_it
  <2>1. new_it = None
    BY <1>2 DEF MoverOK
  <2> QED BY <1>4, <2>1, Constants DEF MoverHolds, Holding
<1>22. Count(x) = 0
  <2>1. Exact(x) /\ Count(x) \in Nat
    BY <1>6, CountNow DEF Plain
  <2> QED BY <1>2, <1>5, <1>21, <2>1 DEF Exact, BIT
<1>23. \A y \in Chunks : MoverHolds(y)' <=> y = x \/ y = new
  BY <1>3, <1>4, <1>19 DEF MoverHolds, Holding
<1>24. UNCHANGED <<wpc, op, wkey, wcls, it, victim>>
  BY <1>3 DEF workVars
<1>25. \A y \in slots[c] : \A v \in Workers : it[v] # y /\ victim[v] # y
  <2>1. \A y \in slots[c] : ~Plain(y) /\ y # None
    BY <1>8, <1>9, Kinds, Constants DEF Plain
  <2> QED BY <2>1, HeldFacts, VictimFacts
<1>26. \A y \in slots[c] : \A j \in Keys : assoc[j] # y
  <2>1. \A y \in slots[c] : ~Plain(y) /\ y # None
    BY <1>8, <1>9, Kinds, Constants DEF Plain
  <2> QED BY <2>1, TableFacts
<1>27. Used(x)' /\ IsLinked(x)' /\ item'[x].refcount = 2 /\ item'[x].key = k
       /\ item'[x].slabs_clsid = c
  BY <1>2, <1>6, <1>10, <1>12 DEF Used, IsLinked, Plain
<1>28. \A y \in R : IsCleared(y)' /\ ~IsLinked(y)' /\ item'[y].refcount = 0 /\ InRange(y)'
  BY <1>2, <1>12, <1>19, ClearedFields, Flags DEF IsCleared, IsLinked
<1>29. new # None => /\ Used(new)' /\ ~IsLinked(new)' /\ item'[new].refcount = 1
                     /\ item'[new].slabs_clsid = 0
  BY <1>11, <1>12 DEF Used, IsLinked
<1>30. MoverOK'
  <2>1. \A w \in Workers : it'[w] # x
    BY <1>22, <1>24, CountNow
  <2>2. item_locks'[item'[x].key] = Mover
    BY <1>15, <1>27
  <2>3. /\ slab_rebal.slab_start \in Pages /\ slab_list[c] # <<>> /\ c # slab_rebal.d_clsid
        /\ slab_list[c][1] = slab_rebal.slab_start /\ slab_rebal.slab_pos \in 1 .. PerSlab[c]
    BY <1>1, <1>2, <1>4 DEF MoverOK
  <2>4. PICK n : n = new_it' /\ n = new
    BY <1>3
  <2>5. mpc' = "rescue" => /\ InClass(n, c)' /\ ~InRange(n)' /\ Used(n)' /\ ~IsLinked(n)'
                           /\ item'[n].slabs_clsid = 0 /\ item'[n].refcount = 1
    BY <1>2, <1>3, <1>8, <1>19, <1>20, <1>29, <2>4
  <2>6. (mpc = "rescue" => /\ InClass(new_it, SrcCls) /\ ~InRange(new_it)
                           /\ Used(new_it) /\ ~IsLinked(new_it)
                           /\ item[new_it].slabs_clsid = 0 /\ item[new_it].refcount = 1)'
    BY <1>19, <2>4, <2>5 DEF InClass, InRange, Used, IsLinked
  <2>7. (Holding => /\ Used(Pos) /\ (IsLinked(Pos) <=> (mpc # "slabs_free"))
                    /\ item_locks[item[Pos].key] = Mover
                    /\ \A w \in Workers : it[w] # Pos)'
    BY <1>16, <1>19, <1>27, <2>1, <2>2 DEF Used, IsLinked
  <2>8. (new_it' # None) <=> (mpc' = "rescue")
    BY <1>3
  <2> QED BY <1>3, <1>4, <1>5, <1>16, <1>19, <2>3, <2>6, <2>7, <2>8 DEF MoverOK
<1>31. SweptClear'
  <2>1. Swept' = Swept
    BY <1>2, <1>3 DEF Swept
  <2>2. \A y \in Chunks : IsCleared(y) => IsCleared(y)'
    <3> SUFFICES ASSUME NEW y \in Chunks, IsCleared(y) PROVE IsCleared(y)'
      OBVIOUS
    <3>1. y # x /\ y \notin slots[c]
      BY <1>6, <1>9, Kinds DEF Plain
    <3>2. y \notin R /\ y # new
      BY <1>2, <3>1, Constants
    <3> QED BY <1>12, <3>1, <3>2 DEF IsCleared
  <2> SUFFICES ASSUME ~slab_rebal.busy_items, NEW i \in 1 .. Swept
               PROVE  IsCleared(<<slab_rebal.slab_start, i>>)'
    BY <1>3, <1>4, <1>16, <2>1 DEF SweptClear
  <2>3. PICK y \in Chunks : y = <<slab_rebal.slab_start, i>>
    BY <1>4, SweptFacts
  <2>4. IsCleared(y)
    BY <1>4, <2>3 DEF SweptClear
  <2> QED BY <1>3, <2>2, <2>3, <2>4 DEF IsCleared
<1>32. Fate(x, c)
  <2>1. Count(x)' = 0
    BY <1>22, <1>24, CountNow
  <2>2. Exact(x)'
    BY <1>5, <1>23, <1>27, <2>1 DEF Exact, BIT
  <2> QED BY <1>6, <1>7, <1>14, <1>27, <2>2 DEF Fate
<1>33. \A y \in R : Fate(y, c)
  BY <1>2, <1>14, <1>28 DEF Fate
<1>34. new # None => Fate(new, c)
  <2> SUFFICES ASSUME new # None PROVE Fate(new, c)
    OBVIOUS
  <2>1. new \in slots[c] /\ new \in Chunks /\ Count(new) = 0
    BY <1>2, <1>8, <1>25, CountNow
  <2>2. Count(new)' = Count(new)
    BY <1>24, CountNow
  <2>3. PICK n : n = new
    OBVIOUS
  <2>4. Exact(n)'
    BY <1>23, <1>29, <2>1, <2>2, <2>3 DEF Exact, BIT, Count, IsLinked
  <2>5. /\ Used(n)' /\ n \notin slots'[c] /\ item'[n].refcount > 0 /\ n = new_it'
    BY <1>3, <1>14, <1>29, <2>3
  <2>6. Fate(n, c)
    BY <2>4, <2>5 DEF Fate
  <2> QED BY <2>3, <2>6
<1>35. PICK T : T = {x} \cup R \cup (slots[c] \cap {new})
  OBVIOUS
<1>36. \A y \in T : y = x \/ (y \in R /\ y \in slots[c]) \/ (y = new /\ new # None /\ y \in slots[c])
  BY <1>2, <1>8, <1>35, Constants
<1>37. \A y \in Chunks : y \notin T => y # x /\ y \notin R /\ y # new
  BY <1>2, <1>35, Constants
<1>38. T \subseteq Chunks /\ \A y \in T : Fate(y, c) /\ InClass(y, c) /\ (IsLinked(y)' => y = x)
  BY <1>5, <1>8, <1>28, <1>29, <1>32, <1>33, <1>34, <1>36
<1>39. \A y \in T : \A d \in Classes : InClass(y, d)' => d = c
  BY <1>5, <1>20, <1>38, OneClass
<1>40. ItemThen(x)
  BY <1>5, <1>20, <1>27 DEF ItemThen
<1>41. Handles(T)
  <2>1. \A y \in Chunks \ T :
          /\ item'[y] = item[y] /\ (MoverHolds(y)' <=> MoverHolds(y))
          /\ (y = new_it => y = new_it') /\ (InRange(y) => InRange(y)')
          /\ \A d \in Classes : /\ InClass(y, d)' <=> InClass(y, d)
                                /\ y \in slots'[d] <=> y \in slots[d]
    BY <1>12, <1>14, <1>19, <1>20, <1>21, <1>23, <1>37
  <2>2. \A y \in T : \A d \in Classes : y \in slots'[d] => InClass(y, d)'
    <3>1. \A d \in Classes : slots'[d] \subseteq slots[d]
      BY <1>5, <1>14
    <3> QED BY <1>20, <3>1 DEF ChunksAccounted
  <2>3. \A v \in Workers : \A y \in T : victim[v] # y /\ it[v] # y
    <3>1. \A v \in Workers : it[v] # x
      BY <1>22, CountNow
    <3> QED BY <1>6, <1>25, <1>36, <3>1
  <2>4. \A j \in Keys : item_locks[j] \in Workers => item_locks'[j] = item_locks[j]
    BY <1>2, <1>15, Constants
  <2>5. \A j \in Keys : assoc[j] \in T => j = k /\ assoc[j] = x
    BY <1>6, <1>26, <1>36
  <2>6. x \in T /\ item'[x].key = k /\ IsLinked(x)'
    BY <1>27, <1>35
  <2>7. \A j \in Keys :
          /\ assoc[j] # None /\ assoc[j] \notin T => assoc'[j] = assoc[j]
          /\ assoc'[j] # None => \/ assoc'[j] = assoc[j] /\ assoc[j] \notin T
                                 \/ \E y \in T : /\ assoc'[j] = y /\ ItemThen(y)
                                                 /\ item'[y].key = j /\ IsLinked(y)'
    BY <1>3, <1>40, <2>5, <2>6
  <2>8. \A y \in T : \A d \in Classes : InClass(y, d)' /\ IsLinked(y)' =>
          assoc'[item'[y].key] = y
    BY <1>3, <1>6, <1>27, <1>38
  <2>9. \A y \in T : ~(\A d \in Classes : ~InClass(y, d)')
    BY <1>5, <1>20, <1>38
  <2>10. \A y \in T : \A d \in Classes : InClass(y, d)' => Fate(y, d)
    BY <1>38, <1>39
  <2> QED BY <1>3, <1>38, <2>1, <2>2, <2>3, <2>4, <2>7, <2>8, <2>9, <2>10 DEF Handles
<1> QED BY <1>17, <1>18, <1>30, <1>31, <1>41, MoverStepOn

LEMMA Step_MoveFromLRU ==
    ASSUME IInv, MoveFromLRU
    PROVE  IInv'
<1>1. PICK R \in SUBSET slots[SrcCls], new \in slots[SrcCls] \cup {None} :
        /\ slab_rebalance_alloc(R, new)
        /\ mpc' = IF new = None THEN "evict" ELSE "rescue"
  BY DEF MoveFromLRU
<1>2. /\ R \subseteq slots[SrcCls] /\ (\A y \in R : InRange(y))
      /\ (new = None \/ (new \in slots[SrcCls] /\ ~InRange(new)))
      /\ slots' = [slots EXCEPT ![SrcCls] = slots[SrcCls] \ (R \cup {new})]
      /\ item' = [y \in Chunks |-> CASE y = Pos -> HeldHeader
                                     [] y \in R -> Cleared
                                     [] y = new -> Header({}, 1, 0, None)
                                     [] OTHER -> item[y]]
      /\ new_it' = new
  BY <1>1 DEF slab_rebalance_alloc
<1>3. /\ UNCHANGED workVars /\ UNCHANGED <<slab_list, memVars>> /\ UNCHANGED <<assoc, slab_rebal>>
      /\ HoldItem(item[Pos])
  BY DEF MoveFromLRU
<1>4. Grips(R, new)
  BY <1>1, <1>2, <1>3 DEF Grips
<1> QED BY <1>4, GripsStep

LEMMA Step_MoveExpired ==
    ASSUME IInv, MoveExpired
    PROVE  IInv'
<1>1. /\ HoldItem(item[Pos]) /\ item' = [item EXCEPT ![Pos] = HeldHeader] /\ mpc' = "evict"
      /\ UNCHANGED workVars /\ UNCHANGED <<slab_list, memVars>> /\ UNCHANGED <<assoc, slab_rebal>>
      /\ slots' = slots /\ new_it' = new_it
  BY DEF MoveExpired
<1>2. mpc = "trylock"
  BY <1>1 DEF HoldItem
<1>3. Moving /\ new_it = None
  BY <1>2 DEF Moving, MoverOK
<1>4. PICK c \in Classes : c = SrcCls
  BY <1>3, PosFacts
<1>5. slots' = [slots EXCEPT ![c] = slots[c] \ ({} \cup {None})]
  <2>1. slots \in [Classes -> SUBSET Chunks] /\ None \notin slots[c]
    BY TypeNow, Constants
  <2>2. slots[c] \ ({} \cup {None}) = slots[c]
    BY <2>1
  <2> QED BY <1>1, <2>1, <2>2
<1>6. item' = [y \in Chunks |-> CASE y = Pos -> HeldHeader
                                  [] y \in {} -> Cleared
                                  [] y = None -> Header({}, 1, 0, None)
                                  [] OTHER -> item[y]]
  <2>1. item \in [Chunks -> HeaderType] /\ None \notin Chunks
    BY TypeNow, Constants
  <2>2. item' = [y \in Chunks |-> IF y = Pos THEN HeldHeader ELSE item[y]]
    BY <1>1, <2>1
  <2> QED BY <2>1, <2>2
<1>7. Grips({}, None)
  BY <1>1, <1>3, <1>4, <1>5, <1>6 DEF Grips
<1> QED BY <1>7, GripsStep

\* The mover unlinks the item that it holds.
LEMMA Step_Evict ==
    ASSUME IInv, Evict
    PROVE  IInv'
<1>1. PICK x, c, k : x = Pos /\ c = SrcCls /\ k = item[Pos].key
  OBVIOUS
<1>2. /\ UNCHANGED workVars /\ UNCHANGED <<slab_list, memVars>> /\ UNCHANGED <<slots, item_locks>>
      /\ new_it' = new_it /\ slab_rebal' = slab_rebal /\ mpc = "evict" /\ mpc' = "slabs_free"
      /\ item' = [item EXCEPT ![x] = Unlinked(item[x])] /\ assoc' = [assoc EXCEPT ![k] = None]
  BY <1>1 DEF Evict
<1>3. Holding /\ Holding' /\ Moving /\ Moving' /\ new_it = None
  BY <1>2 DEF Moving, Holding, MoverOK
<1>4. x \in Chunks /\ c \in Classes /\ InClass(x, c)
  BY <1>1, <1>3, PosFacts
<1>5. /\ IsLinked(x) /\ item[x].refcount = 2 /\ Count(x) = 0 /\ item_locks[k] = Mover
      /\ \A v \in Workers : it[v] # x
  <2>1. item[x].refcount = 1 + BIT(mpc # "slabs_free") /\ Count(x) = 0
    BY <1>1, <1>3, PosFacts
  <2>2. item[x].refcount = 2
    BY <1>2, <2>1 DEF BIT
  <2> QED BY <1>1, <1>2, <1>3, <2>1, <2>2 DEF MoverOK
<1>6. /\ Plain(x) /\ item[x].slabs_clsid = c /\ item[x].key = k /\ k \in Keys /\ assoc[k] = x
      /\ (\A v \in Workers : victim[v] # x) /\ \A j \in Keys : assoc[j] = x => j = k
  BY <1>1, <1>3, <1>5, PosLinked
<1>7. PICK h \in HeaderType : /\ h = Unlinked(item[x]) /\ h.refcount = 1
                              /\ h.slabs_clsid = c /\ h.key = k
                              /\ h.it_flags = item[x].it_flags \ {LINKED}
  <2>1. item[x] \in HeaderType /\ item[x].refcount > 0 /\ item[x].refcount - 1 = 1
    BY <1>4, <1>5, Typed
  <2> QED BY <1>6, <2>1, UnlinkedFields
<1>8. /\ item' \in [Chunks -> HeaderType] /\ item'[x] = h
      /\ \A y \in Chunks : y # x => item'[y] = item[y]
  BY <1>2, <1>4, <1>7, TypeNow
<1>9. /\ assoc' \in [Keys -> Chunks \cup {None}] /\ assoc'[k] = None
      /\ \A j \in Keys : j # k => assoc'[j] = assoc[j]
  BY <1>2, <1>6, TypeNow
<1>10. TypeOK'
  BY <1>2, <1>8, <1>9, TypeNow, MoverTypes
<1>11. PagesOwnedOnce'
  BY <1>2, SamePages
<1>12. Used(x)' /\ ~IsLinked(x)' /\ item'[x].refcount = 1 /\ item'[x].key = k
       /\ item'[x].slabs_clsid = c
  BY <1>6, <1>7, <1>8 DEF Plain, Used, IsLinked
<1>13. SrcCls' = c /\ Pos' = x /\ (\A y : InRange(y)' <=> InRange(y))
       /\ \A y : MoverHolds(y)' <=> MoverHolds(y)
  BY <1>1, <1>2 DEF SrcCls, Pos, InRange, MoverHolds
<1>14. \A y, d : InClass(y, d)' <=> InClass(y, d)
  BY <1>2 DEF InClass
<1>15. MoverHolds(x)'
  BY <1>2, <1>13 DEF MoverHolds
<1>16. UNCHANGED <<wpc, op, wkey, wcls, it, victim>>
  BY <1>2 DEF workVars
<1>17. MoverOK'
  <2>1. /\ slab_rebal.slab_start \in Pages /\ slab_list[c] # <<>> /\ c # slab_rebal.d_clsid
        /\ slab_list[c][1] = slab_rebal.slab_start /\ slab_rebal.slab_pos \in 1 .. PerSlab[c]
    BY <1>1, <1>2, <1>3 DEF MoverOK
  <2>2. (Holding => /\ Used(Pos) /\ (IsLinked(Pos) <=> (mpc # "slabs_free"))
                    /\ item_locks[item[Pos].key] = Mover
                    /\ \A w \in Workers : it[w] # Pos)'
    BY <1>2, <1>5, <1>12, <1>13, <1>16 DEF Used, IsLinked
  <2> QED BY <1>2, <1>3, <1>4, <1>13, <2>1, <2>2 DEF MoverOK
<1>18. SweptClear'
  <2>1. Swept' = Swept
    BY <1>2 DEF Swept
  <2> SUFFICES ASSUME ~slab_rebal.busy_items, NEW i \in 1 .. Swept
               PROVE  IsCleared(<<slab_rebal.slab_start, i>>)'
    BY <1>2, <1>3, <2>1 DEF SweptClear
  <2>2. PICK y \in Chunks : y = <<slab_rebal.slab_start, i>>
    BY <1>3, SweptFacts
  <2>3. IsCleared(y)
    BY <1>3, <2>2 DEF SweptClear
  <2>4. y # x
    BY <1>6, <2>3, Kinds DEF Plain
  <2> QED BY <1>2, <1>8, <2>2, <2>3, <2>4 DEF IsCleared
<1>19. Fate(x, c) /\ ItemThen(x) /\ \A d \in Classes : x \notin slots'[d]
  <2>1. Count(x)' = 0
    BY <1>5, <1>16, CountNow
  <2>2. Exact(x)'
    BY <1>4, <1>12, <1>15, <2>1 DEF Exact, BIT
  <2>3. \A d \in Classes : x \notin slots'[d]
    BY <1>2, <1>6 DEF Plain
  <2> QED BY <1>4, <1>6, <1>12, <1>14, <2>2, <2>3 DEF Fate, ItemThen
<1>20. \A d \in Classes : InClass(x, d) => d = c
  BY <1>4, OneClass
<1>21. Handles({x})
  <2>1. \A y \in Chunks \ {x} :
          /\ item'[y] = item[y] /\ (MoverHolds(y)' <=> MoverHolds(y))
          /\ (y = new_it => y = new_it') /\ (InRange(y) => InRange(y)')
          /\ \A d \in Classes : /\ InClass(y, d)' <=> InClass(y, d)
                                /\ y \in slots'[d] <=> y \in slots[d]
    BY <1>2, <1>8, <1>13, <1>14
  <2>2. \A j \in Keys : /\ assoc[j] # None /\ assoc[j] \notin {x} => assoc'[j] = assoc[j]
                        /\ assoc'[j] # None => assoc'[j] = assoc[j] /\ assoc[j] \notin {x}
    BY <1>6, <1>9
  <2> QED BY <1>2, <1>4, <1>5, <1>6, <1>12, <1>14, <1>19, <1>20, <2>1, <2>2 DEF Handles
<1> QED BY <1>10, <1>11, <1>17, <1>18, <1>21, MoverStepOn

LEMMA Step_EvictFree ==
    ASSUME IInv, EvictFree
    PROVE  IInv'
<1>1. PICK x, c, k : x = Pos /\ c = SrcCls /\ k = item[Pos].key
  OBVIOUS
<1>2. /\ UNCHANGED workVars /\ UNCHANGED <<slab_list, memVars>> /\ assoc' = assoc
      /\ new_it' = new_it /\ mpc = "slabs_free" /\ mpc' = "advance"
      /\ slots' = [slots EXCEPT ![c] = slots[c] \cup {x}]
      /\ item' = [item EXCEPT ![x] = Freed(x)]
      /\ item_locks' = [item_locks EXCEPT ![k] = None]
      /\ slab_rebal' = [slab_rebal EXCEPT !.busy_items = TRUE]
  BY <1>1 DEF EvictFree
<1>3. Holding /\ ~Holding' /\ Moving /\ Moving' /\ new_it = None
  BY <1>2 DEF Moving, Holding, MoverOK
<1>4. x \in Chunks /\ c \in Classes /\ InClass(x, c)
  BY <1>1, <1>3, PosFacts
<1>5. /\ Plain(x) /\ item[x].slabs_clsid = c /\ k \in Keys /\ Count(x) = 0
      /\ ~IsLinked(x) /\ item_locks[k] = Mover /\ item[x].refcount > 0
  <2>1. /\ Plain(x) /\ item[x].slabs_clsid = c /\ Count(x) = 0
        /\ item[x].refcount = 1 + BIT(mpc # "slabs_free")
    BY <1>1, <1>3, PosFacts
  <2>2. item[x].refcount > 0
    BY <1>2, <2>1 DEF BIT
  <2> QED BY <1>1, <1>2, <1>3, <2>1, <2>2 DEF MoverOK, Plain
<1>6. /\ item' \in [Chunks -> HeaderType] /\ item'[x].it_flags = {SLABBED}
      /\ item'[x].slabs_clsid = 0 /\ \A y \in Chunks : y # x => item'[y] = item[y]
  <2>1. PICK h : h = Freed(x)
    OBVIOUS
  <2>2. h \in HeaderType /\ h.it_flags = {SLABBED} /\ h.slabs_clsid = 0
    BY <1>4, <1>5, <2>1, Typed, HeaderFields DEF Freed, POOL
  <2> QED BY <1>2, <1>4, <2>1, <2>2, TypeNow
<1>7. /\ slots' \in [Classes -> SUBSET Chunks] /\ slots'[c] = slots[c] \cup {x}
      /\ \A d \in Classes : d # c => slots'[d] = slots[d]
  BY <1>2, <1>4, TypeNow
<1>8. /\ item_locks' \in [Keys -> Workers \cup {Mover, None}]
      /\ \A j \in Keys : j # k => item_locks'[j] = item_locks[j]
  BY <1>2, <1>5, TypeNow
<1>9. PICK s, u : s = slab_rebal /\ u = slab_rebal'
  OBVIOUS
<1>10. /\ u \in RebalType /\ u.s_clsid = s.s_clsid /\ u.d_clsid = s.d_clsid
       /\ u.slab_start = s.slab_start /\ u.slab_pos = s.slab_pos /\ u.busy_items = TRUE
  <2>1. s \in RebalType /\ u = [s EXCEPT !.busy_items = TRUE]
    BY <1>2, <1>9, RebalTyped
  <2> QED BY ONLY <2>1 DEF RebalType
<1>11. slab_rebal' \in RebalType /\ assoc' \in [Keys -> Chunks \cup {None}]
  BY <1>2, <1>9, <1>10, TypeNow
<1>12. TypeOK'
  BY <1>2, <1>6, <1>7, <1>8, <1>11, TypeNow, MoverTypes
<1>13. PagesOwnedOnce'
  BY <1>2, SamePages
<1>14. SrcCls' = c /\ (\A y : InRange(y)' <=> InRange(y))
  BY <1>1, <1>9, <1>10 DEF SrcCls, InRange
<1>15. \A y, d : InClass(y, d)' <=> InClass(y, d)
  BY <1>2 DEF InClass
<1>16. \A y \in Chunks : y # new_it /\ y # new_it' /\ ~MoverHolds(y)' /\ (y # x => ~MoverHolds(y))
  <2>1. new_it = None /\ new_it' = None
    BY <1>2, <1>3
  <2> QED BY <1>1, <1>2, <2>1, Constants DEF MoverHolds
<1>17. MoverOK'
  <2>1. /\ slab_rebal.slab_start \in Pages /\ slab_list[c] # <<>> /\ c # slab_rebal.d_clsid
        /\ slab_list[c][1] = slab_rebal.slab_start /\ slab_rebal.slab_pos \in 1 .. PerSlab[c]
    BY <1>1, <1>2, <1>3 DEF MoverOK
  <2>2. slab_rebal'.slab_start = slab_rebal.slab_start /\ slab_rebal'.slab_pos = slab_rebal.slab_pos
        /\ slab_rebal'.d_clsid = slab_rebal.d_clsid
    BY <1>9, <1>10
  <2> QED BY <1>2, <1>3, <1>4, <1>14, <2>1, <2>2 DEF MoverOK
<1>18. SweptClear'
  BY <1>2, <1>9, <1>10 DEF SweptClear
<1>19. Fate(x, c)
  BY <1>6, <1>7 DEF Fate, IsFree
<1>20. ~IsLinked(x)'
  BY <1>6, Flags DEF IsLinked
<1>21. \A d \in Classes : InClass(x, d) => d = c
  BY <1>4, OneClass
<1>22. \A v \in Workers : it[v] # x /\ victim[v] # x
  <2>1. \A v \in Workers : it[v] # x
    BY <1>5, CountNow
  <2>2. x # None
    BY <1>4, Constants
  <2>3. \A v \in Workers : victim[v] = x => item[x].refcount = 0
    BY <2>2, VictimFacts
  <2> QED BY <1>5, <2>1, <2>3
<1>23. \A j \in Keys : assoc[j] # x
  BY <1>4, <1>5, TableFacts, Constants
<1>24. Handles({x})
  <2>1. \A y \in Chunks \ {x} :
          /\ item'[y] = item[y] /\ (MoverHolds(y)' <=> MoverHolds(y))
          /\ (y = new_it => y = new_it') /\ (InRange(y) => InRange(y)')
          /\ \A d \in Classes : /\ InClass(y, d)' <=> InClass(y, d)
                                /\ y \in slots'[d] <=> y \in slots[d]
    BY <1>4, <1>6, <1>7, <1>14, <1>15, <1>16
  <2>2. \A d \in Classes : x \in slots'[d] => d = c
    BY <1>5, <1>7 DEF Plain
  <2>3. \A j \in Keys : item_locks[j] \in Workers => item_locks'[j] = item_locks[j]
    BY <1>5, <1>8, Constants
  <2> QED BY <1>2, <1>4, <1>15, <1>19, <1>20, <1>21, <1>22, <1>23, <2>1, <2>2, <2>3 DEF Handles
<1> QED BY <1>12, <1>13, <1>17, <1>18, <1>24, MoverStepOn

LEMMA Step_Rescue ==
    ASSUME IInv, Rescue
    PROVE  IInv'
<1>1. PICK x, c, k, n, h : /\ x = Pos /\ c = SrcCls /\ h = item[x] /\ k = h.key /\ n = new_it
  OBVIOUS
<1>2. /\ UNCHANGED workVars /\ UNCHANGED <<slab_list, memVars>> /\ UNCHANGED <<slots, slab_rebal>>
      /\ new_it' = None /\ mpc = "rescue" /\ mpc' = "advance"
      /\ assoc' = [assoc EXCEPT ![k] = n] /\ item_locks' = [item_locks EXCEPT ![k] = None]
      /\ item' = [item EXCEPT
            ![n] = Linked([h EXCEPT !.it_flags = h.it_flags \ {LINKED}, !.refcount = 0]),
            ![x] = Cleared]
  BY <1>1 DEF Rescue
<1>3. Holding /\ ~Holding' /\ Moving /\ Moving'
  BY <1>2 DEF Moving, Holding
<1>4. x \in Chunks /\ c \in Classes /\ InClass(x, c) /\ InRange(x)
  BY <1>1, <1>3, PosFacts
<1>5. /\ Plain(x) /\ item[x].slabs_clsid = c /\ Count(x) = 0 /\ IsLinked(x)
      /\ item_locks[k] = Mover /\ (\A v \in Workers : it[v] # x)
  BY <1>1, <1>2, <1>3, PosFacts DEF MoverOK
<1>6. /\ k \in Keys /\ assoc[k] = x
      /\ (\A v \in Workers : victim[v] # x) /\ \A j \in Keys : assoc[j] = x => j = k
  BY <1>1, <1>3, <1>5, PosLinked
<1>7. /\ n \in Chunks /\ InClass(n, c) /\ ~InRange(n) /\ Used(n) /\ ~IsLinked(n)
      /\ item[n].refcount = 1 /\ n # x
  BY <1>1, <1>2, <1>4, Typed DEF MoverOK
<1>8. Count(n) = 0
  <2>1. Exact(n) /\ Count(n) \in Nat
    BY <1>4, <1>7, ExactIs, CountNow
  <2>2. MoverHolds(n)
    BY <1>1 DEF MoverHolds
  <2> QED BY <1>7, <2>1, <2>2 DEF Exact, BIT
<1>9. PICK g \in HeaderType : /\ item' = [item EXCEPT ![n] = g, ![x] = Cleared]
                              /\ g.refcount = 1 /\ g.slabs_clsid = c /\ g.key = k
                              /\ LINKED \in g.it_flags /\ SLABBED \notin g.it_flags
  <2>1. h \in HeaderType /\ h.slabs_clsid = c /\ SLABBED \notin h.it_flags
        /\ h.it_flags \subseteq {LINKED, SLABBED, FETCHED}
    BY <1>1, <1>4, <1>5, Typed, Fields DEF Plain, Used
  <2>2. PICK f \in SUBSET {LINKED, SLABBED, FETCHED} : f = h.it_flags \ {LINKED}
    BY <2>1
  <2>3. PICK u : u = [h EXCEPT !.it_flags = f, !.refcount = 0]
    OBVIOUS
  <2>4. /\ u \in HeaderType /\ u.refcount = 0 /\ u.it_flags = f
        /\ u.slabs_clsid = h.slabs_clsid /\ u.key = h.key
    <3>1. h \in HeaderType
      BY <2>1
    <3> QED BY ONLY <2>3, <3>1, f \in SUBSET {LINKED, SLABBED, FETCHED} DEF HeaderType
  <2>5. /\ Linked(u) \in HeaderType /\ Linked(u).refcount = u.refcount + 1
        /\ Linked(u).slabs_clsid = u.slabs_clsid /\ Linked(u).key = u.key
        /\ Linked(u).it_flags = u.it_flags \cup {LINKED}
    BY <2>4, LinkedFields
  <2>6. u.refcount + 1 = 1
    BY <2>4
  <2>7. item' = [item EXCEPT ![n] = Linked(u), ![x] = Cleared]
    BY <1>2, <2>2, <2>3
  <2> QED BY <1>1, <2>1, <2>2, <2>4, <2>5, <2>6, <2>7, Flags
<1>10. /\ item' \in [Chunks -> HeaderType] /\ item'[x] = Cleared /\ item'[n] = g
       /\ \A y \in Chunks : y # x /\ y # n => item'[y] = item[y]
  BY <1>4, <1>7, <1>9, TypeNow, ClearedFields
<1>11. /\ assoc' \in [Keys -> Chunks \cup {None}] /\ assoc'[k] = n
       /\ \A j \in Keys : j # k => assoc'[j] = assoc[j]
  BY <1>2, <1>6, <1>7, TypeNow
<1>12. /\ item_locks' \in [Keys -> Workers \cup {Mover, None}]
       /\ \A j \in Keys : j # k => item_locks'[j] = item_locks[j]
  BY <1>2, <1>6, TypeNow
<1>13. TypeOK'
  <2>1. new_it' \in Chunks \cup {None} /\ slots' \in [Classes -> SUBSET Chunks]
        /\ slab_rebal' \in RebalType
    BY <1>2, TypeNow
  <2> QED BY <1>2, <1>10, <1>11, <1>12, <2>1, MoverTypes
<1>14. PagesOwnedOnce'
  BY <1>2, SamePages
<1>15. SrcCls' = c /\ Pos' = x /\ (\A y : InRange(y)' <=> InRange(y))
  BY <1>1, <1>2 DEF SrcCls, Pos, InRange
<1>16. \A y, d : InClass(y, d)' <=> InClass(y, d)
  BY <1>2 DEF InClass
<1>17. \A y \in Chunks : ~MoverHolds(y)' /\ (y # x /\ y # n => ~MoverHolds(y))
  BY <1>1, <1>2, Constants DEF MoverHolds
<1>18. UNCHANGED <<wpc, op, wkey, wcls, it, victim>>
  BY <1>2 DEF workVars
<1>19. IsCleared(x)' /\ ~IsLinked(x)' /\ item'[x].refcount = 0
  BY <1>10, ClearedFields, Flags DEF IsCleared, IsLinked
<1>20. Used(n)' /\ IsLinked(n)' /\ item'[n].refcount = 1 /\ item'[n].slabs_clsid = c
       /\ item'[n].key = k
  BY <1>9, <1>10 DEF Used, IsLinked
<1>21. MoverOK'
  <2>1. /\ slab_rebal.slab_start \in Pages /\ slab_list[c] # <<>> /\ c # slab_rebal.d_clsid
        /\ slab_list[c][1] = slab_rebal.slab_start /\ slab_rebal.slab_pos \in 1 .. PerSlab[c]
    BY <1>1, <1>2, <1>3 DEF MoverOK
  <2> QED BY <1>2, <1>3, <1>4, <1>15, <2>1 DEF MoverOK
<1>22. SweptClear'
  <2>1. Swept' = slab_rebal.slab_pos /\ Swept = slab_rebal.slab_pos - 1
    BY <1>2 DEF Swept
  <2> SUFFICES ASSUME ~slab_rebal.busy_items, NEW i \in 1 .. slab_rebal.slab_pos
               PROVE  IsCleared(<<slab_rebal.slab_start, i>>)'
    BY <1>2, <1>3, <2>1 DEF SweptClear
  <2>2. CASE i \in 1 .. Swept
    <3>1. PICK y \in Chunks : y = <<slab_rebal.slab_start, i>>
      BY <1>3, <2>2, SweptFacts
    <3>2. IsCleared(y)
      BY <1>3, <2>2, <3>1 DEF SweptClear
    <3>3. y # x /\ y # n
      BY <1>5, <1>7, <3>2, Kinds DEF Plain
    <3> QED BY <1>2, <1>10, <3>1, <3>2, <3>3 DEF IsCleared
  <2>3. CASE i \notin 1 .. Swept
    <3>1. slab_rebal.slab_pos \in Nat
      BY RebalTyped
    <3>2. i = slab_rebal.slab_pos
      BY <2>1, <2>3, <3>1
    <3>3. <<slab_rebal.slab_start, i>> = x
      BY <1>1, <3>2 DEF Pos
    <3> QED BY <1>2, <1>19, <3>3 DEF IsCleared
  <2> QED BY <2>2, <2>3
<1>23. \A d \in Classes : x \notin slots'[d] /\ n \notin slots'[d]
  <2>1. \A d \in Classes : x \notin slots'[d]
    BY <1>2, <1>5 DEF Plain
  <2>2. \A d \in Classes : n \in slots[d] => InClass(n, d)
    BY DEF ChunksAccounted
  <2> QED BY <1>2, <1>7, <2>1, <2>2, AccountedNow
<1>24. Fate(x, c)
  BY <1>4, <1>15, <1>19, <1>23 DEF Fate
<1>25. Fate(n, c) /\ ItemThen(n)
  <2>1. Count(n)' = 0
    BY <1>8, <1>18, CountNow
  <2>2. Exact(n)'
    BY <1>7, <1>17, <1>20, <2>1 DEF Exact, BIT
  <2> QED BY <1>4, <1>6, <1>7, <1>16, <1>20, <1>23, <2>2 DEF Fate, ItemThen
<1>26. \A d \in Classes : InClass(x, d) \/ InClass(n, d) => d = c
  BY <1>4, <1>7, OneClass
<1>27. \A v \in Workers : it[v] \notin {x, n} /\ victim[v] \notin {x, n}
  <2>1. \A v \in Workers : it[v] # n
    BY <1>8, CountNow
  <2>2. \A v \in Workers : victim[v] # n
    BY <1>1, <1>7, VictimFacts, Constants DEF Plain
  <2> QED BY <1>5, <1>6, <2>1, <2>2
<1>28. \A j \in Keys : assoc[j] # n
  BY <1>1, <1>7, TableFacts, Constants DEF Plain
<1>29. PICK T : T = {x, n}
  OBVIOUS
<1>30. Handles(T)
  <2>1. \A y \in Chunks \ T :
          /\ item'[y] = item[y] /\ (MoverHolds(y)' <=> MoverHolds(y))
          /\ (y = new_it => y = new_it') /\ (InRange(y) => InRange(y)')
          /\ \A d \in Classes : /\ InClass(y, d)' <=> InClass(y, d)
                                /\ y \in slots'[d] <=> y \in slots[d]
    BY <1>1, <1>2, <1>10, <1>15, <1>16, <1>17, <1>29
  <2>2. \A y \in T : /\ \A d \in Classes : /\ InClass(y, d)' => Fate(y, d)
                                           /\ y \notin slots'[d]
                     /\ ~(\A d \in Classes : ~InClass(y, d)')
    BY <1>4, <1>7, <1>16, <1>23, <1>24, <1>25, <1>26, <1>29
  <2>3. \A y \in T : IsLinked(y)' => assoc'[item'[y].key] = y
    BY <1>11, <1>19, <1>20, <1>29
  <2>4. \A v \in Workers : \A y \in T : victim[v] # y /\ it[v] # y
    BY <1>27, <1>29
  <2>5. \A j \in Keys : item_locks[j] \in Workers => item_locks'[j] = item_locks[j]
    BY <1>5, <1>12, Constants
  <2>6. \A j \in Keys :
          /\ assoc[j] # None /\ assoc[j] \notin T => assoc'[j] = assoc[j]
          /\ assoc'[j] # None => \/ assoc'[j] = assoc[j] /\ assoc[j] \notin T
                                 \/ \E y \in T : /\ assoc'[j] = y /\ ItemThen(y)
                                                 /\ item'[y].key = j /\ IsLinked(y)'
    <3> SUFFICES ASSUME NEW j \in Keys
                 PROVE  /\ assoc[j] # None /\ assoc[j] \notin T => assoc'[j] = assoc[j]
                        /\ assoc'[j] # None => \/ assoc'[j] = assoc[j] /\ assoc[j] \notin T
                                               \/ \E y \in T : /\ assoc'[j] = y /\ ItemThen(y)
                                                               /\ item'[y].key = j /\ IsLinked(y)'
      OBVIOUS
    <3>1. CASE j = k
      BY <1>6, <1>11, <1>20, <1>25, <1>29, <3>1
    <3>2. CASE j # k
      BY <1>6, <1>11, <1>28, <1>29, <3>2
    <3> QED BY <3>1, <3>2
  <2>7. T \subseteq Chunks
    BY <1>4, <1>7, <1>29
  <2>8. \A y \in T : /\ \A d \in Classes : /\ InClass(y, d)' => Fate(y, d)
                                           /\ y \in slots'[d] => InClass(y, d)'
                     /\ (\A d \in Classes : ~InClass(y, d)') =>
                          item'[y].refcount = 0 /\ ~IsLinked(y)'
                     /\ \A d \in Classes : InClass(y, d)' /\ IsLinked(y)' =>
                          assoc'[item'[y].key] = y
    BY <2>2, <2>3
  <2>9. \A v \in Workers : \A y \in T :
          /\ victim[v] # y
          /\ it[v] = y => /\ ItemThen(y) /\ item'[y].key = item[y].key
                          /\ IsLinked(y)' => IsLinked(y)
    BY <2>4
  <2> QED BY <1>2, <2>1, <2>5, <2>6, <2>7, <2>8, <2>9 DEF Handles
<1> QED BY <1>13, <1>14, <1>21, <1>22, <1>30, MoverStepOn

\* Page p goes to d, and the pool may give some pages back.
PageMoved(d, p) ==
    /\ slab_list' \in Lists /\ mem_malloced' \in Nat /\ PagesOwnedOnce'
    /\ \A y \in Chunks : \A e \in Classes :
         InClass(y, e)' <=> \/ y[1] # p /\ InClass(y, e)
                            \/ y[1] = p /\ e = d /\ y \in ChunksOf(p, d)
LEMMA FinishPages ==
    ASSUME IInv, slab_rebalance_finish
    PROVE  PageMoved(slab_rebal.d_clsid, slab_rebal.slab_start)
<1>1. PICK L, m, c, d, p, pool, n :
        /\ L = slab_list /\ m = mem_malloced /\ c = SrcCls /\ d = slab_rebal.d_clsid
        /\ p = slab_rebal.slab_start /\ pool = Append(L[POOL], p)
        /\ n = IF d = POOL THEN Released(pool, m, mem_limit) ELSE 0
        /\ slab_list' = [L EXCEPT
               ![c] = Tail(L[c]),
               ![d] = IF d = POOL THEN SubSeq(pool, 1, Len(pool) - n) ELSE Append(@, p)]
        /\ mem_malloced' = m - n
  BY DEF slab_rebalance_finish
<1>2. /\ mpc = "finish" /\ c \in Classes /\ c # d /\ d \in Classes \cup {POOL} /\ p \in Pages
      /\ L[c] # <<>> /\ L[c][1] = p
  BY <1>1, RebalTyped DEF slab_rebalance_finish, MoverOK
<1>3. L \in Lists /\ m \in Nat /\ Once(L) /\ Cardinality(All(L)) <= m /\ mem_limit \in Nat
  BY <1>1, TypeNow, PagesNow DEF Bought
<1>4. PICK A : A = Shift(L, c)
  OBVIOUS
<1>5. /\ A \in Lists /\ Once(A) /\ On(A, c) = On(L, c) \ {p} /\ All(A) = All(L) \ {p}
      /\ p \in All(L) /\ \A e \in Classes \cup {POOL} : e # c => A[e] = L[e]
  BY <1>2, <1>3, <1>4, TakeFirst
<1>6. PICK B : B = Put(A, d, p)
  OBVIOUS
<1>7. /\ B \in Lists /\ Once(B) /\ On(B, d) = On(A, d) \cup {p} /\ All(B) = All(A) \cup {p}
      /\ \A e \in Classes \cup {POOL} : e # d => B[e] = A[e]
  BY <1>2, <1>5, <1>6, GivePage
<1>8. All(B) = All(L)
  BY <1>5, <1>7
<1>9. \A e \in Classes \cup {POOL} : p \notin On(A, e) /\ (e # c => On(A, e) = On(L, e))
  BY <1>5 DEF All, On
<1>10. B[d] = Append(L[d], p) /\ B[c] = Tail(L[c]) /\ A[d] = L[d]
       /\ \A e \in Classes \cup {POOL} : e # c /\ e # d => B[e] = L[e]
  BY <1>2, <1>4, <1>5, <1>6, <1>7 DEF Put, Shift, Lists
<1>11. PICK M : M = slab_list'
  OBVIOUS
<1>12. /\ M[c] = Tail(L[c]) /\ DOMAIN M = Classes \cup {POOL}
       /\ (d # POOL => M[d] = Append(L[d], p))
       /\ (d = POOL => M[d] = SubSeq(B[d], 1, Len(B[d]) - n))
       /\ \A e \in Classes \cup {POOL} : e # c /\ e # d => M[e] = L[e]
  <2>1. DOMAIN L = Classes \cup {POOL}
    BY <1>3, ListFacts
  <2>2. d = POOL => pool = B[d]
    BY <1>1, <1>10
  <2> QED BY <1>1, <1>2, <1>11, <2>1, <2>2
<1>13. /\ M \in Lists /\ mem_malloced' \in Nat /\ Bought(M, mem_malloced')
       /\ \A e \in Classes : M[e] = B[e]
  <2>1. CASE d # POOL
    <3>1. \A e \in Classes \cup {POOL} : M[e] = B[e]
      BY <1>2, <1>10, <1>12, <2>1
    <3>2. M = B
      <4>1. DOMAIN B = Classes \cup {POOL} /\ B = [e \in DOMAIN B |-> B[e]]
        BY <1>7, ListFacts DEF Lists
      <4>2. M = [e \in DOMAIN M |-> M[e]]
        BY <1>1, <1>3, <1>11 DEF Lists
      <4> QED BY <1>12, <3>1, <4>1, <4>2
    <3>3. n = 0 /\ m - n = m
      BY <1>1, <1>3, <2>1
    <3> QED BY <1>1, <1>3, <1>7, <1>8, <3>1, <3>2, <3>3 DEF Bought
  <2>2. CASE d = POOL
    <3>1. B[d] = pool /\ pool \in Seq(Pages)
      BY <1>1, <1>7, <1>10, <2>2, ListFacts
    <3>2. n \in 0 .. Len(B[d])
      BY <1>1, <1>3, <2>2, <3>1, ReleasedFew
    <3>3. PICK C : C = Cut(B, d, n)
      OBVIOUS
    <3>4. /\ C \in Lists /\ \A e \in Classes \cup {POOL} : e # d => C[e] = B[e]
      BY <1>2, <1>7, <3>2, <3>3, TakeLast
    <3>5. Bought(C, m - n) /\ m - n \in Nat
      BY <1>2, <1>3, <1>7, <1>8, <3>2, <3>3, TakenCount
    <3>6. M = C
      <4>1. C[d] = SubSeq(B[d], 1, Len(B[d]) - n)
        BY <1>2, <1>7, <3>3 DEF Cut, Lists
      <4>2. \A e \in Classes \cup {POOL} : M[e] = C[e]
        BY <1>2, <1>10, <1>12, <2>2, <3>4, <4>1
      <4>3. DOMAIN C = Classes \cup {POOL} /\ C = [e \in DOMAIN C |-> C[e]]
        BY <3>4, ListFacts DEF Lists
      <4>4. M = [e \in DOMAIN M |-> M[e]]
        BY <1>1, <1>3, <1>11 DEF Lists
      <4> QED BY <1>12, <4>2, <4>3, <4>4
    <3>7. \A e \in Classes : e # d
      BY <2>2, Constants
    <3> QED BY <1>1, <3>4, <3>5, <3>6, <3>7
  <2> QED BY <2>1, <2>2
<1>14. PagesOwnedOnce'
  BY <1>11, <1>13, PagesThen
<1>15. \A e \in Classes : On(M, e) = On(B, e)
  BY <1>13 DEF On
<1>16. \A e \in Classes : \A q : q \in On(M, e) <=> (q # p /\ q \in On(L, e)) \/ (q = p /\ e = d)
  <2> SUFFICES ASSUME NEW e \in Classes, NEW q
               PROVE  q \in On(B, e) <=> (q # p /\ q \in On(L, e)) \/ (q = p /\ e = d)
    BY <1>15
  <2>1. CASE e = d
    BY <1>2, <1>7, <1>9, <2>1
  <2>2. CASE e # d
    <3>1. On(B, e) = On(A, e)
      BY <1>7, <2>2 DEF On
    <3> QED BY <1>5, <1>9, <2>2, <3>1
  <2> QED BY <2>1, <2>2
<1>17. ASSUME NEW y \in Chunks, NEW e \in Classes
       PROVE  InClass(y, e)' <=> \/ y[1] # p /\ InClass(y, e)
                                 \/ y[1] = p /\ e = d /\ y \in ChunksOf(p, d)
  <2>1. InClass(y, e)' <=> y[2] <= PerSlab[e] /\ y[1] \in On(M, e)
    BY <1>11, <1>13, PagesThen
  <2>2. InClass(y, e) <=> y[2] <= PerSlab[e] /\ y[1] \in On(L, e)
    BY <1>1, <1>3, PagesNow
  <2>3. e = d => (y \in ChunksOf(p, d) <=> y[1] = p /\ y[2] <= PerSlab[e])
    BY <1>2, ChunkFacts
  <2> QED BY <1>16, <2>1, <2>2, <2>3
<1>18. PageMoved(d, p)
  BY <1>11, <1>13, <1>14, <1>17 DEF PageMoved
<1> QED BY <1>1, <1>18

\* "At this point the stolen slab is completely clear".
LEMMA StolenClear ==
    ASSUME IInv, mpc = "finish", NEW y \in Chunks, InRange(y)
    PROVE  /\ item[y].refcount = 0 /\ ~IsLinked(y) /\ ~Plain(y)
           /\ \A e \in Classes : y \notin slots[e]
<1>1. PICK p, c : p = slab_rebal.slab_start /\ c = SrcCls
  OBVIOUS
<1>2. c \in Classes /\ p \in Pages /\ slab_list[c] # <<>> /\ slab_list[c][1] = p /\ y[1] = p
  BY <1>1 DEF MoverOK, InRange
<1>3. \A e \in Classes : InClass(y, e) => e = c
  <2>1. slab_list \in Lists /\ Once(slab_list)
    BY Typed, PagesNow DEF Bought
  <2>2. 1 \in 1 .. Len(slab_list[c])
    BY <1>2, <2>1, ListFacts
  <2>3. \A e \in Classes : InClass(y, e) => y[1] \in On(slab_list, e)
    BY <2>1, PagesNow
  <2> QED BY <1>2, <2>1, <2>2, <2>3 DEF On, Once
<1>4. CASE InClass(y, c)
  <2>1. y = <<p, y[2]>> /\ y[2] \in Nat \ {0} /\ y[2] <= PerSlab[c] /\ PerSlab[c] \in Nat
    BY <1>2, <1>4, ChunkFacts, Constants DEF InClass
  <2>2. y[2] \in 1 .. PerSlab[c] /\ Swept = PerSlab[c]
    BY <1>1, <2>1 DEF Swept
  <2>3. IsCleared(y)
    <3>1. IsCleared(<<slab_rebal.slab_start, y[2]>>)
      BY <2>2 DEF SweptClear
    <3> QED BY <1>1, <2>1, <3>1
  <2>4. item[y].refcount = 0 /\ ~IsLinked(y) /\ ~Plain(y) /\ y \notin slots[c]
    BY <1>2, <1>4, <2>3, Kinds, AccountedNow DEF Headers, Plain
  <2>5. \A e \in Classes : y \in slots[e] => e = c
    BY <1>3 DEF ChunksAccounted
  <2> QED BY <2>4, <2>5
<1>5. CASE ~InClass(y, c)
  <2>1. \A e \in Classes : ~InClass(y, e)
    BY <1>3, <1>5
  <2> QED BY <2>1 DEF Headers, Plain, ChunksAccounted
<1> QED BY <1>4, <1>5

LEMMA Step_slab_rebalance_finish ==
    ASSUME IInv, slab_rebalance_finish
    PROVE  IInv'
<1>1. PICK p, c, d : p = slab_rebal.slab_start /\ c = SrcCls /\ d = slab_rebal.d_clsid
  OBVIOUS
<1>2. /\ mpc = "finish" /\ mpc' = "wait" /\ slab_rebal' = Idle /\ new_it' = new_it
      /\ UNCHANGED workVars /\ UNCHANGED <<assoc, item_locks, mem_limit>>
  BY DEF slab_rebalance_finish
<1>3. /\ d = POOL => UNCHANGED <<slots, item>>
      /\ d # POOL => /\ slots' = [slots EXCEPT ![d] = slots[d] \cup ChunksOf(p, d)]
                     /\ item' = [y \in Chunks |-> IF y \in ChunksOf(p, d) THEN Zeroed
                                                                         ELSE item[y]]
  BY <1>1 DEF slab_rebalance_finish
<1>4. c \in Classes /\ d \in Classes \cup {POOL} /\ c # d /\ p \in Pages /\ new_it = None
  BY <1>1, <1>2, RebalTyped DEF MoverOK
<1>5. PageMoved(d, p)
  BY <1>1, FinishPages
<1>6. slab_list' \in Lists /\ mem_malloced' \in Nat /\ PagesOwnedOnce'
  BY <1>5 DEF PageMoved
<1>7. \A y \in Chunks : \A e \in Classes :
        InClass(y, e)' <=> \/ y[1] # p /\ InClass(y, e)
                           \/ y[1] = p /\ e = d /\ y \in ChunksOf(p, d)
  BY <1>5 DEF PageMoved
<1>8. d # POOL => ChunksOf(p, d) \subseteq Chunks /\ \A y \in ChunksOf(p, d) : y[1] = p
  BY <1>4, ChunkFacts
<1>9. ASSUME NEW y \in Chunks, y[1] = p
      PROVE  /\ item[y].refcount = 0 /\ ~IsLinked(y) /\ ~Plain(y)
             /\ \A e \in Classes : y \notin slots[e]
  BY <1>1, <1>2, <1>9, StolenClear DEF InRange
<1>10. /\ Zeroed \in HeaderType /\ Zeroed.it_flags = {SLABBED} /\ Zeroed.refcount = 0
       /\ Zeroed.slabs_clsid = 0
  BY HeaderFields DEF Zeroed, POOL
<1>11. item' \in [Chunks -> HeaderType] /\ slots' \in [Classes -> SUBSET Chunks]
  <2>1. CASE d = POOL
    BY <1>3, <2>1, TypeNow
  <2>2. CASE d # POOL
    BY <1>3, <1>4, <1>8, <1>10, <2>2, TypeNow
  <2> QED BY <2>1, <2>2
<1>12. \A y \in Chunks : y[1] # p => item'[y] = item[y]
  BY <1>3, <1>8
<1>13. \A y \in Chunks : y[1] = p /\ ~(d # POOL /\ y \in ChunksOf(p, d)) => item'[y] = item[y]
  BY <1>3
<1>14. d # POOL => \A y \in ChunksOf(p, d) : item'[y] = Zeroed /\ y \in slots'[d]
  BY <1>3, <1>4, <1>8, TypeNow
<1>15. \A e \in Classes : \A y \in Chunks :
         y \in slots'[e] <=> y \in slots[e] \/ (d # POOL /\ e = d /\ y \in ChunksOf(p, d))
  BY <1>3, <1>4, TypeNow
<1>16. /\ Idle \in RebalType /\ Idle.slab_start = None /\ Idle.slab_pos = 1
  <2>1. POOL = 0 /\ 0 \in 0 .. MaxLoops + 1
    BY LimitAssumption DEF POOL
  <2> QED BY <2>1 DEF Idle, RebalType
<1>17. TypeOK'
  BY <1>2, <1>6, <1>11, <1>16, TypeNow, TypeThen DEF workVars
<1>18. MoverOK' /\ SweptClear'
  <2>1. ~Holding' /\ ~Moving' /\ mpc' = "wait"
    BY <1>2 DEF Holding, Moving
  <2>2. slab_rebal'.slab_start = None /\ slab_rebal'.slab_pos = 1 /\ new_it' = None
    BY <1>2, <1>4, <1>16
  <2> QED BY <2>1, <2>2 DEF MoverOK, SweptClear
<1>19. \A y \in Chunks : ~MoverHolds(y) /\ ~MoverHolds(y)' /\ y # new_it /\ y # new_it'
  BY <1>2, Unheld DEF Holding
<1>20. PICK T : T = {y \in Chunks : y[1] = p}
  OBVIOUS
<1>21. ASSUME NEW y \in T
       PROVE  /\ \A e \in Classes : /\ InClass(y, e)' => Fate(y, e)
                                    /\ y \in slots'[e] => InClass(y, e)'
              /\ (\A e \in Classes : ~InClass(y, e)') => item'[y].refcount = 0 /\ ~IsLinked(y)'
              /\ ~IsLinked(y)'
  <2>1. y \in Chunks /\ y[1] = p
    BY <1>20
  <2>2. CASE d # POOL /\ y \in ChunksOf(p, d)
    <3>1. item'[y] = Zeroed /\ y \in slots'[d] /\ d \in Classes
      BY <1>4, <1>14, <2>2
    <3>2. IsFree(y)' /\ item'[y].slabs_clsid = 0 /\ ~IsLinked(y)' /\ item'[y].refcount = 0
      BY <1>10, <3>1, Flags DEF IsFree, IsLinked
    <3>3. \A e \in Classes : (InClass(y, e)' => e = d) /\ (y \in slots'[e] => e = d)
      BY <1>7, <1>9, <1>15, <2>1
    <3>4. InClass(y, d)' /\ Fate(y, d)
      BY <1>7, <2>1, <2>2, <3>1, <3>2 DEF Fate
    <3> QED BY <3>2, <3>3, <3>4
  <2>3. CASE ~(d # POOL /\ y \in ChunksOf(p, d))
    <3>1. item'[y] = item[y] /\ item[y].refcount = 0 /\ ~IsLinked(y)
      BY <1>9, <1>13, <2>1, <2>3
    <3>2. \A e \in Classes : ~InClass(y, e)' /\ y \notin slots'[e]
      BY <1>7, <1>9, <1>15, <2>1, <2>3, Constants
    <3> QED BY <3>1, <3>2 DEF IsLinked
  <2> QED BY <2>2, <2>3
<1>22. Handles(T)
  <2>1. \A y \in Chunks \ T :
          /\ item'[y] = item[y] /\ (MoverHolds(y)' <=> MoverHolds(y))
          /\ (y = new_it => y = new_it') /\ (InRange(y) => InRange(y)')
          /\ \A e \in Classes : /\ InClass(y, e)' <=> InClass(y, e)
                                /\ y \in slots'[e] <=> y \in slots[e]
    <3> SUFFICES ASSUME NEW y \in Chunks, y[1] # p
                 PROVE  /\ item'[y] = item[y] /\ (MoverHolds(y)' <=> MoverHolds(y))
                        /\ (y = new_it => y = new_it') /\ (InRange(y) => InRange(y)')
                        /\ \A e \in Classes : /\ InClass(y, e)' <=> InClass(y, e)
                                              /\ y \in slots'[e] <=> y \in slots[e]
      BY <1>20
    <3>1. ~InRange(y)
      BY <1>1 DEF InRange
    <3>2. \A e \in Classes : y \in slots'[e] <=> y \in slots[e]
      BY <1>8, <1>15
    <3> QED BY <1>7, <1>12, <1>19, <3>1, <3>2
  <2>2. \A y \in T : ~Plain(y) /\ y \in Chunks /\ y # None
    BY <1>9, <1>20, Constants
  <2>3. \A v \in Workers : \A y \in T : victim[v] # y /\ it[v] # y
    BY <2>2, HeldFacts, VictimFacts
  <2>4. \A j \in Keys : assoc[j] \notin T
    BY <2>2, TableFacts
  <2>5. \A y \in T : /\ \A e \in Classes : /\ InClass(y, e)' => Fate(y, e)
                                           /\ y \in slots'[e] => InClass(y, e)'
                     /\ (\A e \in Classes : ~InClass(y, e)') =>
                          item'[y].refcount = 0 /\ ~IsLinked(y)'
                     /\ \A e \in Classes : InClass(y, e)' /\ IsLinked(y)' =>
                          assoc'[item'[y].key] = y
    BY <1>21
  <2>6. T \subseteq Chunks
    BY <1>20
  <2> QED BY <1>2, <2>1, <2>3, <2>4, <2>5, <2>6 DEF Handles
<1> QED BY <1>6, <1>17, <1>18, <1>22, MoverStepOn

-----------------------------------------------------------------------------
(* The initial states.                                                     *)

LEMMA InitPages ==
    ASSUME Init
    PROVE  /\ slab_list \in Lists /\ mem_malloced \in Nat /\ PagesOwnedOnce
           /\ \A c \in Classes : slab_list[c] = <<>>
<1>1. PICK pool : /\ pool \in Seq(Pages)
                  /\ \A i, j \in 1 .. Len(pool) : pool[i] = pool[j] => i = j
                  /\ slab_list = [c \in Classes \cup {POOL} |-> IF c = POOL THEN pool ELSE <<>>]
                  /\ mem_malloced = Len(pool)
  <2>1. PICK pool \in IF Prefill THEN {s \in [1 .. InitLimit -> Pages] :
                                          \A i, j \in 1 .. InitLimit : i # j => s[i] # s[j]}
                                 ELSE {<<>>} :
          /\ slab_list = [c \in Classes \cup {POOL} |-> IF c = POOL THEN pool ELSE <<>>]
          /\ mem_malloced = Len(pool)
    BY DEF Init
  <2>2. CASE ~Prefill
    <3>1. pool = <<>>
      BY <2>2
    <3>2. pool \in Seq(Pages) /\ Len(pool) = 0
      BY <3>1
    <3>3. \A i, j \in 1 .. Len(pool) : pool[i] = pool[j] => i = j
      BY <3>2
    <3> QED BY <2>1, <3>2, <3>3
  <2>3. CASE Prefill
    <3>1. pool \in [1 .. InitLimit -> Pages] /\ InitLimit \in Nat
          /\ \A i, j \in 1 .. InitLimit : i # j => pool[i] # pool[j]
      BY <2>3, LimitAssumption
    <3>2. pool \in Seq(Pages) /\ Len(pool) = InitLimit
      BY <3>1, SeqDef, LenProperties
    <3> QED BY <2>1, <3>1, <3>2
  <2> QED BY <2>2, <2>3
<1>2. POOL \notin Classes
  BY Constants
<1>3. slab_list[POOL] = pool /\ \A c \in Classes : slab_list[c] = <<>>
  BY <1>1, <1>2
<1>4. Len(<<>>) = 0 /\ <<>> \in Seq(Pages)
  OBVIOUS
<1>5. slab_list \in Lists
  BY <1>1, <1>4 DEF Lists
<1>6. mem_malloced \in Nat
  BY <1>1
<1>7. Once(slab_list)
  BY <1>1, <1>3, <1>4 DEF Once
<1>8. Cardinality(All(slab_list)) <= mem_malloced
  <2>1. All(slab_list) = On(slab_list, POOL)
    BY <1>3, <1>4 DEF All, On
  <2>2. On(slab_list, POOL) = {pool[i] : i \in 1 .. Len(pool)}
    BY <1>3 DEF On
  <2>3. PICK n \in Nat : n = Len(pool)
    BY <1>1
  <2>4. PICK f : f = [i \in 1 .. n |-> pool[i]]
    OBVIOUS
  <2>5. f \in Surjection(1 .. n, {pool[i] : i \in 1 .. n})
    BY <2>4 DEF Surjection
  <2>6. ExistsSurjection(1 .. n, {pool[i] : i \in 1 .. n})
    BY <2>5 DEF ExistsSurjection
  <2>7. Cardinality({pool[i] : i \in 1 .. n}) <= n
    BY <2>6, FS_SurjCardinalityBound
  <2> QED BY <1>1, <2>1, <2>2, <2>3, <2>7
<1> QED BY <1>3, <1>5, <1>6, <1>7, <1>8, PagesNow DEF Bought

LEMMA InitIInv ==
    ASSUME Init
    PROVE  IInv
<1>1. /\ slab_list \in Lists /\ mem_malloced \in Nat /\ PagesOwnedOnce
      /\ \A c \in Classes : slab_list[c] = <<>>
  BY InitPages
<1>2. /\ slots = [c \in Classes |-> {}] /\ item = [x \in Chunks |-> Header({}, 0, 0, None)]
      /\ assoc = [k \in Keys |-> None] /\ item_locks = [k \in Keys |-> None]
      /\ mem_limit = InitLimit
      /\ wpc = [w \in Workers |-> "idle"] /\ op = [w \in Workers |-> NoOp]
      /\ wkey = [w \in Workers |-> None] /\ wcls = [w \in Workers |-> POOL]
      /\ it = [w \in Workers |-> None] /\ victim = [w \in Workers |-> None]
      /\ slab_rebal = Idle /\ new_it = None /\ mpc = "wait"
  BY DEF Init
<1>3. /\ Idle \in RebalType /\ Idle.slab_start = None /\ Idle.slab_pos = 1
  <2>1. POOL = 0 /\ 0 \in 0 .. MaxLoops + 1
    BY LimitAssumption DEF POOL
  <2> QED BY <2>1 DEF Idle, RebalType
<1>4. PICK g \in HeaderType : /\ g = Header({}, 0, 0, None) /\ g.refcount = 0
                              /\ g.it_flags = {}
  BY HeaderFields DEF POOL
<1>5. \A x \in Chunks : item[x].refcount = 0 /\ ~IsLinked(x)
  BY <1>2, <1>4 DEF IsLinked
<1>6. TypeOK
  <2>1. slab_list \in [Classes \cup {POOL} -> Seq(Pages)] /\ mem_malloced \in Nat
    BY <1>1 DEF Lists
  <2>2. item \in [Chunks -> [it_flags : SUBSET {LINKED, SLABBED, FETCHED}, refcount : Nat,
                             slabs_clsid : Classes \cup {POOL}, key : Keys \cup {None}]]
    BY <1>2, <1>4 DEF HeaderType
  <2>3. slab_rebal \in [s_clsid : Classes \cup {POOL}, d_clsid : Classes \cup {POOL},
                        slab_start : Pages \cup {None}, slab_pos : Nat,
                        busy_items : BOOLEAN, busy_loops : 0 .. MaxLoops + 1]
    BY <1>2, <1>3 DEF RebalType
  <2>4. op \in [Workers -> Ops]
    BY <1>2, NoOps
  <2> QED BY <1>2, <2>1, <2>2, <2>3, <2>4, LimitAssumption DEF TypeOK
<1>7. \A x, c : c \in Classes => ~InClass(x, c)
  <2>1. DOMAIN <<>> = {}
    OBVIOUS
  <2> QED BY <1>1, <2>1 DEF InClass
<1>8. ChunksAccounted
  BY <1>2, <1>7 DEF ChunksAccounted
<1>9. Headers
  BY <1>5, <1>7 DEF Headers
<1>10. RefcountExact
  BY <1>7 DEF RefcountExact
<1>11. NoDanglingItem
  BY <1>2, <1>7 DEF NoDanglingItem
<1>12. \A w \in Workers : WorkerOK(w)
  <2> SUFFICES ASSUME NEW w \in Workers PROVE WorkerOK(w)
    OBVIOUS
  <2>1. /\ wpc[w] = "idle" /\ op[w].do = "none" /\ it[w] = None /\ victim[w] = None
    BY <1>2, NoOps
  <2> QED BY <2>1 DEF WorkerOK, HasNew
<1>13. MoverOK /\ SweptClear
  <2>1. ~Holding /\ ~Moving
    BY <1>2 DEF Holding, Moving
  <2> QED BY <1>2, <1>3, <2>1 DEF MoverOK, SweptClear
<1> QED BY <1>1, <1>6, <1>8, <1>9, <1>10, <1>11, <1>12, <1>13

-----------------------------------------------------------------------------
(* The invariant.                                                          *)

LEMMA Stutter ==
    ASSUME IInv, UNCHANGED vars
    PROVE  IInv'
<1>1. /\ UNCHANGED <<item, slots, assoc, item_locks>> /\ UNCHANGED workVars
      /\ UNCHANGED moverVars /\ UNCHANGED <<slab_list, memVars>>
  BY DEF vars
<1>2. UNCHANGED <<wpc, op, wkey, wcls, it, victim>> /\ UNCHANGED <<slab_rebal, new_it, mpc>>
      /\ UNCHANGED <<mem_limit, mem_malloced>>
  BY <1>1 DEF workVars, moverVars, memVars
<1>3. TypeOK'
  BY <1>1, <1>2, TypeNow, TypeThen
<1>4. PagesOwnedOnce'
  BY <1>1, SamePages
<1>5. Watches
  <2>1. Moving \/ mpc = "finish" =>
          slab_list'[SrcCls] # <<>> /\ slab_list'[SrcCls][1] = slab_list[SrcCls][1]
    BY <1>1 DEF MoverOK
  <2>2. Holding => \A v \in Workers : it'[v] # Pos
    BY <1>2 DEF MoverOK
  <2>3. \A y \in Chunks : InClass(y, SrcCls) => InClass(y, SrcCls)'
    BY <1>1, <1>2 DEF InClass, SrcCls
  <2> QED BY <1>1, <2>1, <2>2, <2>3 DEF Watches
<1>6. MoverOK' /\ SweptClear'
  BY <1>5, MoverSame
<1>7. \A y \in Chunks, d \in Classes : InClass(y, d)' <=> InClass(y, d)
  BY <1>1 DEF InClass
<1>8. \A y \in Chunks : /\ MoverHolds(y)' <=> MoverHolds(y)
                        /\ y = new_it => y = new_it'
                        /\ InRange(y) => InRange(y)'
  BY <1>2 DEF MoverHolds, Pos, InRange
<1> QED BY <1>1, <1>3, <1>4, <1>6, <1>7, <1>8, Still

LEMMA StepIInv ==
    ASSUME OutOfClasses, IInv, [Next]_vars
    PROVE  IInv'
<1>1. ASSUME NEW w \in Workers, Worker(w) PROVE IInv'
  BY <1>1, Step_slabs_alloc, Step_do_slabs_newslab, Step_AllocFails, Step_lru_pull_tail,
     Step_GiveUp, Step_item_lock, Step_do_item_get, Step_store_item, Step_item_unlink,
     Step_item_remove, Step_item_free DEF Worker
<1>2. ASSUME MoverStep PROVE IInv'
  BY <1>2, Step_slab_rebalance_start, Step_MoveUnlinked, Step_MoveLinked, Step_MoveBusy,
     Step_MoveBusyDelete, Step_MoveFromLRU, Step_MoveExpired, Step_Rescue, Step_Evict,
     Step_EvictFree, Step_Relock, Step_slab_rebalance_finish DEF MoverStep
<1> QED BY <1>1, <1>2, Step_slabs_reassign, Step_slabs_adjust_mem_limit,
           Step_stop_slab_maintenance_thread, Stutter DEF Next

\* The mover asks the freelist for a chunk at most as often as the page has
\* chunks, one of which is the item itself.
LEMMA RoomToLook ==
    ASSUME IInv, mpc = "trylock", IsLinked(Pos), NEW R, R \subseteq slots[SrcCls],
           \A y \in R : InRange(y)
    PROVE  Cardinality(R) # PerSlab[SrcCls]
<1>1. PICK p, c, x, n : /\ p = slab_rebal.slab_start /\ c = SrcCls /\ x = Pos /\ n = PerSlab[c]
  OBVIOUS
<1>2. Moving
  BY DEF Moving
<1>3. p \in Pages /\ c \in Classes /\ n \in Nat /\ x \in Chunks /\ InClass(x, c) /\ x[1] = p
  BY <1>1, <1>2, PosFacts, Constants DEF MoverOK, InRange
<1>4. x \notin slots[c]
  BY <1>1, <1>2, <1>3, PosLinked DEF Plain
<1>5. R \subseteq ChunksOf(p, c)
  <2> SUFFICES ASSUME NEW y \in R PROVE y \in ChunksOf(p, c)
    OBVIOUS
  <2>1. y \in Chunks /\ InClass(y, c) /\ y[1] = p
    BY <1>1, <1>3, Typed DEF ChunksAccounted, InRange
  <2>2. y[2] <= PerSlab[c]
    BY <2>1 DEF InClass
  <2> QED BY <1>3, <2>1, <2>2, ChunkFacts
<1>6. x \in ChunksOf(p, c)
  <2>1. x[2] <= PerSlab[c]
    BY <1>3 DEF InClass
  <2> QED BY <1>3, <2>1, ChunkFacts
<1>7. IsFiniteSet(ChunksOf(p, c)) /\ Cardinality(ChunksOf(p, c)) <= n
  <2>1. PICK f : f = [i \in 1 .. n |-> <<p, i>>]
    OBVIOUS
  <2>2. f \in Surjection(1 .. n, ChunksOf(p, c))
    BY <1>1, <2>1 DEF Surjection, ChunksOf
  <2>3. ExistsSurjection(1 .. n, ChunksOf(p, c))
    BY <2>2 DEF ExistsSurjection
  <2> QED BY <1>3, <2>3, FS_NatSurjection, FS_SurjCardinalityBound
<1>8. PICK S : S = ChunksOf(p, c) \ {x}
  OBVIOUS
<1>9. IsFiniteSet(S) /\ Cardinality(S) = Cardinality(ChunksOf(p, c)) - 1
  BY <1>6, <1>7, <1>8, FS_RemoveElement
<1>10. R \subseteq S
  BY <1>1, <1>4, <1>5, <1>8
<1>11. Cardinality(R) <= Cardinality(S) /\ Cardinality(R) \in Nat /\ Cardinality(S) \in Nat
       /\ Cardinality(ChunksOf(p, c)) \in Nat
  BY <1>7, <1>9, <1>10, FS_Subset, FS_CardinalityType
<1> QED BY <1>1, <1>3, <1>7, <1>9, <1>11

HIDE DEF IInv

\* The inductive invariant holds in every state, if pages are moved out of
\* classes.
THEOREM Invariance == ASSUME OutOfClasses PROVE Spec => []IInv
<1>1. Init => IInv
  BY InitIInv
<1>2. IInv /\ [Next]_vars => IInv'
  BY StepIInv
<1> QED BY <1>1, <1>2, PTL DEF Spec

\* Every variable keeps its type.
THEOREM TypeCorrect == ASSUME OutOfClasses PROVE Spec => []TypeOK
<1>1. IInv => TypeOK
  BY DEF IInv
<1> QED BY <1>1, Invariance, PTL

\* A page belongs to one class or to the pool, once, and is paid for, however
\* moves, new pages and changes of the memory limit cross each other.
THEOREM PagesOnce == ASSUME OutOfClasses PROVE Spec => []PagesOwnedOnce
<1>1. IInv => PagesOwnedOnce
  BY DEF IInv
<1> QED BY <1>1, Invariance, PTL

\* Every chunk of a class is on its freelist, cleared by the mover, or an item
\* that somebody has: nothing is lost when slabs_free crosses a move.
THEOREM Accounted == ASSUME OutOfClasses PROVE Spec => []ChunksAccounted
<1>1. IInv => ChunksAccounted
  BY DEF IInv
<1> QED BY <1>1, Invariance, PTL

\* refcount is the number of references, for every number of workers.
THEOREM CountsExact == ASSUME OutOfClasses PROVE Spec => []RefcountExact
<1>1. IInv => RefcountExact
  BY DEF IInv
<1> QED BY <1>1, Invariance, PTL

\* Nobody refers to memory that is free, cleared or given to another class, and
\* the hash table holds exactly the linked items.
THEOREM NoneDangling == ASSUME OutOfClasses PROVE Spec => []NoDanglingItem
<1>1. IInv => NoDanglingItem
  BY DEF IInv
<1> QED BY <1>1, Invariance, PTL

\* The page that the mover hands over is the first of its class and clear.
THEOREM PageClear == ASSUME OutOfClasses PROVE Spec => []StolenPageClear
<1>1. ASSUME IInv PROVE StolenPageClear
  <2> SUFFICES ASSUME mpc = "finish"
               PROVE  /\ slab_list[SrcCls] # <<>>
                      /\ Head(slab_list[SrcCls]) = slab_rebal.slab_start
                      /\ \A x \in Chunks : InRange(x) =>
                           /\ \A c \in Classes : x \notin slots[c]
                           /\ item[x].refcount = 0 /\ LINKED \notin item[x].it_flags
    BY DEF StolenPageClear
  <2>1. \A x \in Chunks : InRange(x) =>
          /\ \A c \in Classes : x \notin slots[c]
          /\ item[x].refcount = 0 /\ LINKED \notin item[x].it_flags
    BY <1>1, StolenClear DEF IsLinked
  <2>2. slab_list[SrcCls] # <<>> /\ slab_list[SrcCls][1] = slab_rebal.slab_start
    BY <1>1 DEF IInv, MoverOK
  <2>3. Head(slab_list[SrcCls]) = slab_list[SrcCls][1]
    OBVIOUS
  <2> QED BY <2>1, <2>2, <2>3
<1> QED BY <1>1, Invariance, PTL

\* The mover throws an item away for want of memory only when no chunk outside
\* the page is free: the loop of slab_rebalance_alloc is long enough, for every
\* number of chunks to a page.
THEOREM EvictionNeeded == ASSUME OutOfClasses PROVE Spec => NoNeedlessEviction
<1>1. ASSUME IInv, MoveFromLRU, mpc' = "evict" PROVE slots'[SrcCls] = {}
  <2>1. PICK R \in SUBSET slots[SrcCls], new \in slots[SrcCls] \cup {None} :
          /\ slab_rebalance_alloc(R, new)
          /\ mpc' = IF new = None THEN "evict" ELSE "rescue"
    BY <1>1 DEF MoveFromLRU
  <2>2. new = None
    BY <1>1, <2>1
  <2>3. mpc = "trylock" /\ IsLinked(Pos)
    BY <1>1 DEF MoveFromLRU, HoldItem, IsLinked
  <2>4. \A y \in R : InRange(y)
    BY <2>1 DEF slab_rebalance_alloc
  <2>5. Cardinality(R) # PerSlab[SrcCls]
    BY <1>1, <2>3, <2>4, RoomToLook
  <2>6. SrcCls \in Classes /\ slots \in [Classes -> SUBSET Chunks] /\ None \notin Chunks
    BY <1>1, <2>3, TypeNow, Constants DEF IInv, MoverOK
  <2>7. R = slots[SrcCls]
    BY <2>1, <2>2, <2>5, <2>6 DEF slab_rebalance_alloc
  <2>8. slots' = [slots EXCEPT ![SrcCls] = slots[SrcCls] \ (R \cup {new})]
        /\ slab_rebal' = slab_rebal
    BY <1>1, <2>1 DEF slab_rebalance_alloc, MoveFromLRU
  <2> QED BY <2>6, <2>7, <2>8 DEF SrcCls
<1>2. IInv /\ [Next]_vars => [MoveFromLRU /\ mpc' = "evict" => slots'[SrcCls] = {}]_vars
  BY <1>1
<1> QED BY <1>2, Invariance, PTL DEF Spec, NoNeedlessEviction
=============================================================================
