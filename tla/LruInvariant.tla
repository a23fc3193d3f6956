---------------------------- MODULE LruInvariant ----------------------------
(***************************************************************************)
(* The inductive invariant of Lru and the lemmas that keep it, for any     *)
(* number of keys, items and workers.  First the lists: a list is good if  *)
(* its pointers are those of a sequence that has each node once, and every *)
(* operation makes good lists of good ones.  Then the bump buffers, as bip *)
(* buffers whose regions never meet.  Then the references: a step is put   *)
(* down to one thread and at most one item (Frame), the rest of the        *)
(* invariant carries over, and the one item is counted again.              *)
(***************************************************************************)
EXTENDS Lru, Sequences, FiniteSetTheorems, WellFoundedInduction, TLAPS

-----------------------------------------------------------------------------
(* Good lists.                                                             *)

\* The nodes of a list from its head, as a sequence.
Once(s) == \A i, j \in 1 .. Len(s) : s[i] = s[j] => i = j
In(x, s) == \E i \in 1 .. Len(s) : s[i] = x

\* The pointers r of list l are those of the sequence s.
Chain(r, l, s) ==
    /\ Once(s)
    /\ r.heads[l] = IF s = <<>> THEN None ELSE s[1]
    /\ r.tails[l] = IF s = <<>> THEN None ELSE s[Len(s)]
    /\ \A i \in 1 .. Len(s) : /\ r.next[s[i]] = IF i = Len(s) THEN None ELSE s[i + 1]
                              /\ r.prev[s[i]] = IF i = 1 THEN None ELSE s[i - 1]

\* The list that item x is in, None while it is in no list.
Place(x) == IF ("LINKED" \in item[x].flags \/ Unlinking(x)) /\ ~Moving(x)
            THEN item[x].lru ELSE None
Places == [x \in Items |-> Place(x)]

\* What follows is about any lists r, places P of the items, set en of crawls
\* that run and limits rem of theirs.
Member(P, en, y, l) == (y = l /\ l \in en) \/ (y \in Items /\ P[y] = l)
Placed(P, l) == {x \in Items : P[x] = l}

\* The items the crawl of l has yet to meet are next to its marker s[m],
\* towards the head, and are fewer than the nodes it may still look at.
Ahead(r, en, rem, l, s, a, m) ==
    /\ l \in en => m <= Len(s) /\ s[m] = l
    /\ l \notin en => a = m
    /\ \A y \in Nodes : y \in r.due[l] <=> \E i \in a .. m - 1 : s[i] = y
    /\ a < m /\ rem[l] # 0 => m - a < rem[l]

Lists(l) == Seq(Items \cup {l})
ListOK(r, P, en, rem, l, s) ==
    /\ Chain(r, l, s)
    /\ \A x \in Nodes : In(x, s) <=> Member(P, en, x, l)
    /\ \E m \in 1 .. Len(s) + 1 : \E a \in 1 .. m : Ahead(r, en, rem, l, s, a, m)

ListsType(r) ==
    /\ r = [heads |-> r.heads, tails |-> r.tails, next |-> r.next, prev |-> r.prev,
            sizes |-> r.sizes, due |-> r.due]
    /\ r.heads \in [Lrus -> Nodes \cup {None}] /\ r.tails \in [Lrus -> Nodes \cup {None}]
    /\ r.next \in [Nodes -> Nodes \cup {None}] /\ r.prev \in [Nodes -> Nodes \cup {None}]
    /\ r.sizes \in [Lrus -> Int] /\ r.due \in [Lrus -> SUBSET Items]

Good(r, P, en, rem) ==
    /\ ListsType(r)
    /\ \A l \in Lrus : \E s \in Lists(l) : ListOK(r, P, en, rem, l, s)
    /\ \A l \in Lrus : r.sizes[l] = Cardinality(Placed(P, l))
    /\ \A x \in Items : P[x] = None => r.next[x] = None /\ r.prev[x] = None

ListsInv == Good(q, Places, enabled, remaining)


-----------------------------------------------------------------------------
(* Constants, types, and induction over the natural numbers in the form    *)
(* of a set without a least element.                                       *)

LEMMA Constants ==
    /\ Items \cap Lrus = {} /\ Nodes = Items \cup Lrus /\ None \notin Nodes
    /\ None \notin Keys /\ None \notin Workers /\ None # Maintainer /\ None # Crawler
    /\ Maintainer \notin Workers /\ Crawler \notin Workers /\ Maintainer # Crawler
    /\ Pullers = Workers \cup {Maintainer} /\ IsFiniteSet(Items) /\ IsFiniteSet(Workers)
    /\ BumpSize \in Nat \ {0} /\ Tries \in Nat \ {0} /\ Tocrawl \in Nat
    /\ {HOT, WARM, COLD, TEMP} = Lrus /\ NewLrus \subseteq Lrus
    /\ CAP = -1
BY LruAssumption, NodeAssumption
   DEF Nodes, Pullers, Maintainer, Crawler, Lrus, HOT, WARM, COLD, TEMP, CAP

LEMMA LruNames ==
    /\ HOT # WARM /\ HOT # COLD /\ HOT # TEMP /\ WARM # COLD /\ WARM # TEMP /\ COLD # TEMP
BY DEF HOT, WARM, COLD, TEMP

\* A set of natural numbers has a least element.
LEMMA Least ==
    ASSUME NEW T \in SUBSET Nat, T # {}
    PROVE  \E m \in T : \A j \in T : m <= j
<1>1. IsWellFoundedOn(OpToRel(<, Nat), Nat)
  BY NatLessThanWellFounded
<1>2. PICK x \in T : \A y \in T : ~ (<<y, x>> \in OpToRel(<, Nat))
  BY <1>1, WFMin
<1>3. ASSUME NEW y \in T PROVE x <= y
  <2>1. <<y, x>> \in Nat \X Nat /\ <<y, x>>[1] = y /\ <<y, x>>[2] = x
    OBVIOUS
  <2>2. ~ (y < x)
    BY <2>1, <1>2 DEF OpToRel
  <2> QED BY <2>2
<1> QED BY <1>3

\* A finite set with an element more, or less.
LEMMA CardAdd ==
    ASSUME NEW S, IsFiniteSet(S), NEW x, x \notin S
    PROVE  IsFiniteSet(S \cup {x}) /\ Cardinality(S \cup {x}) = Cardinality(S) + 1
BY FS_AddElement

LEMMA CardDel ==
    ASSUME NEW S, IsFiniteSet(S), NEW x \in S
    PROVE  IsFiniteSet(S \ {x}) /\ Cardinality(S \ {x}) = Cardinality(S) - 1
BY FS_RemoveElement

USE Constants

-----------------------------------------------------------------------------
(* The lists as sequences.                                                 *)

OthersKeep(r, r2, l) ==
    \A k \in Lrus \ {l} : r2.heads[k] = r.heads[k] /\ r2.tails[k] = r.tails[k]

\* x goes to the head or to the tail of list l, or leaves it; the marker l
\* swings ahead of p.
IsPush(r, r2, x, l) ==
    /\ r2.heads[l] = x /\ r2.tails[l] = IF r.tails[l] = None THEN x ELSE r.tails[l]
    /\ \A y \in Nodes : /\ r2.next[y] = IF y = x THEN r.heads[l] ELSE r.next[y]
                        /\ r2.prev[y] = IF y = x THEN None
                                        ELSE IF y = r.heads[l] THEN x ELSE r.prev[y]
    /\ OthersKeep(r, r2, l)
IsTail(r, r2, x, l) ==
    /\ r2.tails[l] = x /\ r2.heads[l] = IF r.heads[l] = None THEN x ELSE r.heads[l]
    /\ \A y \in Nodes : /\ r2.prev[y] = IF y = x THEN r.tails[l] ELSE r.prev[y]
                        /\ r2.next[y] = IF y = x THEN None
                                        ELSE IF y = r.tails[l] THEN x ELSE r.next[y]
    /\ OthersKeep(r, r2, l)
IsCut(r, r2, x, l) ==
    /\ r2.heads[l] = IF r.heads[l] = x THEN r.next[x] ELSE r.heads[l]
    /\ r2.tails[l] = IF r.tails[l] = x THEN r.prev[x] ELSE r.tails[l]
    /\ \A y \in Nodes :
         /\ r2.next[y] = IF y = x THEN None ELSE IF y = r.prev[x] THEN r.next[x] ELSE r.next[y]
         /\ r2.prev[y] = IF y = x THEN None ELSE IF y = r.next[x] THEN r.prev[x] ELSE r.prev[y]
    /\ OthersKeep(r, r2, l)
IsSwap(r, r2, x, p, l) ==
    /\ r2.heads[l] = IF r.heads[l] = p THEN x ELSE r.heads[l]
    /\ r2.tails[l] = IF r.tails[l] = x THEN p ELSE r.tails[l]
    /\ \A y \in Nodes :
         /\ r2.next[y] = IF y = r.prev[p] THEN x ELSE IF y = x THEN p
                         ELSE IF y = p THEN r.next[x] ELSE r.next[y]
         /\ r2.prev[y] = IF y = p THEN x ELSE IF y = x THEN r.prev[p]
                         ELSE IF y = r.next[x] THEN p ELSE r.prev[y]
    /\ OthersKeep(r, r2, l)

Push(x, s) == [j \in 1 .. Len(s) + 1 |-> IF j = 1 THEN x ELSE s[j - 1]]
Tailed(s, x) == [j \in 1 .. Len(s) + 1 |-> IF j = Len(s) + 1 THEN x ELSE s[j]]
Cut(s, i) == [j \in 1 .. Len(s) - 1 |-> IF j < i THEN s[j] ELSE s[j + 1]]
Swap(s, i) == [j \in 1 .. Len(s) |-> IF j = i - 1 THEN s[i] ELSE IF j = i THEN s[i - 1] ELSE s[j]]

\* A sequence given by its length and its entries.
LEMMA SeqOf ==
    ASSUME NEW S, NEW n \in Nat, NEW f, f = [j \in 1 .. n |-> f[j]], \A j \in 1 .. n : f[j] \in S
    PROVE  f \in Seq(S) /\ Len(f) = n /\ (f = <<>> <=> n = 0)
<1>1. f \in [1 .. n -> S]
  OBVIOUS
<1>2. f \in Seq(S) /\ DOMAIN f = 1 .. n
  BY <1>1
<1>3. Len(f) = n
  BY <1>2
<1> QED BY <1>2, <1>3

LEMMA SeqFacts ==
    ASSUME NEW S, NEW s \in Seq(S)
    PROVE  /\ Len(s) \in Nat /\ (s = <<>> <=> Len(s) = 0)
           /\ \A i \in 1 .. Len(s) : s[i] \in S
OBVIOUS

LEMMA PushSeq ==
    ASSUME NEW S, NEW s \in Seq(S), NEW x \in S
    PROVE  /\ Push(x, s) \in Seq(S) /\ Len(Push(x, s)) = Len(s) + 1 /\ Push(x, s) # <<>>
           /\ Push(x, s)[1] = x
           /\ \A j \in 1 .. Len(s) : Push(x, s)[j + 1] = s[j]
<1>0. PICK n \in Nat : n = Len(s)
  BY SeqFacts
<1>1. \A j \in 1 .. n + 1 : Push(x, s)[j] = IF j = 1 THEN x ELSE s[j - 1]
  BY <1>0 DEF Push
<1>2. \A j \in 1 .. n + 1 : Push(x, s)[j] \in S
  BY <1>0, <1>1, SeqFacts
<1>3. Push(x, s) \in Seq(S) /\ Len(Push(x, s)) = Len(s) + 1 /\ Push(x, s) # <<>>
  <2>1. Push(x, s) = [j \in 1 .. n + 1 |-> Push(x, s)[j]] /\ n + 1 \in Nat /\ n + 1 # 0
    BY <1>0 DEF Push
  <2> QED BY ONLY <2>1, <1>0, <1>2, SeqOf
<1>4. Push(x, s)[1] = x /\ \A j \in 1 .. Len(s) : Push(x, s)[j + 1] = s[j]
  BY <1>0, <1>1
<1> QED BY <1>3, <1>4

LEMMA PushIn ==
    ASSUME NEW S, NEW s \in Seq(S), NEW x \in S, NEW y
    PROVE  In(y, Push(x, s)) <=> y = x \/ In(y, s)
<1>0. PICK n \in Nat : n = Len(s)
  BY SeqFacts
<1>1. \A j \in 1 .. n + 1 : Push(x, s)[j] = IF j = 1 THEN x ELSE s[j - 1]
  BY <1>0 DEF Push
<1>3. Len(Push(x, s)) = n + 1 /\ n = Len(s)
  BY <1>0, PushSeq
<1>4. Push(x, s)[1] = x /\ \A j \in 1 .. n : Push(x, s)[j + 1] = s[j]
  BY <1>0, <1>1
<1>5. In(y, Push(x, s)) <=> y = x \/ In(y, s)
  <2>1. ASSUME In(y, Push(x, s)) PROVE y = x \/ In(y, s)
    <3>1. PICK j \in 1 .. n + 1 : Push(x, s)[j] = y
      BY <2>1, <1>3 DEF In
    <3>2. j = 1 \/ (j - 1 \in 1 .. Len(s) /\ s[j - 1] = y)
      BY <3>1, <1>0, <1>1
    <3> QED BY <3>1, <3>2, <1>4 DEF In
  <2>2. ASSUME y = x \/ In(y, s) PROVE In(y, Push(x, s))
    <3>1. CASE y = x
      <4>1. 1 \in 1 .. Len(Push(x, s))
        BY <1>3
      <4> QED BY <3>1, <4>1, <1>4 DEF In
    <3>2. CASE In(y, s)
      <4>1. PICK j \in 1 .. Len(s) : s[j] = y
        BY <3>2 DEF In
      <4>2. j + 1 \in 1 .. Len(s) + 1 /\ Push(x, s)[j + 1] = y
        BY <4>1, <1>0, <1>4
      <4> QED BY <4>2, <1>3 DEF In
    <3> QED BY <2>2, <3>1, <3>2
  <2> QED BY <2>1, <2>2
<1> QED BY <1>5

LEMMA TailedSeq ==
    ASSUME NEW S, NEW s \in Seq(S), NEW x \in S
    PROVE  /\ Tailed(s, x) \in Seq(S) /\ Len(Tailed(s, x)) = Len(s) + 1 /\ Tailed(s, x) # <<>>
           /\ Tailed(s, x)[Len(s) + 1] = x
           /\ \A j \in 1 .. Len(s) : Tailed(s, x)[j] = s[j]
<1>0. PICK n \in Nat : n = Len(s)
  BY SeqFacts
<1>1. \A j \in 1 .. n + 1 : Tailed(s, x)[j] = IF j = n + 1 THEN x ELSE s[j]
  BY <1>0 DEF Tailed
<1>2. \A j \in 1 .. n + 1 : Tailed(s, x)[j] \in S
  BY <1>0, <1>1, SeqFacts
<1>3. Tailed(s, x) \in Seq(S) /\ Len(Tailed(s, x)) = n + 1 /\ Tailed(s, x) # <<>>
  <2>1. Tailed(s, x) = [j \in 1 .. n + 1 |-> Tailed(s, x)[j]] /\ n + 1 \in Nat /\ n + 1 # 0
    BY <1>0 DEF Tailed
  <2> QED BY ONLY <2>1, <1>2, SeqOf
<1>4. Tailed(s, x)[n + 1] = x /\ \A j \in 1 .. n : Tailed(s, x)[j] = s[j]
  BY <1>1
<1> QED BY <1>0, <1>3, <1>4

LEMMA TailedIn ==
    ASSUME NEW S, NEW s \in Seq(S), NEW x \in S, NEW y
    PROVE  In(y, Tailed(s, x)) <=> y = x \/ In(y, s)
<1>0. PICK n \in Nat : n = Len(s)
  BY SeqFacts
<1>1. /\ Len(Tailed(s, x)) = n + 1 /\ Tailed(s, x)[n + 1] = x
      /\ \A j \in 1 .. n : Tailed(s, x)[j] = s[j]
  BY <1>0, TailedSeq
<1>2. n + 1 \in 1 .. n + 1 /\ 1 .. n \subseteq 1 .. n + 1
      /\ \A j \in 1 .. n + 1 : j = n + 1 \/ j \in 1 .. n
  OBVIOUS
<1> QED BY <1>0, <1>1, <1>2 DEF In

LEMMA CutSeq ==
    ASSUME NEW S, NEW s \in Seq(S), Once(s), NEW i \in 1 .. Len(s)
    PROVE  /\ Cut(s, i) \in Seq(S) /\ Len(Cut(s, i)) = Len(s) - 1
           /\ (Cut(s, i) = <<>> <=> Len(s) = 1)
           /\ \A j \in 1 .. Len(s) - 1 : Cut(s, i)[j] = IF j < i THEN s[j] ELSE s[j + 1]
<1>0. PICK n \in Nat : n = Len(s) /\ i \in 1 .. n
  BY SeqFacts
<1>1. \A j \in 1 .. n - 1 : Cut(s, i)[j] = IF j < i THEN s[j] ELSE s[j + 1]
  BY <1>0 DEF Cut
<1>2. \A j \in 1 .. n - 1 : Cut(s, i)[j] \in S
  BY <1>0, <1>1, SeqFacts
<1>3. Cut(s, i) \in Seq(S) /\ Len(Cut(s, i)) = n - 1 /\ (Cut(s, i) = <<>> <=> n = 1)
  <2>1. Cut(s, i) = [j \in 1 .. n - 1 |-> Cut(s, i)[j]] /\ n - 1 \in Nat
    BY <1>0 DEF Cut
  <2>2. Cut(s, i) \in Seq(S) /\ Len(Cut(s, i)) = n - 1 /\ (Cut(s, i) = <<>> <=> n - 1 = 0)
    BY ONLY <2>1, <1>2, SeqOf
  <2> QED BY <2>2
<1> QED BY <1>0, <1>1, <1>3

LEMMA CutIn ==
    ASSUME NEW S, NEW s \in Seq(S), Once(s), NEW i \in 1 .. Len(s), NEW y
    PROVE  In(y, Cut(s, i)) <=> y # s[i] /\ In(y, s)
<1>0. PICK n \in Nat : n = Len(s) /\ i \in 1 .. n
  BY SeqFacts
<1>1. \A j \in 1 .. n - 1 : Cut(s, i)[j] = IF j < i THEN s[j] ELSE s[j + 1]
  BY <1>0 DEF Cut
<1>3. Len(Cut(s, i)) = n - 1
  BY <1>0, CutSeq
<1>4. In(y, Cut(s, i)) <=> y # s[i] /\ In(y, s)
  <2>1. ASSUME In(y, Cut(s, i)) PROVE y # s[i] /\ In(y, s)
    <3>1. PICK j \in 1 .. n - 1 : Cut(s, i)[j] = y
      BY <2>1, <1>3 DEF In
    <3>2. PICK m \in 1 .. n : m # i /\ s[m] = y
      BY <3>1, <1>0, <1>1
    <3> QED BY <3>2, <1>0 DEF In, Once
  <2>2. ASSUME y # s[i], In(y, s) PROVE In(y, Cut(s, i))
    <3>1. PICK m \in 1 .. n : s[m] = y
      BY <2>2, <1>0 DEF In
    <3>2. m # i
      BY <2>2, <3>1
    <3>3. CASE m < i
      <4>1. m \in 1 .. n - 1 /\ Cut(s, i)[m] = y
        BY <1>0, <1>1, <3>1, <3>3
      <4> QED BY <4>1, <1>3 DEF In
    <3>4. CASE m > i
      <4>1. m - 1 \in 1 .. n - 1 /\ ~(m - 1 < i) /\ (m - 1) + 1 = m
        BY <1>0, <3>1, <3>4
      <4>2. Cut(s, i)[m - 1] = y
        BY <4>1, <1>1, <3>1
      <4> QED BY <4>1, <4>2, <1>3 DEF In
    <3> QED BY <3>2, <3>3, <3>4
  <2> QED BY <2>1, <2>2
<1> QED BY <1>4

LEMMA SwapSeq ==
    ASSUME NEW S, NEW s \in Seq(S), NEW i \in 2 .. Len(s)
    PROVE  /\ Swap(s, i) \in Seq(S) /\ Len(Swap(s, i)) = Len(s) /\ s # <<>> /\ Swap(s, i) # <<>>
           /\ \A j \in 1 .. Len(s) : Swap(s, i)[j] = IF j = i - 1 THEN s[i]
                                                    ELSE IF j = i THEN s[i - 1] ELSE s[j]
<1>0. PICK n \in Nat : n = Len(s) /\ i \in 2 .. n
  BY SeqFacts
<1>1. \A j \in 1 .. n : Swap(s, i)[j] = IF j = i - 1 THEN s[i] ELSE IF j = i THEN s[i - 1] ELSE s[j]
  BY <1>0 DEF Swap
<1>2. \A j \in 1 .. n : Swap(s, i)[j] \in S
  BY <1>0, <1>1, SeqFacts
<1>3. Swap(s, i) \in Seq(S) /\ Len(Swap(s, i)) = n /\ Swap(s, i) # <<>>
  <2>1. Swap(s, i) = [j \in 1 .. n |-> Swap(s, i)[j]] /\ n # 0
    BY <1>0 DEF Swap
  <2> QED BY ONLY <2>1, <1>0, <1>2, SeqOf
<1> QED BY <1>0, <1>1, <1>3

LEMMA SwapIn ==
    ASSUME NEW S, NEW s \in Seq(S), NEW i \in 2 .. Len(s), NEW y
    PROVE  In(y, Swap(s, i)) <=> In(y, s)
<1>0. PICK n \in Nat : n = Len(s) /\ i \in 2 .. n
  BY SeqFacts
<1>1. \A j \in 1 .. n : Swap(s, i)[j] = IF j = i - 1 THEN s[i] ELSE IF j = i THEN s[i - 1] ELSE s[j]
  BY <1>0 DEF Swap
<1>3. Len(Swap(s, i)) = n
  BY <1>0, SwapSeq
<1>4. In(y, Swap(s, i)) <=> In(y, s)
  <2>1. ASSUME In(y, Swap(s, i)) PROVE In(y, s)
    <3>1. PICK j \in 1 .. n : Swap(s, i)[j] = y
      BY <2>1, <1>3 DEF In
    <3>2. PICK m \in 1 .. n : s[m] = y
      BY <3>1, <1>0, <1>1
    <3> QED BY <3>2, <1>0 DEF In
  <2>2. ASSUME In(y, s) PROVE In(y, Swap(s, i))
    <3>1. PICK m \in 1 .. n : s[m] = y
      BY <2>2, <1>0 DEF In
    <3>2. PICK j \in 1 .. n : Swap(s, i)[j] = y
      <4>1. CASE m = i
        BY <4>1, <3>1, <1>0, <1>1
      <4>2. CASE m = i - 1
        BY <4>2, <3>1, <1>0, <1>1
      <4>3. CASE m # i /\ m # i - 1
        BY <4>3, <3>1, <1>0, <1>1
      <4> QED BY <4>1, <4>2, <4>3
    <3> QED BY <3>2, <1>3 DEF In
  <2> QED BY <2>1, <2>2
<1> QED BY <1>4

-----------------------------------------------------------------------------
(* A list stays a chain when a node is pushed, appended, cut out or swapped.*)

\* A node of a list is a node, and not the null pointer.
LEMMA ListSeq ==
    ASSUME NEW l \in Lrus, NEW s \in Lists(l)
    PROVE  /\ Len(s) \in Nat /\ (s = <<>> <=> Len(s) = 0)
           /\ \A i \in 1 .. Len(s) : s[i] \in Items \cup {l} /\ s[i] \in Nodes /\ s[i] # None
BY SeqFacts DEF Lists

LEMMA PushChain ==
    ASSUME NEW l \in Lrus, NEW s \in Lists(l), NEW r, NEW r2, NEW x \in Items \cup {l},
           Chain(r, l, s), ~In(x, s), IsPush(r, r2, x, l)
    PROVE  Push(x, s) \in Lists(l) /\ Chain(r2, l, Push(x, s))
<1>00. PICK n \in Nat : n = Len(s)
  BY ListSeq
<1>01. PICK s2 : s2 = Push(x, s)
  OBVIOUS
<1>0. n = Len(s) /\ s2 = Push(x, s)
  BY <1>00, <1>01
<1>1. /\ s2 \in Lists(l) /\ Len(s2) = n + 1 /\ s2 # <<>> /\ s2[1] = x
      /\ \A j \in 1 .. n : s2[j + 1] = s[j]
  <2>0. PICK S : S = Items \cup {l}
    OBVIOUS
  <2>1. s \in Seq(S) /\ Lists(l) = Seq(S) /\ x \in S
    BY <2>0 DEF Lists
  <2>2. /\ Push(x, s) \in Seq(S) /\ Len(Push(x, s)) = Len(s) + 1 /\ Push(x, s) # <<>>
        /\ Push(x, s)[1] = x /\ \A j \in 1 .. Len(s) : Push(x, s)[j + 1] = s[j]
    BY ONLY <2>1, PushSeq
  <2> QED BY ONLY <1>0, <2>1, <2>2
<1>2. /\ \A i \in 1 .. n : s[i] \in Nodes /\ s[i] # None /\ s[i] # x
      /\ s = <<>> <=> n = 0
  BY <1>0, ListSeq DEF In
<1>3. x \in Nodes /\ x # None
  OBVIOUS
<1>4. r.heads[l] = IF n = 0 THEN None ELSE s[1]
  BY <1>0, <1>2 DEF Chain
<1>5. r.tails[l] = IF n = 0 THEN None ELSE s[n]
  BY <1>0, <1>2 DEF Chain
<1>6. \A i \in 1 .. n : /\ r.next[s[i]] = IF i = n THEN None ELSE s[i + 1]
                        /\ r.prev[s[i]] = IF i = 1 THEN None ELSE s[i - 1]
  BY <1>0 DEF Chain
<1>7. \A i, j \in 1 .. n : s[i] = s[j] => i = j
  BY <1>0 DEF Chain, Once
<1>8. \A i \in 1 .. n + 1 : i = 1 \/ (i - 1 \in 1 .. n /\ (i - 1) + 1 = i)
  OBVIOUS
<1>9. Once(s2)
  <2>1. ASSUME NEW i \in 1 .. n + 1, NEW j \in 1 .. n + 1, s2[i] = s2[j] PROVE i = j
    <3>1. CASE i = 1 \/ j = 1
      BY <2>1, <3>1, <1>1, <1>2, <1>8
    <3>2. CASE i # 1 /\ j # 1
      <4>1. i - 1 \in 1 .. n /\ j - 1 \in 1 .. n /\ s2[i] = s[i - 1] /\ s2[j] = s[j - 1]
        BY <3>2, <1>1, <1>8
      <4>2. i - 1 = j - 1
        BY <4>1, <2>1, <1>7
      <4> QED BY <4>2
    <3> QED BY <3>1, <3>2
  <2> QED BY <2>1, <1>1 DEF Once
<1>10. r2.heads[l] = s2[1]
  BY <1>1 DEF IsPush
<1>11. r2.tails[l] = s2[n + 1]
  <2>1. CASE n = 0
    BY <2>1, <1>1, <1>5 DEF IsPush
  <2>2. CASE n # 0
    <3>1. n \in 1 .. n
      BY <2>2
    <3> QED BY <3>1, <2>2, <1>1, <1>2, <1>5 DEF IsPush
  <2> QED BY <2>1, <2>2
<1>12. ASSUME NEW i \in 1 .. n + 1
       PROVE  /\ r2.next[s2[i]] = IF i = n + 1 THEN None ELSE s2[i + 1]
              /\ r2.prev[s2[i]] = IF i = 1 THEN None ELSE s2[i - 1]
  <2>1. CASE i = 1
    <3>1. r2.next[x] = r.heads[l] /\ r2.prev[x] = None
      BY <1>3 DEF IsPush
    <3>2. n # 0 => 1 \in 1 .. n /\ s2[2] = s[1]
      BY <1>1
    <3> QED BY ONLY <2>1, <3>1, <3>2, <1>0, <1>1, <1>4
  <2>2. CASE i # 1
    <3>0. PICK j \in 1 .. n : i = j + 1
      BY <2>2, <1>8
    <3>1. s2[i] = s[j] /\ s[j] \in Nodes /\ s[j] # x
      BY <3>0, <1>1, <1>2
    <3>2. r2.next[s[j]] = r.next[s[j]]
          /\ r2.prev[s[j]] = IF s[j] = r.heads[l] THEN x ELSE r.prev[s[j]]
      BY <3>1 DEF IsPush
    <3>3. n # 0 /\ 1 \in 1 .. n
      BY <3>0
    <3>4. s[j] = r.heads[l] <=> j = 1
      BY <3>3, <1>4, <1>7
    <3>5. j # n => j + 1 \in 1 .. n /\ s2[(j + 1) + 1] = s[j + 1] /\ (j + 1) + 1 = i + 1
      BY <3>0, <1>1
    <3>6. j # 1 => j - 1 \in 1 .. n /\ s2[(j - 1) + 1] = s[j - 1] /\ (j - 1) + 1 = i - 1
      BY <3>0, <1>1
    <3>7. r.next[s[j]] = IF j = n THEN None ELSE s[j + 1]
      BY <1>6
    <3>8. r.prev[s[j]] = IF j = 1 THEN None ELSE s[j - 1]
      BY <1>6
    <3>9. (i = n + 1 <=> j = n) /\ (j = 1 => i - 1 = 1)
      BY <3>0
    <3>10. r2.next[s2[i]] = IF i = n + 1 THEN None ELSE s2[i + 1]
      BY ONLY <3>1, <3>2, <3>5, <3>7, <3>9
    <3>11. r2.prev[s2[i]] = s2[i - 1]
      BY ONLY <3>1, <3>2, <3>4, <3>6, <3>8, <3>9, <1>1
    <3> QED BY <3>10, <3>11, <2>2
  <2> QED BY <2>1, <2>2
<1>13. Chain(r2, l, s2)
  BY ONLY <1>0, <1>1, <1>9, <1>10, <1>11, <1>12 DEF Chain
<1> QED BY <1>0, <1>1, <1>13

LEMMA TailChain ==
    ASSUME NEW l \in Lrus, NEW s \in Lists(l), NEW r, NEW r2, NEW x \in Items \cup {l},
           Chain(r, l, s), ~In(x, s), IsTail(r, r2, x, l)
    PROVE  Tailed(s, x) \in Lists(l) /\ Chain(r2, l, Tailed(s, x))
<1>00. PICK n \in Nat : n = Len(s)
  BY ListSeq
<1>01. PICK s2 : s2 = Tailed(s, x)
  OBVIOUS
<1>0. n = Len(s) /\ s2 = Tailed(s, x)
  BY <1>00, <1>01
<1>1. /\ s2 \in Lists(l) /\ Len(s2) = n + 1 /\ s2 # <<>> /\ s2[n + 1] = x
      /\ \A j \in 1 .. n : s2[j] = s[j]
  <2>0. PICK S : S = Items \cup {l}
    OBVIOUS
  <2>1. s \in Seq(S) /\ Lists(l) = Seq(S) /\ x \in S
    BY <2>0 DEF Lists
  <2>2. /\ Tailed(s, x) \in Seq(S) /\ Len(Tailed(s, x)) = Len(s) + 1
        /\ Tailed(s, x) # <<>> /\ Tailed(s, x)[Len(s) + 1] = x
        /\ \A j \in 1 .. Len(s) : Tailed(s, x)[j] = s[j]
    BY ONLY <2>1, TailedSeq
  <2> QED BY ONLY <1>0, <2>1, <2>2
<1>2. /\ \A i \in 1 .. n : s[i] \in Nodes /\ s[i] # None /\ s[i] # x
      /\ s = <<>> <=> n = 0
  BY <1>0, ListSeq DEF In
<1>3. x \in Nodes /\ x # None
  OBVIOUS
<1>4. r.heads[l] = IF n = 0 THEN None ELSE s[1]
  BY <1>0, <1>2 DEF Chain
<1>5. r.tails[l] = IF n = 0 THEN None ELSE s[n]
  BY <1>0, <1>2 DEF Chain
<1>6. \A i \in 1 .. n : /\ r.next[s[i]] = IF i = n THEN None ELSE s[i + 1]
                        /\ r.prev[s[i]] = IF i = 1 THEN None ELSE s[i - 1]
  BY <1>0 DEF Chain
<1>7. \A i, j \in 1 .. n : s[i] = s[j] => i = j
  BY <1>0 DEF Chain, Once
<1>8. \A i \in 1 .. n + 1 : i = n + 1 \/ i \in 1 .. n
  OBVIOUS
<1>9. Once(s2)
  <2>1. ASSUME NEW i \in 1 .. n + 1, NEW j \in 1 .. n + 1, s2[i] = s2[j] PROVE i = j
    BY ONLY <2>1, <1>0, <1>1, <1>2, <1>7, <1>8
  <2> QED BY <2>1, <1>1 DEF Once
<1>10. r2.tails[l] = s2[n + 1]
  BY <1>1 DEF IsTail
<1>11. r2.heads[l] = s2[1]
  <2>1. CASE n = 0
    BY <2>1, <1>1, <1>4 DEF IsTail
  <2>2. CASE n # 0
    <3>1. 1 \in 1 .. n
      BY <2>2
    <3> QED BY <3>1, <2>2, <1>1, <1>2, <1>4 DEF IsTail
  <2> QED BY <2>1, <2>2
<1>12. ASSUME NEW i \in 1 .. n + 1
       PROVE  /\ r2.next[s2[i]] = IF i = n + 1 THEN None ELSE s2[i + 1]
              /\ r2.prev[s2[i]] = IF i = 1 THEN None ELSE s2[i - 1]
  <2>1. CASE i = n + 1
    <3>1. r2.prev[x] = r.tails[l] /\ r2.next[x] = None
      BY <1>3 DEF IsTail
    <3>2. n # 0 => n \in 1 .. n /\ s2[n] = s[n] /\ i - 1 = n
      BY <1>1, <2>1
    <3> QED BY ONLY <2>1, <3>1, <3>2, <1>0, <1>1, <1>5
  <2>2. CASE i # n + 1
    <3>0. i \in 1 .. n
      BY <2>2, <1>8
    <3>1. s2[i] = s[i] /\ s[i] \in Nodes /\ s[i] # x
      BY <3>0, <1>1, <1>2
    <3>2. r2.prev[s[i]] = r.prev[s[i]]
          /\ r2.next[s[i]] = IF s[i] = r.tails[l] THEN x ELSE r.next[s[i]]
      BY <3>1 DEF IsTail
    <3>3. n # 0 /\ n \in 1 .. n
      BY <3>0
    <3>4. s[i] = r.tails[l] <=> i = n
      BY <3>0, <3>3, <1>5, <1>7
    <3>5. i # n => i + 1 \in 1 .. n /\ s2[i + 1] = s[i + 1]
      BY <3>0, <1>1
    <3>6. i # 1 => i - 1 \in 1 .. n /\ s2[i - 1] = s[i - 1]
      BY <3>0, <1>1
    <3>7. r.next[s[i]] = IF i = n THEN None ELSE s[i + 1]
      BY <3>0, <1>6
    <3>8. r.prev[s[i]] = IF i = 1 THEN None ELSE s[i - 1]
      BY <3>0, <1>6
    <3>10. r2.next[s2[i]] = s2[i + 1]
      BY ONLY <3>1, <3>2, <3>4, <3>5, <3>7, <1>1
    <3>11. r2.prev[s2[i]] = IF i = 1 THEN None ELSE s2[i - 1]
      BY ONLY <3>1, <3>2, <3>6, <3>8
    <3> QED BY <3>10, <3>11, <2>2
  <2> QED BY <2>1, <2>2
<1>13. Chain(r2, l, s2)
  BY ONLY <1>0, <1>1, <1>9, <1>10, <1>11, <1>12 DEF Chain
<1> QED BY <1>0, <1>1, <1>13

LEMMA CutChain ==
    ASSUME NEW l \in Lrus, NEW s \in Lists(l), NEW r, NEW r2, NEW i \in 1 .. Len(s),
           Chain(r, l, s), IsCut(r, r2, s[i], l)
    PROVE  Cut(s, i) \in Lists(l) /\ Chain(r2, l, Cut(s, i))
<1>00. PICK n \in Nat : n = Len(s)
  BY ListSeq
<1>01. PICK s2 : s2 = Cut(s, i)
  OBVIOUS
<1>02. PICK x : x = s[i]
  OBVIOUS
<1>0. n = Len(s) /\ s2 = Cut(s, i) /\ x = s[i] /\ i \in 1 .. n /\ n - 1 \in Nat
  BY <1>00, <1>01, <1>02
<1>1. /\ s2 \in Lists(l) /\ Len(s2) = n - 1 /\ (s2 = <<>> <=> n = 1)
      /\ \A j \in 1 .. n - 1 : s2[j] = IF j < i THEN s[j] ELSE s[j + 1]
  <2>0. PICK S : S = Items \cup {l}
    OBVIOUS
  <2>1. s \in Seq(S) /\ Lists(l) = Seq(S) /\ Once(s)
    BY <2>0 DEF Lists, Chain
  <2>2. /\ Cut(s, i) \in Seq(S) /\ Len(Cut(s, i)) = Len(s) - 1
        /\ (Cut(s, i) = <<>> <=> Len(s) = 1)
        /\ \A j \in 1 .. Len(s) - 1 : Cut(s, i)[j] = IF j < i THEN s[j] ELSE s[j + 1]
    BY ONLY <2>1, CutSeq
  <2> QED BY ONLY <1>0, <2>1, <2>2
<1>2. /\ \A j \in 1 .. n : s[j] \in Nodes /\ s[j] # None
      /\ s # <<>>
  <2>1. n # 0
    BY <1>0
  <2> QED BY <2>1, <1>00, ListSeq
<1>4. r.heads[l] = s[1] /\ r.tails[l] = s[n]
  BY <1>0, <1>2 DEF Chain
<1>6. \A j \in 1 .. n : /\ r.next[s[j]] = IF j = n THEN None ELSE s[j + 1]
                        /\ r.prev[s[j]] = IF j = 1 THEN None ELSE s[j - 1]
  BY <1>0 DEF Chain
<1>7. \A j, k \in 1 .. n : s[j] = s[k] => j = k
  BY <1>0 DEF Chain, Once
<1>8. ASSUME NEW j \in 1 .. n - 1
      PROVE  \E k \in 1 .. n : s2[j] = s[k] /\ k # i /\ k = IF j < i THEN j ELSE j + 1
  <2>1. CASE j < i
    BY <2>1, <1>0, <1>1
  <2>2. CASE ~(j < i)
    BY <2>2, <1>0, <1>1
  <2> QED BY <2>1, <2>2
<1>9. Once(s2)
  <2>1. ASSUME NEW j \in 1 .. n - 1, NEW k \in 1 .. n - 1, s2[j] = s2[k] PROVE j = k
    <3>1. PICK a \in 1 .. n : s2[j] = s[a] /\ a # i /\ a = IF j < i THEN j ELSE j + 1
      BY <1>8
    <3>2. PICK b \in 1 .. n : s2[k] = s[b] /\ b # i /\ b = IF k < i THEN k ELSE k + 1
      BY <1>8
    <3>3. a = b
      BY <3>1, <3>2, <2>1, <1>7
    <3> QED BY ONLY <3>1, <3>2, <3>3, <1>0, n \in Nat
  <2> QED BY <2>1, <1>1 DEF Once
<1>10. r2.heads[l] = IF s2 = <<>> THEN None ELSE s2[1]
  <2>1. r.heads[l] = x <=> i = 1
    BY <1>0, <1>4, <1>7
  <2>2. r2.heads[l] = IF i = 1 THEN r.next[s[1]] ELSE s[1]
    BY <2>1, <1>0, <1>4 DEF IsCut
  <2>3. r.next[s[1]] = IF n = 1 THEN None ELSE s[2]
    BY <1>0, <1>6
  <2>4. n # 1 => s2[1] = IF i = 1 THEN s[2] ELSE s[1]
    BY <1>0, <1>1
  <2>5. n = 1 => i = 1
    BY <1>0
  <2> QED BY ONLY <2>2, <2>3, <2>4, <2>5, <1>1
<1>11. r2.tails[l] = IF s2 = <<>> THEN None ELSE s2[n - 1]
  <2>1. r.tails[l] = x <=> i = n
    BY <1>0, <1>4, <1>7
  <2>2. r2.tails[l] = IF i = n THEN r.prev[s[n]] ELSE s[n]
    BY <2>1, <1>0, <1>4 DEF IsCut
  <2>3. r.prev[s[n]] = IF n = 1 THEN None ELSE s[n - 1]
    BY <1>0, <1>6
  <2>4. n # 1 => s2[n - 1] = IF i = n THEN s[n - 1] ELSE s[n]
    <3>1. n # 1 => n - 1 \in 1 .. n - 1 /\ (n - 1 < i <=> i = n) /\ (n - 1) + 1 = n
      BY <1>0
    <3> QED BY <3>1, <1>1
  <2>5. n = 1 => i = n
    BY <1>0
  <2> QED BY ONLY <2>2, <2>3, <2>4, <2>5, <1>1
<1>12. ASSUME NEW j \in 1 .. n - 1
       PROVE  /\ r2.next[s2[j]] = IF j = n - 1 THEN None ELSE s2[j + 1]
              /\ r2.prev[s2[j]] = IF j = 1 THEN None ELSE s2[j - 1]
  <2>0. PICK k \in 1 .. n : s2[j] = s[k] /\ k # i /\ k = IF j < i THEN j ELSE j + 1
    BY <1>8
  <2>1. s[k] \in Nodes /\ s[k] # x
    BY <2>0, <1>0, <1>2, <1>7
  <2>2. /\ r2.next[s[k]] = IF s[k] = r.prev[x] THEN r.next[x] ELSE r.next[s[k]]
        /\ r2.prev[s[k]] = IF s[k] = r.next[x] THEN r.prev[x] ELSE r.prev[s[k]]
    BY <2>1, <1>0 DEF IsCut
  <2>3. /\ r.next[x] = IF i = n THEN None ELSE s[i + 1]
        /\ r.prev[x] = IF i = 1 THEN None ELSE s[i - 1]
    BY <1>0, <1>6
  <2>4. s[k] = r.prev[x] <=> k = i - 1
    <3>1. i # 1 => i - 1 \in 1 .. n
      BY <1>0
    <3>2. k = i - 1 => i # 1
      BY <2>0
    <3> QED BY <3>1, <3>2, <2>3, <1>2, <1>7
  <2>5. s[k] = r.next[x] <=> k = i + 1
    <3>1. i # n => i + 1 \in 1 .. n
      BY <1>0
    <3>2. k = i + 1 => i # n
      BY <2>0
    <3> QED BY <3>1, <3>2, <2>3, <1>2, <1>7
  <2>6. /\ r.next[s[k]] = IF k = n THEN None ELSE s[k + 1]
        /\ r.prev[s[k]] = IF k = 1 THEN None ELSE s[k - 1]
    BY <1>6
  <2>7. r2.next[s2[j]] = IF j = n - 1 THEN None ELSE s2[j + 1]
    <3>1. j # n - 1 => s2[j + 1] = IF j + 1 < i THEN s[j + 1] ELSE s[(j + 1) + 1]
      BY <1>0, <1>1
    <3>2. CASE k = i - 1
      <4>1. j = k /\ j < i /\ (j = n - 1 <=> i = n) /\ ~(j + 1 < i) /\ (j + 1) + 1 = i + 1
        BY <3>2, <2>0, <1>0
      <4> QED BY ONLY <4>1, <3>1, <3>2, <2>0, <2>2, <2>3, <2>4
    <3>3. CASE k # i - 1 /\ j < i
      <4>1. j = k /\ j + 1 < i /\ j # n - 1 /\ k # n
        BY <3>3, <2>0, <1>0
      <4> QED BY ONLY <4>1, <3>1, <3>3, <2>0, <2>2, <2>4, <2>6
    <3>4. CASE ~(j < i)
      <4>1. k = j + 1 /\ ~(j + 1 < i) /\ (j = n - 1 <=> k = n) /\ k # i - 1
        BY <3>4, <2>0, <1>0
      <4> QED BY ONLY <4>1, <3>1, <2>0, <2>2, <2>4, <2>6
    <3> QED BY <3>2, <3>3, <3>4
  <2>8. r2.prev[s2[j]] = IF j = 1 THEN None ELSE s2[j - 1]
    <3>1. j # 1 => s2[j - 1] = IF j - 1 < i THEN s[j - 1] ELSE s[(j - 1) + 1]
      BY <1>0, <1>1
    <3>2. CASE k = i + 1
      <4>1. j = i /\ (j # 1 => j - 1 < i)
        BY <3>2, <2>0, <1>0
      <4> QED BY ONLY <4>1, <3>1, <3>2, <2>0, <2>2, <2>3, <2>5
    <3>3. CASE j < i
      <4>1. j = k /\ j - 1 < i /\ k # i + 1
        BY <3>3, <2>0, <1>0
      <4> QED BY ONLY <4>1, <3>1, <2>0, <2>2, <2>5, <2>6
    <3>4. CASE ~(j < i) /\ k # i + 1
      <4>1. k = j + 1 /\ j # i /\ j # 1 /\ ~(j - 1 < i) /\ (j - 1) + 1 = j /\ k - 1 = j /\ k # 1
        BY <3>4, <2>0, <1>0
      <4> QED BY ONLY <4>1, <3>1, <3>4, <2>0, <2>2, <2>5, <2>6
    <3> QED BY <3>2, <3>3, <3>4
  <2> QED BY <2>7, <2>8
<1>13. Chain(r2, l, s2)
  BY ONLY <1>1, <1>9, <1>10, <1>11, <1>12 DEF Chain
<1> QED BY <1>0, <1>1, <1>13

LEMMA SwapChain ==
    ASSUME NEW l \in Lrus, NEW s \in Lists(l), NEW r, NEW r2, NEW i \in 2 .. Len(s),
           Chain(r, l, s), IsSwap(r, r2, s[i], s[i - 1], l)
    PROVE  Swap(s, i) \in Lists(l) /\ Chain(r2, l, Swap(s, i))
<1>00. PICK n \in Nat : n = Len(s)
  BY ListSeq
<1>01. PICK s2 : s2 = Swap(s, i)
  OBVIOUS
<1>02. PICK x, p : x = s[i] /\ p = s[i - 1]
  OBVIOUS
<1>0. /\ n = Len(s) /\ s2 = Swap(s, i) /\ x = s[i] /\ p = s[i - 1]
      /\ i \in 1 .. n /\ i - 1 \in 1 .. n /\ i \in Nat
  BY <1>00, <1>01, <1>02
<1>1. /\ s2 \in Lists(l) /\ Len(s2) = n /\ s # <<>> /\ s2 # <<>>
      /\ \A j \in 1 .. n : s2[j] = IF j = i - 1 THEN x ELSE IF j = i THEN p ELSE s[j]
  <2>0. PICK S : S = Items \cup {l}
    OBVIOUS
  <2>1. s \in Seq(S) /\ Lists(l) = Seq(S)
    BY <2>0 DEF Lists
  <2>2. /\ Swap(s, i) \in Seq(S) /\ Len(Swap(s, i)) = Len(s) /\ s # <<>> /\ Swap(s, i) # <<>>
        /\ \A j \in 1 .. Len(s) : Swap(s, i)[j] = IF j = i - 1 THEN s[i]
                                                  ELSE IF j = i THEN s[i - 1] ELSE s[j]
    BY ONLY <2>1, SwapSeq
  <2> QED BY ONLY <1>0, <2>1, <2>2
<1>2. \A j \in 1 .. n : s[j] \in Nodes /\ s[j] # None
  BY <1>00, ListSeq
<1>4. r.heads[l] = s[1] /\ r.tails[l] = s[n]
  BY <1>0, <1>1 DEF Chain
<1>6. \A j \in 1 .. n : /\ r.next[s[j]] = IF j = n THEN None ELSE s[j + 1]
                        /\ r.prev[s[j]] = IF j = 1 THEN None ELSE s[j - 1]
  BY <1>0 DEF Chain
<1>7. \A j, k \in 1 .. n : s[j] = s[k] => j = k
  BY <1>0 DEF Chain, Once
<1>8. /\ r.next[x] = IF i = n THEN None ELSE s[i + 1]
      /\ r.prev[p] = IF i - 1 = 1 THEN None ELSE s[i - 2]
      /\ x # p /\ x \in Nodes /\ p \in Nodes /\ x # r.next[x] /\ p # r.next[x]
      /\ x # r.prev[p] /\ p # r.prev[p]
  <2>1. (i - 1) - 1 = i - 2 /\ (i # n => i + 1 \in 1 .. n /\ i + 1 # i /\ i + 1 # i - 1)
        /\ (i - 1 # 1 => i - 2 \in 1 .. n /\ i - 2 # i /\ i - 2 # i - 1) /\ i # i - 1
    BY <1>0
  <2>2. /\ r.next[x] = IF i = n THEN None ELSE s[i + 1]
        /\ r.prev[p] = IF i - 1 = 1 THEN None ELSE s[i - 2]
        /\ x # p /\ x \in Nodes /\ p \in Nodes
    BY <2>1, <1>0, <1>2, <1>6, <1>7
  <2> QED BY ONLY <2>1, <2>2, <1>0, <1>2, <1>7
<1>9. Once(s2)
  <2>1. ASSUME NEW j \in 1 .. n, NEW k \in 1 .. n, s2[j] = s2[k] PROVE j = k
    <3>1. i # i - 1
      BY <1>0
    <3> QED BY ONLY <3>1, <2>1, <1>0, <1>1, <1>7
  <2> QED BY <2>1, <1>1 DEF Once
<1>10. r2.heads[l] = s2[1]
  <2>1. r.heads[l] = p <=> i - 1 = 1
    BY <1>0, <1>4, <1>7
  <2>2. r2.heads[l] = IF i - 1 = 1 THEN x ELSE s[1]
    BY <2>1, <1>0, <1>4 DEF IsSwap
  <2>3. s2[1] = IF i - 1 = 1 THEN x ELSE s[1]
    BY <1>0, <1>1
  <2> QED BY <2>2, <2>3
<1>11. r2.tails[l] = s2[n]
  <2>1. r.tails[l] = x <=> i = n
    BY <1>0, <1>4, <1>7
  <2>2. r2.tails[l] = IF i = n THEN p ELSE s[n]
    BY <2>1, <1>0, <1>4 DEF IsSwap
  <2>3. s2[n] = IF i = n THEN p ELSE s[n]
    BY <1>0, <1>1
  <2> QED BY <2>2, <2>3
<1>12. ASSUME NEW j \in 1 .. n
       PROVE  /\ r2.next[s2[j]] = IF j = n THEN None ELSE s2[j + 1]
              /\ r2.prev[s2[j]] = IF j = 1 THEN None ELSE s2[j - 1]
  <2>1. \A y \in Nodes :
          /\ r2.next[y] = IF y = r.prev[p] THEN x ELSE IF y = x THEN p
                          ELSE IF y = p THEN r.next[x] ELSE r.next[y]
          /\ r2.prev[y] = IF y = p THEN x ELSE IF y = x THEN r.prev[p]
                          ELSE IF y = r.next[x] THEN p ELSE r.prev[y]
    BY <1>0 DEF IsSwap
  <2>2. CASE j = i - 1
    <3>1. s2[j] = x /\ s2[j + 1] = p /\ j # n /\ j + 1 = i
      BY <2>2, <1>0, <1>1
    <3>2. j # 1 => j - 1 \in 1 .. n /\ j - 1 # i - 1 /\ j - 1 # i /\ j - 1 = i - 2
      BY <2>2, <1>0
    <3>3. j # 1 => s2[j - 1] = s[i - 2]
      BY <3>2, <1>1
    <3> QED BY ONLY <2>1, <2>2, <3>1, <3>3, <1>8
  <2>3. CASE j = i
    <3>1. s2[j] = p /\ s2[j - 1] = x /\ j # 1
      BY <2>3, <1>0, <1>1
    <3>2. j # n => j + 1 \in 1 .. n /\ j + 1 # i - 1 /\ j + 1 # i
      BY <2>3, <1>0
    <3>3. j # n => s2[j + 1] = s[i + 1]
      BY <3>2, <2>3, <1>1
    <3> QED BY ONLY <2>1, <2>3, <3>1, <3>3, <1>8
  <2>4. CASE j # i - 1 /\ j # i
    <3>1. s2[j] = s[j] /\ s[j] # x /\ s[j] # p /\ s[j] \in Nodes
      BY <2>4, <1>0, <1>1, <1>2, <1>7
    <3>2. s[j] = r.prev[p] <=> j = i - 2
      <4>1. i - 1 # 1 => i - 2 \in 1 .. n
        BY <1>0
      <4>2. j = i - 2 => i - 1 # 1
        OBVIOUS
      <4> QED BY <4>1, <4>2, <1>2, <1>7, <1>8
    <3>3. s[j] = r.next[x] <=> j = i + 1
      <4>1. i # n => i + 1 \in 1 .. n
        BY <1>0
      <4>2. j = i + 1 => i # n
        BY <1>0
      <4> QED BY <4>1, <4>2, <1>2, <1>7, <1>8
    <3>4. /\ r.next[s[j]] = IF j = n THEN None ELSE s[j + 1]
          /\ r.prev[s[j]] = IF j = 1 THEN None ELSE s[j - 1]
      BY <1>6
    <3>5. r2.next[s[j]] = IF j = n THEN None ELSE s2[j + 1]
      <4>1. CASE j = i - 2
        <5>1. s2[j + 1] = x /\ j # n
          BY <4>1, <1>0, <1>1
        <5> QED BY ONLY <4>1, <5>1, <2>1, <3>1, <3>2
      <4>2. CASE j # i - 2
        <5>1. j # n => s2[j + 1] = s[j + 1]
          <6>1. j # n => j + 1 \in 1 .. n /\ j + 1 # i - 1 /\ j + 1 # i
            BY <4>2, <2>4, <1>0
          <6> QED BY <6>1, <1>1
        <5> QED BY ONLY <4>2, <5>1, <2>1, <3>1, <3>2, <3>4
      <4> QED BY <4>1, <4>2
    <3>6. r2.prev[s[j]] = IF j = 1 THEN None ELSE s2[j - 1]
      <4>1. CASE j = i + 1
        <5>1. s2[j - 1] = p /\ j # 1
          BY <4>1, <1>0, <1>1
        <5> QED BY ONLY <4>1, <5>1, <2>1, <3>1, <3>3
      <4>2. CASE j # i + 1
        <5>1. j # 1 => s2[j - 1] = s[j - 1]
          <6>1. j # 1 => j - 1 \in 1 .. n /\ j - 1 # i - 1 /\ j - 1 # i
            BY <4>2, <2>4, <1>0
          <6> QED BY <6>1, <1>1
        <5> QED BY ONLY <4>2, <5>1, <2>1, <3>1, <3>3, <3>4
      <4> QED BY <4>1, <4>2
    <3> QED BY <3>1, <3>5, <3>6
  <2> QED BY <2>2, <2>3, <2>4
<1>13. Chain(r2, l, s2)
  BY ONLY <1>1, <1>9, <1>10, <1>11, <1>12 DEF Chain
<1> QED BY <1>0, <1>1, <1>13

\* A step that touches nothing of a list leaves it a chain.
LEMMA ChainFrame ==
    ASSUME NEW l \in Lrus, NEW s \in Lists(l), NEW r, NEW r2, Chain(r, l, s),
           r2.heads[l] = r.heads[l], r2.tails[l] = r.tails[l],
           \A i \in 1 .. Len(s) : r2.next[s[i]] = r.next[s[i]] /\ r2.prev[s[i]] = r.prev[s[i]]
    PROVE  Chain(r2, l, s)
BY DEF Chain

-----------------------------------------------------------------------------
(* What one operation on one list does to all of them.                     *)

LEMMA MembersApart ==
    ASSUME NEW P, NEW en, NEW y, NEW k \in Lrus, NEW l \in Lrus,
           Member(P, en, y, k), Member(P, en, y, l)
    PROVE  k = l
BY DEF Member

\* The ends of a list, and the neighbours of its nodes, are its nodes.
LEMMA Neighbours ==
    ASSUME NEW r, NEW P, NEW en, NEW rem, NEW l \in Lrus, NEW s \in Lists(l),
           ListOK(r, P, en, rem, l, s)
    PROVE  /\ r.heads[l] # None => Member(P, en, r.heads[l], l)
           /\ r.tails[l] # None => Member(P, en, r.tails[l], l)
           /\ \A y \in Nodes : Member(P, en, y, l) =>
                /\ r.heads[l] # None /\ r.tails[l] # None
                /\ r.next[y] # None => Member(P, en, r.next[y], l) /\ r.prev[r.next[y]] = y
                /\ r.prev[y] # None => Member(P, en, r.prev[y], l) /\ r.next[r.prev[y]] = y
                /\ r.prev[y] = None <=> r.heads[l] = y
                /\ r.next[y] = None <=> r.tails[l] = y
<1>0. PICK n \in Nat : n = Len(s)
  BY ListSeq
<1>1. /\ s = <<>> <=> n = 0
      /\ \A i \in 1 .. n : s[i] \in Nodes /\ s[i] # None /\ Member(P, en, s[i], l)
  <2>1. \A i \in 1 .. n : s[i] \in Nodes /\ s[i] # None /\ In(s[i], s)
    BY <1>0, ListSeq DEF In
  <2> QED BY <2>1, <1>0, ListSeq DEF ListOK
<1>2. /\ r.heads[l] = IF n = 0 THEN None ELSE s[1]
      /\ r.tails[l] = IF n = 0 THEN None ELSE s[n]
      /\ \A i \in 1 .. n : /\ r.next[s[i]] = IF i = n THEN None ELSE s[i + 1]
                           /\ r.prev[s[i]] = IF i = 1 THEN None ELSE s[i - 1]
      /\ \A i, j \in 1 .. n : s[i] = s[j] => i = j
  BY <1>0, <1>1 DEF ListOK, Chain, Once
<1>3. n # 0 => 1 \in 1 .. n /\ n \in 1 .. n
  OBVIOUS
<1>4. ASSUME NEW y \in Nodes, Member(P, en, y, l)
      PROVE /\ r.heads[l] # None /\ r.tails[l] # None
            /\ r.next[y] # None => Member(P, en, r.next[y], l) /\ r.prev[r.next[y]] = y
            /\ r.prev[y] # None => Member(P, en, r.prev[y], l) /\ r.next[r.prev[y]] = y
            /\ r.prev[y] = None <=> r.heads[l] = y
            /\ r.next[y] = None <=> r.tails[l] = y
  <2>1. PICK i \in 1 .. n : s[i] = y
    BY <1>4, <1>0 DEF ListOK, In
  <2>2. n # 0 /\ r.heads[l] = s[1] /\ r.tails[l] = s[n]
    BY <1>2
  <2>3. i # n => i + 1 \in 1 .. n /\ (i + 1) - 1 = i /\ i + 1 # 1
    OBVIOUS
  <2>4. i # 1 => i - 1 \in 1 .. n /\ (i - 1) + 1 = i /\ i - 1 # n
    OBVIOUS
  <2>5. /\ r.next[y] = IF i = n THEN None ELSE s[i + 1]
        /\ r.prev[y] = IF i = 1 THEN None ELSE s[i - 1]
    BY <2>1, <1>2
  <2>6. (s[1] = y <=> i = 1) /\ (s[n] = y <=> i = n)
    BY <2>1, <2>2, <1>2, <1>3
  <2>7. r.next[y] # None => Member(P, en, r.next[y], l) /\ r.prev[r.next[y]] = y
    BY ONLY <2>1, <2>3, <2>5, <1>1, <1>2
  <2>8. r.prev[y] # None => Member(P, en, r.prev[y], l) /\ r.next[r.prev[y]] = y
    BY ONLY <2>1, <2>4, <2>5, <1>1, <1>2
  <2> QED BY ONLY <2>2, <2>3, <2>4, <2>5, <2>6, <2>7, <2>8, <1>1, <1>3
<1>5. /\ r.heads[l] # None => Member(P, en, r.heads[l], l)
      /\ r.tails[l] # None => Member(P, en, r.tails[l], l)
  BY <1>1, <1>2, <1>3
<1> QED BY <1>4, <1>5

\* The lists are good when one of them is, and the rest is as it was.
LEMMA GoodFrom ==
    ASSUME NEW r, NEW P, NEW en, NEW rem, NEW r2, NEW P2, NEW en2, NEW rem2, NEW l \in Lrus,
           Good(r, P, en, rem), ListsType(r2),
           \E s \in Lists(l) : ListOK(r2, P2, en2, rem2, l, s),
           r2.sizes[l] = Cardinality(Placed(P2, l)),
           \A k \in Lrus \ {l} :
              /\ r2.heads[k] = r.heads[k] /\ r2.tails[k] = r.tails[k]
              /\ r2.sizes[k] = r.sizes[k] /\ r2.due[k] = r.due[k]
              /\ rem2[k] = rem[k] /\ (k \in en2 <=> k \in en)
              /\ \A y \in Items : P2[y] = k <=> P[y] = k
              /\ \A y \in Nodes : Member(P, en, y, k) =>
                                     r2.next[y] = r.next[y] /\ r2.prev[y] = r.prev[y],
           \A y \in Items : P2[y] = None => r2.next[y] = None /\ r2.prev[y] = None
    PROVE  Good(r2, P2, en2, rem2)
<1>1. ASSUME NEW k \in Lrus \ {l} PROVE \E s \in Lists(k) : ListOK(r2, P2, en2, rem2, k, s)
  <2>1. PICK s \in Lists(k) : ListOK(r, P, en, rem, k, s)
    BY DEF Good
  <2>2. \A i \in 1 .. Len(s) : s[i] \in Nodes /\ Member(P, en, s[i], k)
    <3>1. \A i \in 1 .. Len(s) : s[i] \in Nodes /\ In(s[i], s)
      BY ListSeq DEF In
    <3> QED BY <3>1, <2>1 DEF ListOK
  <2>3. Chain(r, k, s)
    BY <2>1 DEF ListOK
  <2>4. Chain(r2, k, s)
    <3>1. \A i \in 1 .. Len(s) : r2.next[s[i]] = r.next[s[i]] /\ r2.prev[s[i]] = r.prev[s[i]]
      BY <2>2
    <3> QED BY <3>1, <2>3, ChainFrame
  <2>5. \A x \in Nodes : In(x, s) <=> Member(P2, en2, x, k)
    BY <2>1 DEF ListOK, Member
  <2>6. \E m \in 1 .. Len(s) + 1 : \E a \in 1 .. m : Ahead(r2, en2, rem2, k, s, a, m)
    <3>1. PICK m \in 1 .. Len(s) + 1 : \E a \in 1 .. m : Ahead(r, en, rem, k, s, a, m)
      BY <2>1 DEF ListOK
    <3>2. PICK a \in 1 .. m : Ahead(r, en, rem, k, s, a, m)
      BY <3>1
    <3>3. r2.due[k] = r.due[k] /\ rem2[k] = rem[k] /\ (k \in en2 <=> k \in en)
      OBVIOUS
    <3>4. Ahead(r2, en2, rem2, k, s, a, m)
      BY ONLY <3>2, <3>3 DEF Ahead
    <3> QED BY <3>4
  <2> QED BY <2>4, <2>5, <2>6 DEF ListOK
<1>2. \A k \in Lrus : \E s \in Lists(k) : ListOK(r2, P2, en2, rem2, k, s)
  BY <1>1
<1>3. \A k \in Lrus : r2.sizes[k] = Cardinality(Placed(P2, k))
  <2>1. ASSUME NEW k \in Lrus \ {l} PROVE r2.sizes[k] = Cardinality(Placed(P2, k))
    <3>1. Placed(P2, k) = Placed(P, k)
      BY DEF Placed
    <3> QED BY <3>1 DEF Good
  <2> QED BY <2>1
<1> QED BY <1>2, <1>3 DEF Good

LEMMA GoodPush ==
    ASSUME NEW r, NEW P \in [Items -> Lrus \cup {None}], NEW en, NEW rem, NEW r2,
           NEW l \in Lrus, NEW x \in Items,
           Good(r, P, en, rem), P[x] = None, ListsType(r2), IsPush(r, r2, x, l),
           r2.sizes = [r.sizes EXCEPT ![l] = @ + 1], r2.due = r.due
    PROVE  Good(r2, [P EXCEPT ![x] = l], en, rem)
<1> DEFINE P2 == [P EXCEPT ![x] = l]
<1>0. None \notin Lrus /\ x \notin Lrus /\ x # None
  OBVIOUS
<1>1. PICK s \in Lists(l) : ListOK(r, P, en, rem, l, s)
  BY DEF Good
<1>2. \A k \in Lrus : ~Member(P, en, x, k)
  BY <1>0 DEF Member
<1>3. ~In(x, s)
  BY <1>1, <1>2 DEF ListOK, Nodes
<1>4. Chain(r, l, s)
  BY <1>1 DEF ListOK
<1>5. Push(x, s) \in Lists(l) /\ Chain(r2, l, Push(x, s))
  BY <1>3, <1>4, PushChain
<1>6. /\ Len(Push(x, s)) = Len(s) + 1
      /\ \A j \in 1 .. Len(s) : Push(x, s)[j + 1] = s[j]
      /\ \A y : In(y, Push(x, s)) <=> y = x \/ In(y, s)
  <2>0. PICK S : S = Items \cup {l}
    OBVIOUS
  <2>1. s \in Seq(S) /\ x \in S
    BY <2>0 DEF Lists
  <2>2. Len(Push(x, s)) = Len(s) + 1 /\ \A j \in 1 .. Len(s) : Push(x, s)[j + 1] = s[j]
    BY ONLY <2>1, PushSeq
  <2>3. \A y : In(y, Push(x, s)) <=> y = x \/ In(y, s)
    BY ONLY <2>1, PushIn
  <2> QED BY <2>2, <2>3
<1>7. \A y \in Nodes : In(y, Push(x, s)) <=> Member(P2, en, y, l)
  <2>1. \A y \in Nodes : In(y, s) <=> Member(P, en, y, l)
    BY <1>1 DEF ListOK
  <2> QED BY <2>1, <1>0, <1>6 DEF Member
<1>8. \E m \in 1 .. Len(Push(x, s)) + 1 : \E a \in 1 .. m : Ahead(r2, en, rem, l, Push(x, s), a, m)
  <2>0. PICK n \in Nat : n = Len(s)
    BY ListSeq
  <2>11. PICK m \in 1 .. n + 1 : \E a \in 1 .. m : Ahead(r, en, rem, l, s, a, m)
    BY <1>1, <2>0 DEF ListOK
  <2>1. PICK a \in 1 .. m : Ahead(r, en, rem, l, s, a, m)
    BY <2>11
  <2>2. m + 1 \in 1 .. Len(Push(x, s)) + 1 /\ a + 1 \in 1 .. m + 1
    BY <2>0, <1>6
  <2>3. l \in en => m + 1 <= Len(Push(x, s)) /\ Push(x, s)[m + 1] = l
    <3>1. ASSUME l \in en PROVE m + 1 <= Len(Push(x, s)) /\ Push(x, s)[m + 1] = l
      <4>1. m \in 1 .. n /\ s[m] = l
        BY <3>1, <2>1, <2>0 DEF Ahead
      <4> QED BY <4>1, <2>0, <1>6
    <3> QED BY <3>1
  <2>4. ASSUME NEW y
        PROVE  (\E i \in a + 1 .. (m + 1) - 1 : Push(x, s)[i] = y) <=> \E i \in a .. m - 1 : s[i] = y
    <3>1. \A i \in a + 1 .. (m + 1) - 1 : i - 1 \in a .. m - 1 /\ i - 1 \in 1 .. n /\ (i - 1) + 1 = i
      OBVIOUS
    <3>2. \A i \in a .. m - 1 : i + 1 \in a + 1 .. (m + 1) - 1 /\ i \in 1 .. n
      OBVIOUS
    <3>3. \A i \in a + 1 .. (m + 1) - 1 : Push(x, s)[i] = s[i - 1]
      BY <3>1, <1>6, <2>0
    <3>4. \A i \in a .. m - 1 : Push(x, s)[i + 1] = s[i]
      BY <3>2, <1>6, <2>0
    <3> QED BY ONLY <3>1, <3>2, <3>3, <3>4
  <2>5. a + 1 < m + 1 /\ rem[l] # 0 => (m + 1) - (a + 1) < rem[l]
    <3>1. (a + 1 < m + 1 <=> a < m) /\ (m + 1) - (a + 1) = m - a
      OBVIOUS
    <3> QED BY <3>1, <2>1 DEF Ahead
  <2>6. Ahead(r2, en, rem, l, Push(x, s), a + 1, m + 1)
    BY <2>1, <2>3, <2>4, <2>5 DEF Ahead
  <2> QED BY <2>2, <2>6
<1>9. \E s2 \in Lists(l) : ListOK(r2, P2, en, rem, l, s2)
  BY <1>5, <1>7, <1>8 DEF ListOK
<1>10. r2.sizes[l] = Cardinality(Placed(P2, l))
  <2>1. Placed(P2, l) = Placed(P, l) \cup {x} /\ x \notin Placed(P, l)
    BY <1>0 DEF Placed
  <2>2. IsFiniteSet(Placed(P, l))
    BY FS_Subset DEF Placed
  <2>3. r.sizes[l] = Cardinality(Placed(P, l)) /\ r.sizes \in [Lrus -> Int]
    BY DEF Good, ListsType
  <2>4. Cardinality(Placed(P2, l)) = Cardinality(Placed(P, l)) + 1
    BY ONLY <2>1, <2>2, CardAdd
  <2> QED BY <2>3, <2>4
<1>11. ASSUME NEW k \in Lrus \ {l}
       PROVE  /\ r2.heads[k] = r.heads[k] /\ r2.tails[k] = r.tails[k]
              /\ r2.sizes[k] = r.sizes[k] /\ r2.due[k] = r.due[k]
              /\ rem[k] = rem[k] /\ (k \in en <=> k \in en)
              /\ \A y \in Items : P2[y] = k <=> P[y] = k
              /\ \A y \in Nodes : Member(P, en, y, k) =>
                                     r2.next[y] = r.next[y] /\ r2.prev[y] = r.prev[y]
  <2>1. r2.heads[k] = r.heads[k] /\ r2.tails[k] = r.tails[k]
    BY DEF IsPush, OthersKeep
  <2>2. r2.sizes[k] = r.sizes[k] /\ r2.due[k] = r.due[k]
    BY DEF Good, ListsType
  <2>3. \A y \in Items : P2[y] = k <=> P[y] = k
    BY <1>0
  <2>4. ASSUME NEW y \in Nodes, Member(P, en, y, k)
        PROVE  r2.next[y] = r.next[y] /\ r2.prev[y] = r.prev[y]
    <3>1. y # x /\ y # None
      BY <2>4, <1>2
    <3>2. y # r.heads[l]
      BY <3>1, <2>4, <1>1, Neighbours, MembersApart
    <3> QED BY <3>1, <3>2 DEF IsPush
  <2> QED BY <2>1, <2>2, <2>3, <2>4
<1>12. ASSUME NEW y \in Items, P2[y] = None PROVE r2.next[y] = None /\ r2.prev[y] = None
  <2>1. y # x /\ P[y] = None /\ y \in Nodes /\ y # None
    BY <1>12, <1>0 DEF Nodes
  <2>2. ~Member(P, en, y, l)
    BY <2>1, <1>0 DEF Member
  <2>3. y # r.heads[l]
    BY <2>1, <2>2, <1>1, Neighbours
  <2>4. r.next[y] = None /\ r.prev[y] = None
    BY <2>1 DEF Good
  <2> QED BY <2>1, <2>3, <2>4 DEF IsPush
<1> HIDE DEF P2
<1>13. Good(r2, P2, en, rem)
  <2>1. Good(r, P, en, rem) /\ ListsType(r2)
    OBVIOUS
  <2> QED BY ONLY <2>1, <1>9, <1>10, <1>11, <1>12, GoodFrom
<1> QED BY <1>13 DEF P2

\* Cutting x out of list l touches nothing else.
LEMMA CutElsewhere ==
    ASSUME NEW r, NEW P, NEW en, NEW rem, NEW r2, NEW l \in Lrus, NEW s \in Lists(l),
           ListOK(r, P, en, rem, l, s), NEW x \in Nodes, Member(P, en, x, l), IsCut(r, r2, x, l),
           NEW y \in Nodes, ~Member(P, en, y, l)
    PROVE  r2.next[y] = r.next[y] /\ r2.prev[y] = r.prev[y]
<1>1. y # x /\ y # None
  OBVIOUS
<1>2. y # r.next[x] /\ y # r.prev[x]
  BY <1>1, Neighbours
<1> QED BY <1>1, <1>2 DEF IsCut

LEMMA CutPosition ==
    ASSUME NEW l \in Lrus, NEW s \in Lists(l), NEW r, NEW r2, NEW x,
           Chain(r, l, s), In(x, s), IsCut(r, r2, x, l)
    PROVE  \E i \in 1 .. Len(s) :
             /\ s[i] = x /\ Cut(s, i) \in Lists(l) /\ Chain(r2, l, Cut(s, i))
             /\ Len(Cut(s, i)) = Len(s) - 1
             /\ \A j \in 1 .. Len(s) - 1 : Cut(s, i)[j] = IF j < i THEN s[j] ELSE s[j + 1]
             /\ \A y : In(y, Cut(s, i)) <=> y # x /\ In(y, s)
<1>1. PICK i \in 1 .. Len(s) : s[i] = x
  BY DEF In
<1>2. Cut(s, i) \in Lists(l) /\ Chain(r2, l, Cut(s, i))
  <2>1. IsCut(r, r2, s[i], l)
    BY <1>1
  <2> QED BY ONLY <2>1, Chain(r, l, s), CutChain, i \in 1 .. Len(s), l \in Lrus, s \in Lists(l)
<1>3. PICK S : S = Items \cup {l}
  OBVIOUS
<1>4. s \in Seq(S) /\ Once(s)
  BY <1>3 DEF Lists, Chain
<1>5. /\ Len(Cut(s, i)) = Len(s) - 1
      /\ \A j \in 1 .. Len(s) - 1 : Cut(s, i)[j] = IF j < i THEN s[j] ELSE s[j + 1]
  BY ONLY <1>4, CutSeq
<1>6. \A y : In(y, Cut(s, i)) <=> y # s[i] /\ In(y, s)
  BY ONLY <1>4, CutIn
<1> QED BY <1>1, <1>2, <1>5, <1>6

LEMMA GoodCut ==
    ASSUME NEW r, NEW P \in [Items -> Lrus \cup {None}], NEW en, NEW rem, NEW r2,
           NEW l \in Lrus, NEW x \in Items,
           Good(r, P, en, rem), P[x] = l, ListsType(r2), IsCut(r, r2, x, l),
           rem \in [Lrus -> Nat],
           r2.sizes = [r.sizes EXCEPT ![l] = @ - 1], r2.due = [r.due EXCEPT ![l] = @ \ {x}]
    PROVE  Good(r2, [P EXCEPT ![x] = None], en, rem)
<1> DEFINE P2 == [P EXCEPT ![x] = None]
<1>0. None \notin Lrus /\ x \notin Lrus /\ x # None /\ x # l /\ x \in Nodes
  BY DEF Nodes
<1>1. PICK s \in Lists(l) : ListOK(r, P, en, rem, l, s)
  BY DEF Good
<1>2. Member(P, en, x, l) /\ \A k \in Lrus \ {l} : ~Member(P, en, x, k)
  BY <1>0 DEF Member
<1>3. Chain(r, l, s) /\ In(x, s) /\ \A y \in Nodes : In(y, s) <=> Member(P, en, y, l)
  BY <1>0, <1>1, <1>2 DEF ListOK
<1>4. PICK i \in 1 .. Len(s) :
        /\ s[i] = x /\ Cut(s, i) \in Lists(l) /\ Chain(r2, l, Cut(s, i))
        /\ Len(Cut(s, i)) = Len(s) - 1
        /\ \A j \in 1 .. Len(s) - 1 : Cut(s, i)[j] = IF j < i THEN s[j] ELSE s[j + 1]
        /\ \A y : In(y, Cut(s, i)) <=> y # x /\ In(y, s)
  <2>1. Chain(r, l, s) /\ In(x, s) /\ IsCut(r, r2, x, l) /\ l \in Lrus /\ s \in Lists(l)
    BY <1>3
  <2> QED BY ONLY <2>1, CutPosition
<1>5. PICK n \in Nat : n = Len(s)
  BY ListSeq
<1>6. PICK s2 : s2 = Cut(s, i)
  OBVIOUS
<1>7. \A y \in Nodes : In(y, s2) <=> Member(P2, en, y, l)
  BY <1>0, <1>3, <1>4, <1>6 DEF Member
<1>8. \E m \in 1 .. Len(s2) + 1 : \E a \in 1 .. m : Ahead(r2, en, rem, l, s2, a, m)
  <2>11. PICK m \in 1 .. n + 1 : \E a \in 1 .. m : Ahead(r, en, rem, l, s, a, m)
    BY <1>1, <1>5 DEF ListOK
  <2>1. PICK a \in 1 .. m : Ahead(r, en, rem, l, s, a, m)
    BY <2>11
  <2>2. /\ l \in en => m \in 1 .. n /\ s[m] = l
        /\ l \notin en => a = m
        /\ \A y \in Nodes : y \in r.due[l] <=> \E j \in a .. m - 1 : s[j] = y
        /\ a < m /\ rem[l] # 0 => m - a < rem[l]
        /\ rem[l] \in Nat
    BY <2>1, <1>5 DEF Ahead
  <2>3. /\ i \in 1 .. n /\ s[i] = x /\ Len(s2) = n - 1 /\ a \in 1 .. m /\ m \in 1 .. n + 1
        /\ \A j \in 1 .. n - 1 : s2[j] = IF j < i THEN s[j] ELSE s[j + 1]
        /\ \A j, k \in 1 .. n : s[j] = s[k] => j = k
    BY <1>4, <1>5, <1>6, <1>3 DEF Chain, Once
  <2>4. r2.due[l] = r.due[l] \ {x}
    BY DEF Good, ListsType
  <2>5. l \in en => i # m
    BY <2>2, <2>3, <1>0
  <2>6. CASE i < a
    <3>1. m - 1 \in 1 .. (n - 1) + 1 /\ a - 1 \in 1 .. m - 1
      BY <2>6, <2>3
    <3>2. l \in en => m - 1 \in 1 .. n - 1 /\ s2[m - 1] = l
      <4>1. l \in en => m - 1 \in 1 .. n - 1 /\ ~(m - 1 < i) /\ (m - 1) + 1 = m
        BY <2>6, <2>2, <2>3
      <4> QED BY <4>1, <2>2, <2>3
    <3>3. ASSUME NEW y
          PROVE  (\E j \in a - 1 .. (m - 1) - 1 : s2[j] = y) <=> \E j \in a .. m - 1 : s[j] = y
      <4>1. \A j \in a - 1 .. (m - 1) - 1 : /\ j + 1 \in a .. m - 1 /\ j \in 1 .. n - 1
                                            /\ ~(j < i)
        BY <2>6, <2>3
      <4>2. \A j \in a .. m - 1 : /\ j - 1 \in a - 1 .. (m - 1) - 1 /\ (j - 1) + 1 = j
        BY <2>6, <2>3
      <4>3. \A j \in a - 1 .. (m - 1) - 1 : s2[j] = s[j + 1]
        BY <4>1, <2>3
      <4> QED BY ONLY <4>1, <4>2, <4>3
    <3>4. x \notin r.due[l]
      <4>1. \A j \in a .. m - 1 : j \in 1 .. n /\ j # i
        BY <2>6, <2>3
      <4>2. \A j \in a .. m - 1 : s[j] # x
        BY <4>1, <2>3
      <4> QED BY <4>2, <2>2, <1>0
    <3>5. a - 1 < m - 1 /\ rem[l] # 0 => (m - 1) - (a - 1) < rem[l]
      <4>1. (a - 1 < m - 1 <=> a < m) /\ (m - 1) - (a - 1) = m - a
        OBVIOUS
      <4> QED BY <4>1, <2>2
    <3>7. \A y \in Nodes : y \in r2.due[l] <=> \E j \in a - 1 .. (m - 1) - 1 : s2[j] = y
      BY ONLY <2>2, <2>4, <3>3, <3>4
    <3>8. l \in en => m - 1 <= Len(s2) /\ s2[m - 1] = l
      BY <3>2, <2>3
    <3>9. l \notin en => a - 1 = m - 1
      BY <2>2
    <3>6. Ahead(r2, en, rem, l, s2, a - 1, m - 1)
      BY ONLY <3>5, <3>7, <3>8, <3>9 DEF Ahead
    <3> QED BY <3>1, <3>6, <2>3
  <2>7. CASE ~(i < a) /\ i < m
    <3>1. m - 1 \in 1 .. (n - 1) + 1 /\ a \in 1 .. m - 1 /\ l \in en
      BY <2>7, <2>2, <2>3
    <3>2. m - 1 \in 1 .. n - 1 /\ s2[m - 1] = l
      <4>1. m - 1 \in 1 .. n - 1 /\ ~(m - 1 < i) /\ (m - 1) + 1 = m
        BY <2>7, <3>1, <2>2, <2>3
      <4> QED BY <4>1, <3>1, <2>2, <2>3
    <3>3. ASSUME NEW y
          PROVE  (\E j \in a .. (m - 1) - 1 : s2[j] = y) <=> y # x /\ \E j \in a .. m - 1 : s[j] = y
      <4>1. ASSUME NEW j \in a .. (m - 1) - 1, s2[j] = y
            PROVE  y # x /\ \E k \in a .. m - 1 : s[k] = y
        <5>1. /\ j \in 1 .. n - 1 /\ j \in 1 .. n /\ j + 1 \in 1 .. n
              /\ j \in a .. m - 1 /\ j + 1 \in a .. m - 1
              /\ (j < i => j # i) /\ (~(j < i) => j + 1 # i)
          BY <2>7, <2>3
        <5> QED BY <5>1, <4>1, <2>3
      <4>2. ASSUME NEW j \in a .. m - 1, s[j] = y, y # x
            PROVE  \E k \in a .. (m - 1) - 1 : s2[k] = y
        <5>1. j # i
          BY <4>2, <2>3
        <5>2. CASE j < i
          <6>1. j \in a .. (m - 1) - 1 /\ j \in 1 .. n - 1
            BY <5>2, <2>7, <2>3
          <6>2. s2[j] = s[j]
            BY <6>1, <5>2, <2>3
          <6> QED BY <6>1, <6>2, <4>2
        <5>3. CASE j > i
          <6>1. j - 1 \in a .. (m - 1) - 1 /\ j - 1 \in 1 .. n - 1 /\ ~(j - 1 < i) /\ (j - 1) + 1 = j
            BY <5>3, <2>7, <2>3
          <6>2. s2[j - 1] = s[j]
            BY <6>1, <2>3
          <6> QED BY <6>1, <6>2, <4>2
        <5> QED BY <5>1, <5>2, <5>3, <2>3
      <4> QED BY <4>1, <4>2
    <3>5. a < m - 1 /\ rem[l] # 0 => (m - 1) - a < rem[l]
      BY <2>2, <2>3
    <3>7. \A y \in Nodes : y \in r2.due[l] <=> \E j \in a .. (m - 1) - 1 : s2[j] = y
      BY ONLY <2>2, <2>4, <3>3
    <3>8. m - 1 <= Len(s2) /\ s2[m - 1] = l /\ l \in en
      BY <3>1, <3>2, <2>3
    <3>6. Ahead(r2, en, rem, l, s2, a, m - 1)
      BY ONLY <3>5, <3>7, <3>8 DEF Ahead
    <3> QED BY <3>1, <3>6, <2>3
  <2>8. CASE ~(i < m)
    <3>1. m \in 1 .. (n - 1) + 1
      BY <2>8, <2>3
    <3>2. l \in en => m \in 1 .. n - 1 /\ s2[m] = l
      <4>1. l \in en => m \in 1 .. n - 1 /\ m < i
        BY <2>5, <2>8, <2>2, <2>3
      <4> QED BY <4>1, <2>2, <2>3
    <3>3. ASSUME NEW y
          PROVE  (\E j \in a .. m - 1 : s2[j] = y) <=> \E j \in a .. m - 1 : s[j] = y
      <4>1. \A j \in a .. m - 1 : j \in 1 .. n - 1 /\ j < i
        BY <2>8, <2>3
      <4>2. \A j \in a .. m - 1 : s2[j] = s[j]
        BY <4>1, <2>3
      <4> QED BY ONLY <4>2
    <3>4. x \notin r.due[l]
      <4>1. \A j \in a .. m - 1 : j \in 1 .. n /\ j # i
        BY <2>8, <2>3
      <4>2. \A j \in a .. m - 1 : s[j] # x
        BY <4>1, <2>3
      <4> QED BY <4>2, <2>2, <1>0
    <3>5. \A y \in Nodes : y \in r2.due[l] <=> \E j \in a .. m - 1 : s2[j] = y
      <4>1. \A y \in Nodes : y \in r2.due[l] <=> y \in r.due[l]
        BY ONLY <2>4, <3>4
      <4> QED BY ONLY <4>1, <2>2, <3>3
    <3>7. l \in en => m <= Len(s2) /\ s2[m] = l
      BY ONLY <3>2, <2>3, n \in Nat
    <3>8. /\ l \notin en => a = m
          /\ a < m /\ rem[l] # 0 => m - a < rem[l]
      BY ONLY <2>2
    <3>6. Ahead(r2, en, rem, l, s2, a, m)
      BY ONLY <3>5, <3>7, <3>8 DEF Ahead
    <3> QED BY <3>1, <3>6, <2>3
  <2> QED BY <2>6, <2>7, <2>8
<1>9. \E t \in Lists(l) : ListOK(r2, P2, en, rem, l, t)
  BY <1>4, <1>6, <1>7, <1>8 DEF ListOK
<1>10. r2.sizes[l] = Cardinality(Placed(P2, l))
  <2>1. Placed(P2, l) = Placed(P, l) \ {x} /\ x \in Placed(P, l)
    BY <1>0 DEF Placed
  <2>2. IsFiniteSet(Placed(P, l))
    BY FS_Subset DEF Placed
  <2>3. r.sizes[l] = Cardinality(Placed(P, l)) /\ r.sizes \in [Lrus -> Int]
    BY DEF Good, ListsType
  <2>4. Cardinality(Placed(P2, l)) = Cardinality(Placed(P, l)) - 1
    BY ONLY <2>1, <2>2, CardDel
  <2> QED BY <2>3, <2>4
<1>11. ASSUME NEW k \in Lrus \ {l}
       PROVE  /\ r2.heads[k] = r.heads[k] /\ r2.tails[k] = r.tails[k]
              /\ r2.sizes[k] = r.sizes[k] /\ r2.due[k] = r.due[k]
              /\ rem[k] = rem[k] /\ (k \in en <=> k \in en)
              /\ \A y \in Items : P2[y] = k <=> P[y] = k
              /\ \A y \in Nodes : Member(P, en, y, k) =>
                                     r2.next[y] = r.next[y] /\ r2.prev[y] = r.prev[y]
  <2>1. r2.heads[k] = r.heads[k] /\ r2.tails[k] = r.tails[k]
    BY DEF IsCut, OthersKeep
  <2>2. r2.sizes[k] = r.sizes[k] /\ r2.due[k] = r.due[k]
    BY DEF Good, ListsType
  <2>3. \A y \in Items : P2[y] = k <=> P[y] = k
    BY <1>0
  <2>4. ASSUME NEW y \in Nodes, Member(P, en, y, k)
        PROVE  r2.next[y] = r.next[y] /\ r2.prev[y] = r.prev[y]
    <3>1. ~Member(P, en, y, l)
      BY <2>4, MembersApart
    <3> QED BY <3>1, <1>0, <1>1, <1>2, CutElsewhere
  <2> QED BY <2>1, <2>2, <2>3, <2>4
<1>12. ASSUME NEW y \in Items, P2[y] = None PROVE r2.next[y] = None /\ r2.prev[y] = None
  <2>1. CASE y = x
    BY <2>1, <1>0 DEF IsCut
  <2>2. CASE y # x
    <3>1. P[y] = None /\ y \in Nodes
      BY <1>12, <2>2 DEF Nodes
    <3>2. ~Member(P, en, y, l)
      BY <3>1, <1>0 DEF Member
    <3>3. r.next[y] = None /\ r.prev[y] = None
      BY <3>1 DEF Good
    <3> QED BY <3>1, <3>2, <3>3, <1>0, <1>1, <1>2, CutElsewhere
  <2> QED BY <2>1, <2>2
<1> HIDE DEF P2
<1>13. Good(r2, P2, en, rem)
  <2>1. Good(r, P, en, rem) /\ ListsType(r2)
    OBVIOUS
  <2> QED BY ONLY <2>1, <1>9, <1>10, <1>11, <1>12, GoodFrom
<1> QED BY <1>13 DEF P2

\* The marker leaves a list whose crawl has nothing left to meet.
LEMMA GoodOut ==
    ASSUME NEW r, NEW P \in [Items -> Lrus \cup {None}], NEW en, NEW rem, NEW rem2, NEW r2,
           NEW l \in en, l \in Lrus,
           Good(r, P, en, rem), ListsType(r2), IsCut(r, r2, l, l),
           \A k \in Lrus \ {l} : rem2[k] = rem[k], r.due[l] = {},
           r2.sizes = r.sizes, r2.due = r.due
    PROVE  Good(r2, P, en \ {l}, rem2)
<1>0. None \notin Lrus /\ l \notin Items /\ l \in Nodes
  BY DEF Nodes
<1>1. PICK s \in Lists(l) : ListOK(r, P, en, rem, l, s)
  BY DEF Good
<1>2. Member(P, en, l, l)
  BY <1>0 DEF Member
<1>3. Chain(r, l, s) /\ In(l, s) /\ \A y \in Nodes : In(y, s) <=> Member(P, en, y, l)
  BY <1>0, <1>1, <1>2 DEF ListOK
<1>4. PICK i \in 1 .. Len(s) :
        /\ s[i] = l /\ Cut(s, i) \in Lists(l) /\ Chain(r2, l, Cut(s, i))
        /\ Len(Cut(s, i)) = Len(s) - 1
        /\ \A j \in 1 .. Len(s) - 1 : Cut(s, i)[j] = IF j < i THEN s[j] ELSE s[j + 1]
        /\ \A y : In(y, Cut(s, i)) <=> y # l /\ In(y, s)
  <2>1. Chain(r, l, s) /\ In(l, s) /\ IsCut(r, r2, l, l) /\ l \in Lrus /\ s \in Lists(l)
    BY <1>3
  <2> QED BY ONLY <2>1, CutPosition
<1>6. PICK s2 : s2 = Cut(s, i)
  OBVIOUS
<1>7. \A y \in Nodes : In(y, s2) <=> Member(P, en \ {l}, y, l)
  BY <1>0, <1>3, <1>4, <1>6 DEF Member
<1>8. \E m \in 1 .. Len(s2) + 1 : \E a \in 1 .. m : Ahead(r2, en \ {l}, rem2, l, s2, a, m)
  <2>1. 1 \in 1 .. Len(s2) + 1 /\ 1 \in 1 .. 1
    BY <1>4, <1>6, ListSeq
  <2>2. Ahead(r2, en \ {l}, rem2, l, s2, 1, 1)
    BY DEF Ahead
  <2> QED BY <2>1, <2>2
<1>9. \E t \in Lists(l) : ListOK(r2, P, en \ {l}, rem2, l, t)
  BY <1>4, <1>6, <1>7, <1>8 DEF ListOK
<1>11. ASSUME NEW k \in Lrus \ {l}
       PROVE  /\ r2.heads[k] = r.heads[k] /\ r2.tails[k] = r.tails[k]
              /\ r2.sizes[k] = r.sizes[k] /\ r2.due[k] = r.due[k]
              /\ rem2[k] = rem[k] /\ (k \in en \ {l} <=> k \in en)
              /\ \A y \in Items : P[y] = k <=> P[y] = k
              /\ \A y \in Nodes : Member(P, en, y, k) =>
                                     r2.next[y] = r.next[y] /\ r2.prev[y] = r.prev[y]
  <2>1. r2.heads[k] = r.heads[k] /\ r2.tails[k] = r.tails[k]
    BY DEF IsCut, OthersKeep
  <2>4. ASSUME NEW y \in Nodes, Member(P, en, y, k)
        PROVE  r2.next[y] = r.next[y] /\ r2.prev[y] = r.prev[y]
    <3>1. ~Member(P, en, y, l)
      BY <2>4, MembersApart
    <3> QED BY <3>1, <1>0, <1>1, <1>2, CutElsewhere
  <2> QED BY <2>1, <2>4
<1>12. ASSUME NEW y \in Items, P[y] = None PROVE r2.next[y] = None /\ r2.prev[y] = None
  <2>1. y \in Nodes
    BY DEF Nodes
  <2>2. ~Member(P, en, y, l)
    BY <1>12, <1>0 DEF Member
  <2>3. r.next[y] = None /\ r.prev[y] = None
    BY <1>12 DEF Good
  <2> QED BY <2>1, <2>2, <2>3, <1>0, <1>1, <1>2, CutElsewhere
<1>13. r2.sizes[l] = Cardinality(Placed(P, l))
  BY DEF Good
<1>14. Good(r, P, en, rem) /\ ListsType(r2) /\ l \in Lrus
  OBVIOUS
<1> QED BY ONLY <1>14, <1>9, <1>11, <1>12, <1>13, GoodFrom

\* The marker swings ahead of the node before it, which it has met.
LEMMA GoodSwap ==
    ASSUME NEW r, NEW P \in [Items -> Lrus \cup {None}], NEW en, NEW rem, NEW rem2, NEW r2,
           NEW l \in en, l \in Lrus, NEW p, p = r.prev[l], p # None,
           Good(r, P, en, rem), ListsType(r2), IsSwap(r, r2, l, p, l),
           rem \in [Lrus -> Nat], \A k \in Lrus \ {l} : rem2[k] = rem[k],
           rem2[l] = IF rem[l] = 0 THEN 0 ELSE rem[l] - 1,
           r2.sizes = r.sizes, r2.due = [r.due EXCEPT ![l] = @ \ {p}]
    PROVE  Good(r2, P, en, rem2) /\ p \in Items /\ P[p] = l
<1>0. None \notin Lrus /\ l \notin Items /\ l \in Nodes
  BY DEF Nodes
<1>1. PICK s \in Lists(l) : ListOK(r, P, en, rem, l, s)
  BY DEF Good
<1>2. Member(P, en, l, l)
  BY <1>0 DEF Member
<1>3. Chain(r, l, s) /\ In(l, s) /\ \A y \in Nodes : In(y, s) <=> Member(P, en, y, l)
  BY <1>0, <1>1, <1>2 DEF ListOK
<1>5. PICK n \in Nat : n = Len(s)
  BY ListSeq
<1>40. PICK i \in 1 .. n : s[i] = l
  BY <1>3, <1>5 DEF In
<1>41. /\ \A j, k \in 1 .. n : s[j] = s[k] => j = k
       /\ r.prev[l] = IF i = 1 THEN None ELSE s[i - 1]
       /\ \A j \in 1 .. n : s[j] \in Nodes /\ s[j] # None
  BY <1>3, <1>5, <1>40, ListSeq DEF Chain, Once
<1>42. i \in 2 .. n /\ s[i - 1] = p /\ i - 1 \in 1 .. n /\ i \in 1 .. n /\ p # l
  <2>1. i # 1 /\ s[i - 1] = p
    BY <1>41
  <2>2. i \in 2 .. n /\ i - 1 \in 1 .. n /\ i # i - 1
    BY <2>1
  <2> QED BY <2>1, <2>2, <1>40, <1>41
<1>43. p \in Items /\ P[p] = l
  <2>1. In(p, s) /\ p \in Nodes
    BY <1>42, <1>41, <1>5 DEF In
  <2> QED BY <2>1, <1>3, <1>42 DEF Member
<1>4. Swap(s, i) \in Lists(l) /\ Chain(r2, l, Swap(s, i))
  <2>1. IsSwap(r, r2, s[i], s[i - 1], l) /\ i \in 2 .. Len(s)
    BY <1>40, <1>42, <1>5
  <2> QED BY ONLY <2>1, <1>3, SwapChain, l \in Lrus, s \in Lists(l)
<1>44. /\ Len(Swap(s, i)) = n
       /\ \A j \in 1 .. n : Swap(s, i)[j] = IF j = i - 1 THEN l ELSE IF j = i THEN p ELSE s[j]
       /\ \A y : In(y, Swap(s, i)) <=> In(y, s)
  <2>0. PICK S : S = Items \cup {l}
    OBVIOUS
  <2>1. s \in Seq(S) /\ i \in 2 .. Len(s)
    BY <2>0, <1>42, <1>5 DEF Lists
  <2>2. /\ Len(Swap(s, i)) = Len(s)
        /\ \A j \in 1 .. Len(s) : Swap(s, i)[j] = IF j = i - 1 THEN s[i]
                                                  ELSE IF j = i THEN s[i - 1] ELSE s[j]
    BY ONLY <2>1, SwapSeq
  <2>3. \A y : In(y, Swap(s, i)) <=> In(y, s)
    BY ONLY <2>1, SwapIn
  <2> QED BY ONLY <2>2, <2>3, <1>5, <1>40, <1>42
<1>6. PICK s2 : s2 = Swap(s, i)
  OBVIOUS
<1>7. \A y \in Nodes : In(y, s2) <=> Member(P, en, y, l)
  BY <1>3, <1>44, <1>6
<1>8. \E m \in 1 .. Len(s2) + 1 : \E a \in 1 .. m : Ahead(r2, en, rem2, l, s2, a, m)
  <2>11. PICK m \in 1 .. n + 1 : \E a \in 1 .. m : Ahead(r, en, rem, l, s, a, m)
    BY <1>1, <1>5 DEF ListOK
  <2>1. PICK a \in 1 .. m : Ahead(r, en, rem, l, s, a, m)
    BY <2>11
  <2>2. /\ m \in 1 .. n /\ s[m] = l
        /\ \A y \in Nodes : y \in r.due[l] <=> \E j \in a .. m - 1 : s[j] = y
        /\ a < m /\ rem[l] # 0 => m - a < rem[l]
        /\ rem[l] \in Nat
    BY <2>1, <1>5 DEF Ahead
  <2>3. m = i
    BY <2>2, <1>40, <1>41
  <2>4. r2.due[l] = r.due[l] \ {p}
    BY DEF Good, ListsType
  <2>5. \A j \in 1 .. n : s2[j] = IF j = i - 1 THEN l ELSE IF j = i THEN p ELSE s[j]
    BY <1>44, <1>6
  <2>6. Len(s2) = n /\ i - 1 \in 1 .. n + 1 /\ i - 1 <= n /\ s2[i - 1] = l
    BY <1>42, <1>44, <1>6, <2>5
  <2>7. CASE a = i
    <3>1. r2.due[l] = {}
      <4>1. \A y \in Nodes : y \notin r.due[l]
        BY <2>2, <2>3, <2>7
      <4>2. r.due[l] \subseteq Nodes
        BY DEF Good, ListsType, Nodes
      <4> QED BY <4>1, <4>2, <2>4
    <3>2. \A y \in Nodes : y \in r2.due[l] <=> \E j \in i - 1 .. (i - 1) - 1 : s2[j] = y
      BY <3>1
    <3>3. Ahead(r2, en, rem2, l, s2, i - 1, i - 1)
      BY ONLY <3>2, <2>6, i - 1 \in 1 .. n, <1>42, n \in Nat DEF Ahead
    <3>4. i - 1 \in 1 .. i - 1 /\ i - 1 \in 1 .. Len(s2) + 1
      BY <1>42, <2>6
    <3> QED BY ONLY <3>3, <3>4
  <2>8. CASE a # i
    <3>1. a \in 1 .. i - 1 /\ i - 1 \in 1 .. Len(s2) + 1 /\ a < m
      BY <2>3, <2>6, <2>8, <1>42
    <3>2. ASSUME NEW y
          PROVE  (\E j \in a .. (i - 1) - 1 : s2[j] = y)
                   <=> y # p /\ \E j \in a .. i - 1 : s[j] = y
      <4>1. ASSUME NEW j \in a .. (i - 1) - 1, s2[j] = y
            PROVE  y # p /\ \E k \in a .. i - 1 : s[k] = y
        <5>1. j \in 1 .. n /\ j # i - 1 /\ j # i /\ j \in a .. i - 1
          BY <3>1, <1>42
        <5>2. s[j] = y
          BY <5>1, <4>1, <2>5
        <5>4. s[j] # s[i - 1]
          BY ONLY <5>1, <1>41, <1>42
        <5>3. y # p
          BY <5>2, <5>4, <1>42
        <5> QED BY <5>1, <5>2, <5>3
      <4>2. ASSUME NEW j \in a .. i - 1, s[j] = y, y # p
            PROVE  \E k \in a .. (i - 1) - 1 : s2[k] = y
        <5>1. j # i - 1
          BY <4>2, <1>42
        <5>2. j \in 1 .. n /\ j # i /\ j \in a .. (i - 1) - 1
          BY <5>1, <3>1, <1>42
        <5> QED BY <5>1, <5>2, <4>2, <2>5
      <4> QED BY <4>1, <4>2
    <3>3. \A y \in Nodes : y \in r2.due[l] <=> \E j \in a .. (i - 1) - 1 : s2[j] = y
      BY ONLY <3>2, <2>2, <2>3, <2>4
    <3>4. a < i - 1 /\ rem2[l] # 0 => (i - 1) - a < rem2[l]
      <4>1. rem[l] # 0 => m - a < rem[l]
        BY <2>2, <3>1
      <4> QED BY <4>1, <2>2, <2>3, <1>42
    <3>5. Ahead(r2, en, rem2, l, s2, a, i - 1)
      BY ONLY <3>3, <3>4, <2>6, l \in en DEF Ahead
    <3> QED BY <3>1, <3>5
  <2> QED BY <2>7, <2>8
<1>9. \E t \in Lists(l) : ListOK(r2, P, en, rem2, l, t)
  BY <1>4, <1>6, <1>7, <1>8 DEF ListOK
<1>10. ASSUME NEW y \in Nodes, ~Member(P, en, y, l)
       PROVE  r2.next[y] = r.next[y] /\ r2.prev[y] = r.prev[y]
  <2>1. y # l /\ y # p /\ y # None /\ p \in Nodes /\ Member(P, en, p, l)
    BY <1>10, <1>2, <1>43 DEF Member, Nodes
  <2>2. y # r.prev[p] /\ y # r.next[l]
    BY <2>1, <1>0, <1>1, <1>2, <1>10, Neighbours
  <2> QED BY <2>1, <2>2 DEF IsSwap
<1>11. ASSUME NEW k \in Lrus \ {l}
       PROVE  /\ r2.heads[k] = r.heads[k] /\ r2.tails[k] = r.tails[k]
              /\ r2.sizes[k] = r.sizes[k] /\ r2.due[k] = r.due[k]
              /\ rem2[k] = rem[k] /\ (k \in en <=> k \in en)
              /\ \A y \in Items : P[y] = k <=> P[y] = k
              /\ \A y \in Nodes : Member(P, en, y, k) =>
                                     r2.next[y] = r.next[y] /\ r2.prev[y] = r.prev[y]
  <2>1. r2.heads[k] = r.heads[k] /\ r2.tails[k] = r.tails[k]
    BY DEF IsSwap, OthersKeep
  <2>2. r2.due[k] = r.due[k]
    BY DEF Good, ListsType
  <2>4. ASSUME NEW y \in Nodes, Member(P, en, y, k)
        PROVE  r2.next[y] = r.next[y] /\ r2.prev[y] = r.prev[y]
    BY <1>10, <2>4, MembersApart
  <2> QED BY <2>1, <2>2, <2>4
<1>12. ASSUME NEW y \in Items, P[y] = None PROVE r2.next[y] = None /\ r2.prev[y] = None
  <2>1. y \in Nodes
    BY DEF Nodes
  <2>2. ~Member(P, en, y, l)
    BY <1>12, <1>0 DEF Member
  <2>3. r.next[y] = None /\ r.prev[y] = None
    BY <1>12 DEF Good
  <2> QED BY <2>1, <2>2, <2>3, <1>10
<1>13. r2.sizes[l] = Cardinality(Placed(P, l))
  BY DEF Good
<1>14. Good(r, P, en, rem) /\ ListsType(r2) /\ l \in Lrus
  OBVIOUS
<1>15. Good(r2, P, en, rem2)
  BY ONLY <1>14, <1>9, <1>11, <1>12, <1>13, GoodFrom
<1> QED BY <1>15, <1>43

\* A sequence without repetitions has as many nodes as places.
LEMMA SeqCard ==
    ASSUME NEW S, NEW s \in Seq(S), Once(s), NEW T, \A y : y \in T <=> In(y, s)
    PROVE  IsFiniteSet(T) /\ Cardinality(T) = Len(s)
<1>0. PICK n \in Nat : n = Len(s)
  BY SeqFacts
<1>1. PICK f : f = [i \in 1 .. n |-> s[i]]
  OBVIOUS
<1>2. f \in [1 .. n -> T]
  <2>1. \A i \in 1 .. n : s[i] \in T
    BY <1>0 DEF In
  <2> QED BY <2>1, <1>1
<1>3. f \in Injection(1 .. n, T)
  BY <1>0, <1>1, <1>2 DEF Injection, IsInjective, Once
<1>4. f \in Surjection(1 .. n, T)
  <2>1. \A y \in T : \E i \in 1 .. n : f[i] = y
    BY <1>0, <1>1 DEF In
  <2> QED BY <2>1, <1>2 DEF Surjection
<1>5. ExistsBijection(1 .. n, T)
  BY <1>3, <1>4 DEF ExistsBijection, Bijection
<1>6. IsFiniteSet(1 .. n) /\ Cardinality(1 .. n) = n
  <2>1. Cardinality(1 .. n) = IF 1 > n THEN 0 ELSE n - 1 + 1
    BY FS_Interval
  <2> QED BY <2>1, FS_Interval
<1> QED BY <1>0, <1>5, <1>6, FS_Bijection

\* The list of an idle crawler is as long as it has items.
LEMMA ListLength ==
    ASSUME NEW r, NEW P, NEW en, NEW rem, NEW l \in Lrus, NEW s \in Lists(l),
           ListOK(r, P, en, rem, l, s)
    PROVE  /\ Cardinality(Placed(P, l) \cup (en \cap {l})) = Len(s)
           /\ l \notin en => Cardinality(Placed(P, l)) = Len(s)
<1>1. \A y : y \in Placed(P, l) \cup (en \cap {l}) <=> In(y, s)
  <2>1. ASSUME NEW y PROVE y \in Placed(P, l) \cup (en \cap {l}) <=> In(y, s)
    <3>1. In(y, s) => y \in Nodes
      BY ListSeq DEF In
    <3>2. y \in Placed(P, l) \cup (en \cap {l}) => y \in Nodes
      BY DEF Placed, Nodes
    <3>3. y \in Nodes => (In(y, s) <=> Member(P, en, y, l))
      BY DEF ListOK
    <3> QED BY <3>1, <3>2, <3>3 DEF Member, Placed
  <2> QED BY <2>1
<1>2. PICK S : S = Items \cup {l}
  OBVIOUS
<1>3. s \in Seq(S) /\ Once(s)
  BY <1>2 DEF Lists, ListOK, Chain
<1>4. PICK T : T = Placed(P, l) \cup (en \cap {l})
  OBVIOUS
<1>5. Cardinality(T) = Len(s)
  BY ONLY <1>1, <1>3, <1>4, SeqCard
<1>6. l \notin en => T = Placed(P, l)
  BY <1>4
<1> QED BY <1>4, <1>5, <1>6

\* A crawl begins: its marker goes to the tail, and has all the items of the
\* list before it, or it was not asked to see them all.
LEMMA GoodTail ==
    ASSUME NEW r, NEW P \in [Items -> Lrus \cup {None}], NEW en, NEW rem, NEW rem2, NEW r2,
           NEW l \in Lrus, l \notin en,
           Good(r, P, en, rem), ListsType(r2), IsTail(r, r2, l, l),
           \A k \in Lrus \ {l} : rem2[k] = rem[k] /\ r2.due[k] = r.due[k],
           rem2[l] \in Nat, r2.sizes = r.sizes,
           \/ r2.due[l] = {}
           \/ r2.due[l] = Placed(P, l) /\ (rem2[l] # 0 => rem2[l] > r.sizes[l])
    PROVE  Good(r2, P, en \cup {l}, rem2)
<1>0. None \notin Lrus /\ l \notin Items /\ l \in Nodes
  BY DEF Nodes
<1>1. PICK s \in Lists(l) : ListOK(r, P, en, rem, l, s)
  BY DEF Good
<1>2. ~Member(P, en, l, l)
  BY <1>0 DEF Member
<1>3. Chain(r, l, s) /\ ~In(l, s) /\ \A y \in Nodes : In(y, s) <=> Member(P, en, y, l)
  BY <1>0, <1>1, <1>2 DEF ListOK
<1>4. Tailed(s, l) \in Lists(l) /\ Chain(r2, l, Tailed(s, l))
  BY <1>3, TailChain
<1>5. PICK n \in Nat : n = Len(s)
  BY ListSeq
<1>6. PICK s2 : s2 = Tailed(s, l)
  OBVIOUS
<1>44. /\ Len(s2) = n + 1 /\ s2[n + 1] = l
       /\ \A j \in 1 .. n : s2[j] = s[j]
       /\ \A y : In(y, s2) <=> y = l \/ In(y, s)
  <2>0. PICK S : S = Items \cup {l}
    OBVIOUS
  <2>1. s \in Seq(S) /\ l \in S
    BY <2>0 DEF Lists
  <2>2. /\ Len(Tailed(s, l)) = Len(s) + 1 /\ Tailed(s, l)[Len(s) + 1] = l
        /\ \A j \in 1 .. Len(s) : Tailed(s, l)[j] = s[j]
    BY ONLY <2>1, TailedSeq
  <2>3. \A y : In(y, Tailed(s, l)) <=> y = l \/ In(y, s)
    BY ONLY <2>1, TailedIn
  <2> QED BY ONLY <2>2, <2>3, <1>5, <1>6
<1>7. \A y \in Nodes : In(y, s2) <=> Member(P, en \cup {l}, y, l)
  BY <1>0, <1>3, <1>44 DEF Member
<1>8. \E m \in 1 .. Len(s2) + 1 : \E a \in 1 .. m : Ahead(r2, en \cup {l}, rem2, l, s2, a, m)
  <2>1. n + 1 \in 1 .. Len(s2) + 1 /\ n + 1 <= Len(s2) /\ s2[n + 1] = l
    BY <1>44
  <2>2. CASE r2.due[l] = {}
    <3>1. \A y \in Nodes : y \in r2.due[l] <=> \E j \in n + 1 .. (n + 1) - 1 : s2[j] = y
      BY <2>2
    <3>2. Ahead(r2, en \cup {l}, rem2, l, s2, n + 1, n + 1)
      BY ONLY <2>1, <3>1, n \in Nat DEF Ahead
    <3>3. n + 1 \in 1 .. n + 1
      OBVIOUS
    <3> QED BY ONLY <2>1, <3>2, <3>3
  <2>3. CASE r2.due[l] = Placed(P, l) /\ (rem2[l] # 0 => rem2[l] > r.sizes[l])
    <3>1. ASSUME NEW y \in Nodes
          PROVE  y \in r2.due[l] <=> \E j \in 1 .. (n + 1) - 1 : s2[j] = y
      <4>1. (n + 1) - 1 = n
        OBVIOUS
      <4>2. In(y, s) <=> \E j \in 1 .. n : s2[j] = y
        BY <1>5, <1>44 DEF In
      <4>3. In(y, s) <=> y \in Placed(P, l)
        BY <1>3 DEF Member, Placed
      <4> QED BY <4>1, <4>2, <4>3, <2>3
    <3>2. r.sizes[l] = n
      BY <1>1, <1>5, ListLength DEF Good
    <3>3. 1 < n + 1 /\ rem2[l] # 0 => (n + 1) - 1 < rem2[l]
      BY <2>3, <3>2
    <3>4. Ahead(r2, en \cup {l}, rem2, l, s2, 1, n + 1)
      BY ONLY <2>1, <3>1, <3>3, l \in Lrus DEF Ahead
    <3>5. 1 \in 1 .. n + 1
      OBVIOUS
    <3> QED BY ONLY <2>1, <3>4, <3>5
  <2> QED BY <2>2, <2>3
<1>9. \E t \in Lists(l) : ListOK(r2, P, en \cup {l}, rem2, l, t)
  BY <1>4, <1>6, <1>7, <1>8 DEF ListOK
<1>10. ASSUME NEW y \in Nodes, y # l, ~Member(P, en, y, l)
       PROVE  r2.next[y] = r.next[y] /\ r2.prev[y] = r.prev[y]
  <2>1. y # None /\ y # r.tails[l]
    BY <1>10, <1>1, Neighbours
  <2> QED BY <2>1, <1>10 DEF IsTail
<1>11. ASSUME NEW k \in Lrus \ {l}
       PROVE  /\ r2.heads[k] = r.heads[k] /\ r2.tails[k] = r.tails[k]
              /\ r2.sizes[k] = r.sizes[k] /\ r2.due[k] = r.due[k]
              /\ rem2[k] = rem[k] /\ (k \in en \cup {l} <=> k \in en)
              /\ \A y \in Items : P[y] = k <=> P[y] = k
              /\ \A y \in Nodes : Member(P, en, y, k) =>
                                     r2.next[y] = r.next[y] /\ r2.prev[y] = r.prev[y]
  <2>1. r2.heads[k] = r.heads[k] /\ r2.tails[k] = r.tails[k]
    BY DEF IsTail, OthersKeep
  <2>4. ASSUME NEW y \in Nodes, Member(P, en, y, k)
        PROVE  r2.next[y] = r.next[y] /\ r2.prev[y] = r.prev[y]
    <3>1. y # l /\ ~Member(P, en, y, l)
      BY <2>4, <1>0, MembersApart DEF Member
    <3> QED BY <3>1, <1>10
  <2> QED BY <2>1, <2>4
<1>12. ASSUME NEW y \in Items, P[y] = None PROVE r2.next[y] = None /\ r2.prev[y] = None
  <2>1. y \in Nodes /\ y # l
    BY <1>0 DEF Nodes
  <2>2. ~Member(P, en, y, l)
    BY <1>12, <1>0 DEF Member
  <2>3. r.next[y] = None /\ r.prev[y] = None
    BY <1>12 DEF Good
  <2> QED BY <2>1, <2>2, <2>3, <1>10
<1>13. r2.sizes[l] = Cardinality(Placed(P, l))
  BY DEF Good
<1>14. Good(r, P, en, rem) /\ ListsType(r2) /\ l \in Lrus
  OBVIOUS
<1> QED BY ONLY <1>14, <1>9, <1>11, <1>12, <1>13, GoodFrom

-----------------------------------------------------------------------------
(* The operations of the model on the lists.                               *)

IsPlaces(P) == P \in [Items -> Lrus \cup {None}]

\* The fields of the lists after the pointers were written.
Linked3(r, x, l, h) ==
    [heads |-> [r.heads EXCEPT ![l] = x],
     tails |-> [r.tails EXCEPT ![l] = IF r.tails[l] = None THEN x ELSE r.tails[l]],
     next |-> [r.next EXCEPT ![x] = h],
     prev |-> At([r.prev EXCEPT ![x] = None], h, x),
     sizes |-> [r.sizes EXCEPT ![l] = r.sizes[l] + 1], due |-> r.due]

LEMMA Linked3Good ==
    ASSUME NEW r, NEW P, IsPlaces(P), NEW en, NEW rem, NEW l \in Lrus, NEW x \in Items,
           Good(r, P, en, rem), P[x] = None
    PROVE  Good(Linked3(r, x, l, r.heads[l]), [P EXCEPT ![x] = l], en, rem)
<1> DEFINE r2 == Linked3(r, x, l, r.heads[l])
<1>1. ListsType(r) /\ x \in Nodes
  BY DEF Good, Nodes
<1>2. r.heads[l] # x
  <2>1. ~Member(P, en, x, l)
    BY DEF Member
  <2>2. PICK s \in Lists(l) : ListOK(r, P, en, rem, l, s)
    BY DEF Good
  <2> QED BY <2>1, <2>2, <1>1, Neighbours
<1>3. r.heads[l] \in Nodes \cup {None} /\ [r.prev EXCEPT ![x] = None] \in [Nodes -> Nodes \cup {None}]
  BY <1>1 DEF ListsType
<1>4. /\ r2.prev \in [Nodes -> Nodes \cup {None}]
      /\ \A y \in Nodes : r2.prev[y] = IF y = r.heads[l] THEN x ELSE [r.prev EXCEPT ![x] = None][y]
  <2>1. r2.prev = At([r.prev EXCEPT ![x] = None], r.heads[l], x) /\ x \in Nodes \cup {None}
    BY <1>1 DEF Linked3
  <2> HIDE DEF r2
  <2>2. PICK N : N = Nodes \cup {None}
    OBVIOUS
  <2>3. [r.prev EXCEPT ![x] = None] \in [Nodes -> N] /\ x \in N
        /\ (r.heads[l] = None \/ r.heads[l] \in Nodes)
    BY <1>1, <1>3, <2>2
  <2>4. /\ r2.prev \in [Nodes -> N]
        /\ \A y \in Nodes : r2.prev[y] = IF y = r.heads[l] THEN x ELSE [r.prev EXCEPT ![x] = None][y]
    BY ONLY <2>1, <2>3, Constants DEF At
  <2> QED BY <2>2, <2>4
<1>5. ListsType(r2)
  BY <1>1, <1>3, <1>4 DEF ListsType, Linked3
<1>6. IsPush(r, r2, x, l)
  <2>1. \A y \in Nodes : r2.prev[y] = IF y = x THEN None
                                      ELSE IF y = r.heads[l] THEN x ELSE r.prev[y]
    BY <1>1, <1>2, <1>4 DEF ListsType
  <2>2. \A y \in Nodes : r2.next[y] = IF y = x THEN r.heads[l] ELSE r.next[y]
    BY <1>1 DEF ListsType, Linked3
  <2>3. /\ r2.heads[l] = x /\ r2.tails[l] = IF r.tails[l] = None THEN x ELSE r.tails[l]
        /\ \A k \in Lrus \ {l} : r2.heads[k] = r.heads[k] /\ r2.tails[k] = r.tails[k]
    BY <1>1 DEF ListsType, Linked3
  <2> QED BY <2>1, <2>2, <2>3 DEF IsPush, OthersKeep
<1>7. r2.sizes = [r.sizes EXCEPT ![l] = @ + 1] /\ r2.due = r.due
  BY DEF Linked3
<1> HIDE DEF r2
<1>8. Good(r2, [P EXCEPT ![x] = l], en, rem)
  BY <1>5, <1>6, <1>7, GoodPush DEF IsPlaces
<1> QED BY <1>8 DEF r2

LEMMA LinkGood ==
    ASSUME NEW P, IsPlaces(P), NEW en, NEW rem, NEW l \in Lrus, NEW x \in Items,
           Good(q, P, en, rem), P[x] = None
    PROVE  Good(do_item_link_q(x, l), [P EXCEPT ![x] = l], en, rem)
<1>1. do_item_link_q(x, l) = Linked3(q, x, l, q.heads[l])
  <2>1. q = [heads |-> q.heads, tails |-> q.tails, next |-> q.next, prev |-> q.prev,
             sizes |-> q.sizes, due |-> q.due]
    BY DEF Good, ListsType
  <2>2. PICK h : h = q.heads[l]
    OBVIOUS
  <2>3. PICK np : np = At([q.prev EXCEPT ![x] = None], h, x)
    OBVIOUS
  <2>4. do_item_link_q(x, l) = [q EXCEPT !.prev = np, !.next[x] = h, !.heads[l] = x,
                                         !.tails[l] = IF @ = None THEN x ELSE @,
                                         !.sizes[l] = @ + 1]
    BY <2>2, <2>3 DEF do_item_link_q
  <2>5. Linked3(q, x, l, q.heads[l]) =
          [heads |-> [q.heads EXCEPT ![l] = x],
           tails |-> [q.tails EXCEPT ![l] = IF q.tails[l] = None THEN x ELSE q.tails[l]],
           next |-> [q.next EXCEPT ![x] = h], prev |-> np,
           sizes |-> [q.sizes EXCEPT ![l] = q.sizes[l] + 1], due |-> q.due]
    BY <2>2, <2>3 DEF Linked3
  <2> QED BY ONLY <2>1, <2>4, <2>5
<1> QED BY <1>1, Linked3Good

\* The fields after a node was cut out.
LEMMA DetachFields ==
    ASSUME NEW r, ListsType(r), NEW l \in Lrus, NEW x \in Nodes
    PROVE  /\ ListsType(Detach(r, x, l)) /\ IsCut(r, Detach(r, x, l), x, l)
           /\ Detach(r, x, l).sizes = r.sizes
           /\ Detach(r, x, l).due = [r.due EXCEPT ![l] = @ \ {x}]
<1> DEFINE n == r.next[x]
           p == r.prev[x]
<1>0. n = r.next[x] /\ p = r.prev[x]
  OBVIOUS
<1> HIDE DEF n, p
<1>1. n \in Nodes \cup {None} /\ p \in Nodes \cup {None}
  BY <1>0 DEF ListsType
<1>2. PICK np, nn : np = At(r.prev, n, p) /\ nn = At(r.next, p, n)
  OBVIOUS
<1>3. /\ np \in [Nodes -> Nodes \cup {None}]
      /\ \A y \in Nodes : np[y] = IF y = n THEN p ELSE r.prev[y]
  <2>0. PICK N : N = Nodes \cup {None}
    OBVIOUS
  <2>1. r.prev \in [Nodes -> N] /\ (n = None \/ n \in Nodes) /\ p \in N
    BY <2>0, <1>1 DEF ListsType
  <2>2. /\ np \in [Nodes -> N]
        /\ \A y \in Nodes : np[y] = IF y = n THEN p ELSE r.prev[y]
    BY ONLY <1>2, <2>1, Constants DEF At
  <2> QED BY <2>0, <2>2
<1>4. /\ nn \in [Nodes -> Nodes \cup {None}]
      /\ \A y \in Nodes : nn[y] = IF y = p THEN n ELSE r.next[y]
  <2>0. PICK N : N = Nodes \cup {None}
    OBVIOUS
  <2>1. r.next \in [Nodes -> N] /\ (p = None \/ p \in Nodes) /\ n \in N
    BY <2>0, <1>1 DEF ListsType
  <2>2. /\ nn \in [Nodes -> N]
        /\ \A y \in Nodes : nn[y] = IF y = p THEN n ELSE r.next[y]
    BY ONLY <1>2, <2>1, Constants DEF At
  <2> QED BY <2>0, <2>2
<1>5. Detach(r, x, l) = [heads |-> [r.heads EXCEPT ![l] = IF @ = x THEN n ELSE @],
                         tails |-> [r.tails EXCEPT ![l] = IF @ = x THEN p ELSE @],
                         next |-> [nn EXCEPT ![x] = None], prev |-> [np EXCEPT ![x] = None],
                         sizes |-> r.sizes, due |-> [r.due EXCEPT ![l] = @ \ {x}]]
  <2>1. r = [heads |-> r.heads, tails |-> r.tails, next |-> r.next, prev |-> r.prev,
             sizes |-> r.sizes, due |-> r.due]
    BY DEF ListsType
  <2>2. Detach(r, x, l) = [r EXCEPT !.heads[l] = IF @ = x THEN n ELSE @,
                                    !.tails[l] = IF @ = x THEN p ELSE @,
                                    !.prev = [np EXCEPT ![x] = None],
                                    !.next = [nn EXCEPT ![x] = None],
                                    !.due[l] = @ \ {x}]
    BY <1>0, <1>2 DEF Detach
  <2> QED BY ONLY <2>1, <2>2
<1>6. ListsType(Detach(r, x, l))
  BY <1>1, <1>3, <1>4, <1>5 DEF ListsType
<1>7. IsCut(r, Detach(r, x, l), x, l)
  <2> QED BY <1>0, <1>1, <1>3, <1>4, <1>5 DEF ListsType, IsCut, OthersKeep
<1> QED BY <1>5, <1>6, <1>7

LEMMA DetachGood ==
    ASSUME NEW r, NEW P, IsPlaces(P), NEW en, NEW rem \in [Lrus -> Nat], NEW l \in Lrus,
           NEW x \in Items, Good(r, P, en, rem), P[x] = l
    PROVE  Good([Detach(r, x, l) EXCEPT !.sizes[l] = @ - 1], [P EXCEPT ![x] = None], en, rem)
<1>1. ListsType(r) /\ x \in Nodes
  BY DEF Good, Nodes
<1>2. PICK d : d = Detach(r, x, l)
  OBVIOUS
<1>3. /\ ListsType(d) /\ IsCut(r, d, x, l) /\ d.sizes = r.sizes
      /\ d.due = [r.due EXCEPT ![l] = @ \ {x}]
  BY <1>1, <1>2, DetachFields
<1>4. PICK r2 : r2 = [d EXCEPT !.sizes[l] = @ - 1]
  OBVIOUS
<1>5. r2 = [heads |-> d.heads, tails |-> d.tails, next |-> d.next, prev |-> d.prev,
            sizes |-> [d.sizes EXCEPT ![l] = @ - 1], due |-> d.due]
  BY <1>3, <1>4 DEF ListsType
<1>6. ListsType(r2)
  BY <1>3, <1>5 DEF ListsType
<1>7. IsCut(r, r2, x, l)
  BY <1>3, <1>5 DEF IsCut, OthersKeep
<1>8. r2.sizes = [r.sizes EXCEPT ![l] = @ - 1] /\ r2.due = [r.due EXCEPT ![l] = @ \ {x}]
  BY <1>3, <1>5
<1>9. Good(r2, [P EXCEPT ![x] = None], en, rem)
  BY <1>6, <1>7, <1>8, GoodCut DEF IsPlaces
<1> QED BY <1>2, <1>4, <1>9

LEMMA UnlinkGood ==
    ASSUME NEW P, IsPlaces(P), NEW en, NEW rem \in [Lrus -> Nat], NEW l \in Lrus,
           NEW x \in Items, Good(q, P, en, rem), P[x] = l
    PROVE  Good(do_item_unlink_q(x, l), [P EXCEPT ![x] = None], en, rem)
BY DetachGood DEF do_item_unlink_q

LEMMA UpdateGood ==
    ASSUME NEW P, IsPlaces(P), NEW en, NEW rem \in [Lrus -> Nat], NEW l \in Lrus,
           NEW x \in Items, Good(q, P, en, rem), P[x] = l
    PROVE  Good(do_item_update_nolock(x, l), P, en, rem)
<1>1. PICK r : r = do_item_unlink_q(x, l)
  OBVIOUS
<1>2. PICK P2 : P2 = [P EXCEPT ![x] = None]
  OBVIOUS
<1>3. Good(r, P2, en, rem) /\ P2[x] = None /\ IsPlaces(P2) /\ [P2 EXCEPT ![x] = l] = P
  BY <1>1, <1>2, UnlinkGood DEF IsPlaces
<1>4. Good(Linked3(r, x, l, r.heads[l]), P, en, rem)
  <2>1. Good(Linked3(r, x, l, r.heads[l]), [P2 EXCEPT ![x] = l], en, rem)
    BY <1>3, Linked3Good
  <2> QED BY <2>1, <1>3
<1>5. r.prev[x] = None /\ ListsType(r) /\ x \in Nodes
  BY <1>3 DEF Good, Nodes
<1>6. do_item_update_nolock(x, l) = Linked3(r, x, l, r.heads[l])
  <2>1. [r.prev EXCEPT ![x] = None] = r.prev
    BY <1>5 DEF ListsType
  <2>2. PICK h : h = r.heads[l]
    OBVIOUS
  <2>3. PICK np : np = At(r.prev, h, x)
    OBVIOUS
  <2>4. do_item_update_nolock(x, l) =
          [r EXCEPT !.prev = np, !.next[x] = h, !.heads[l] = x,
                    !.tails[l] = IF @ = None THEN x ELSE @, !.sizes[l] = @ + 1]
    BY <1>1, <2>2, <2>3 DEF do_item_update_nolock
  <2>5. Linked3(r, x, l, r.heads[l]) =
          [heads |-> [r.heads EXCEPT ![l] = x],
           tails |-> [r.tails EXCEPT ![l] = IF r.tails[l] = None THEN x ELSE r.tails[l]],
           next |-> [r.next EXCEPT ![x] = h], prev |-> np,
           sizes |-> [r.sizes EXCEPT ![l] = r.sizes[l] + 1], due |-> r.due]
    BY <2>1, <2>2, <2>3 DEF Linked3
  <2>6. r = [heads |-> r.heads, tails |-> r.tails, next |-> r.next, prev |-> r.prev,
             sizes |-> r.sizes, due |-> r.due]
    BY <1>5 DEF ListsType
  <2> QED BY ONLY <2>4, <2>5, <2>6
<1> QED BY <1>4, <1>6

Met(s, l, x) == [s EXCEPT !.due[l] = @ \ {x}]

\* The marker meets the node before it.
LEMMA CrawlFields ==
    ASSUME NEW l \in Lrus, ListsType(q), NEW p \in Nodes, p = q.prev[l],
           NEW r, r = do_item_crawl_q(l), NEW s, s = r.q,
           NEW r2, r2 = Met(s, l, p)
    PROVE  /\ r.found = p /\ s.due = q.due /\ ListsType(r2) /\ IsSwap(q, r2, l, p, l)
           /\ r2.sizes = q.sizes /\ r2.due = [q.due EXCEPT ![l] = @ \ {p}]
           /\ r2.due = q.due => r2 = s
<1>1. PICK n, pp : n = q.next[l] /\ pp = q.prev[p]
  OBVIOUS
<1>2. /\ n \in Nodes \cup {None} /\ pp \in Nodes \cup {None} /\ l \in Nodes /\ p # None
      /\ q.next \in [Nodes -> Nodes \cup {None}] /\ q.prev \in [Nodes -> Nodes \cup {None}]
  BY <1>1 DEF ListsType, Nodes
<1>3. PICK nn : nn = At([q.next EXCEPT ![p] = n, ![l] = p], pp, l)
  OBVIOUS
<1>4. PICK np : np = [At(q.prev, n, p) EXCEPT ![l] = pp, ![p] = l]
  OBVIOUS
<1>5. /\ nn \in [Nodes -> Nodes \cup {None}]
      /\ \A y \in Nodes : nn[y] = IF y = pp THEN l ELSE IF y = l THEN p
                                  ELSE IF y = p THEN n ELSE q.next[y]
  BY ONLY <1>2, <1>3, Constants DEF At
<1>6. /\ np \in [Nodes -> Nodes \cup {None}]
      /\ \A y \in Nodes : np[y] = IF y = p THEN l ELSE IF y = l THEN pp
                                  ELSE IF y = n THEN p ELSE q.prev[y]
  BY ONLY <1>2, <1>4, Constants DEF At
<1>7. do_item_crawl_q(l) = [found |-> p,
                            q |-> [q EXCEPT !.heads[l] = IF @ = p THEN l ELSE @,
                                            !.tails[l] = IF @ = l THEN p ELSE @,
                                            !.next = nn, !.prev = np]]
  BY <1>1, <1>2, <1>3, <1>4 DEF do_item_crawl_q
<1>8. s = [heads |-> [q.heads EXCEPT ![l] = IF @ = p THEN l ELSE @],
           tails |-> [q.tails EXCEPT ![l] = IF @ = l THEN p ELSE @],
           next |-> nn, prev |-> np, sizes |-> q.sizes, due |-> q.due]
  <2>1. q = [heads |-> q.heads, tails |-> q.tails, next |-> q.next, prev |-> q.prev,
             sizes |-> q.sizes, due |-> q.due]
    BY DEF ListsType
  <2>2. s = [q EXCEPT !.heads[l] = IF @ = p THEN l ELSE @,
                      !.tails[l] = IF @ = l THEN p ELSE @, !.next = nn, !.prev = np]
    BY <1>7
  <2> QED BY ONLY <2>1, <2>2
<1>9. r2 = [s EXCEPT !.due[l] = @ \ {p}]
  BY DEF Met
<1>10. r2 = [heads |-> [q.heads EXCEPT ![l] = IF @ = p THEN l ELSE @],
             tails |-> [q.tails EXCEPT ![l] = IF @ = l THEN p ELSE @],
             next |-> nn, prev |-> np, sizes |-> q.sizes, due |-> [q.due EXCEPT ![l] = @ \ {p}]]
  BY ONLY <1>8, <1>9
<1>11. ListsType(r2)
  BY <1>2, <1>5, <1>6, <1>10 DEF ListsType
<1>12. IsSwap(q, r2, l, p, l)
  BY <1>1, <1>2, <1>5, <1>6, <1>10 DEF IsSwap, OthersKeep, ListsType
<1>13. r2.due = q.due => r2 = s
  BY ONLY <1>8, <1>10
<1>15. r2.due = [q.due EXCEPT ![l] = @ \ {p}]
  BY ONLY <1>10
<1>14. r.found = p /\ s.due = q.due /\ r2.sizes = q.sizes
       /\ r2.due = [q.due EXCEPT ![l] = @ \ {p}]
  BY <1>7, <1>8, <1>10, <1>15
<1> QED BY <1>9, <1>11, <1>12, <1>13, <1>14

LEMMA FoundNone ==
    ASSUME NEW l
    PROVE  do_item_crawl_q(l).found = q.prev[l]
BY DEF do_item_crawl_q

\* One node less to look at, where there is a limit.
Down(rem, l) == [rem EXCEPT ![l] = IF @ = 0 THEN 0 ELSE @ - 1]

LEMMA CrawlGood ==
    ASSUME NEW P, IsPlaces(P), NEW en, NEW rem \in [Lrus -> Nat], NEW l \in en, l \in Lrus,
           Good(q, P, en, rem), NEW r, r = do_item_crawl_q(l), NEW x, x = r.found, x # None
    PROVE  x \in Items /\ P[x] = l /\ Good(Met(r.q, l, x), P, en, Down(rem, l))
<1>1. ListsType(q) /\ l \in Nodes
  BY DEF Good, Nodes
<1>2. x = q.prev[l] /\ x \in Nodes
  BY <1>1, FoundNone DEF ListsType
<1>5. PICK s : s = r.q
  OBVIOUS
<1>6. PICK r2 : r2 = Met(s, l, x)
  OBVIOUS
<1>7. /\ s.due = q.due /\ ListsType(r2) /\ IsSwap(q, r2, l, x, l) /\ r2.sizes = q.sizes
      /\ r2.due = [q.due EXCEPT ![l] = @ \ {x}]
  <2>1. /\ l \in Lrus /\ ListsType(q) /\ x \in Nodes /\ x = q.prev[l] /\ r = do_item_crawl_q(l)
        /\ s = r.q /\ r2 = Met(s, l, x)
    BY <1>1, <1>2, <1>5, <1>6
  <2> QED BY ONLY <2>1, CrawlFields
<1>8. r2 = [s EXCEPT !.due[l] = @ \ {x}]
  BY <1>6 DEF Met
<1>9. PICK rem2 : rem2 = Down(rem, l)
  OBVIOUS
<1>10. /\ \A k \in Lrus \ {l} : rem2[k] = rem[k]
       /\ rem2[l] = IF rem[l] = 0 THEN 0 ELSE rem[l] - 1
  BY <1>9 DEF Down
<1>11. Good(r2, P, en, rem2) /\ x \in Items /\ P[x] = l
  <2>1. /\ P \in [Items -> Lrus \cup {None}] /\ l \in Lrus /\ l \in en /\ x # None
        /\ x = q.prev[l] /\ Good(q, P, en, rem) /\ rem \in [Lrus -> Nat]
        /\ r2.due = [q.due EXCEPT ![l] = @ \ {x}] /\ r2.sizes = q.sizes
    BY <1>2, <1>7, <1>8 DEF IsPlaces
  <2> QED BY ONLY <2>1, <1>7, <1>10, GoodSwap
<1> QED BY <1>5, <1>6, <1>9, <1>11

\* What is due when the marker is at the head, or may look at no node more.
LEMMA NothingDue ==
    ASSUME NEW r, NEW P, NEW en, NEW rem, NEW l \in Lrus, Good(r, P, en, rem),
           \/ l \notin en
           \/ r.prev[l] = None
           \/ rem[l] = 1
    PROVE  r.due[l] = {}
<1>1. PICK s \in Lists(l) : ListOK(r, P, en, rem, l, s)
  BY DEF Good
<1>2. PICK n \in Nat : n = Len(s)
  BY ListSeq
<1>3. PICK m \in 1 .. n + 1 : \E a \in 1 .. m : Ahead(r, en, rem, l, s, a, m)
  BY <1>1, <1>2 DEF ListOK
<1>4. PICK a \in 1 .. m : Ahead(r, en, rem, l, s, a, m)
  BY <1>3
<1>5. a = m
  <2>1. CASE l \notin en
    BY <2>1, <1>4 DEF Ahead
  <2>2. CASE l \in en /\ r.prev[l] = None
    <3>1. m \in 1 .. n /\ s[m] = l
      BY <2>2, <1>2, <1>4 DEF Ahead
    <3>2. r.prev[l] = IF m = 1 THEN None ELSE s[m - 1]
      BY <3>1, <1>1, <1>2 DEF ListOK, Chain
    <3>3. m # 1 => m - 1 \in 1 .. n
      BY <3>1
    <3>4. m = 1
      BY <2>2, <3>2, <3>3, <1>2, ListSeq
    <3> QED BY <3>4
  <2>3. CASE rem[l] = 1
    <3>1. a < m => m - a < 1
      BY <2>3, <1>4 DEF Ahead
    <3> QED BY <3>1
  <2> QED BY <2>1, <2>2, <2>3
<1>6. \A y \in Nodes : y \notin r.due[l]
  BY <1>4, <1>5 DEF Ahead
<1>7. r.due[l] \subseteq Nodes
  BY DEF Good, ListsType, Nodes
<1> QED BY <1>6, <1>7

\* The crawl of a list ends.
LEMMA DoneGood ==
    ASSUME NEW P, IsPlaces(P), NEW en, NEW rem \in [Lrus -> Nat], NEW l \in en, l \in Lrus,
           Good(q, P, en, rem), NEW r, r = do_item_crawl_q(l),
           r.found = None \/ rem[l] = 1
    PROVE  /\ q.due[l] = {}
           /\ Good(Detach(r.q, l, l), P, en \ {l}, [rem EXCEPT ![l] = 0])
<1>1. ListsType(q) /\ l \in Nodes /\ l \notin Items /\ l # None
  BY DEF Good, Nodes
<1>2. r.found = q.prev[l]
  BY FoundNone
<1>3. q.due[l] = {}
  BY <1>2, NothingDue
<1>4. PICK rem2 : rem2 = [rem EXCEPT ![l] = 0]
  OBVIOUS
<1>5. \A k \in Lrus \ {l} : rem2[k] = rem[k]
  BY <1>4
<1>6. PICK d : d = Detach(r.q, l, l)
  OBVIOUS
<1>7. CASE r.found = None
  <2>1. ListsType(Detach(q, l, l)) /\ IsCut(q, Detach(q, l, l), l, l)
        /\ Detach(q, l, l).sizes = q.sizes /\ Detach(q, l, l).due = [q.due EXCEPT ![l] = @ \ {l}]
    BY <1>1, DetachFields
  <2>2. Detach(q, l, l).due = q.due
    BY <2>1, <1>1, <1>3 DEF ListsType
  <2>3. Good(Detach(q, l, l), P, en \ {l}, rem2)
    BY <2>1, <2>2, <1>3, <1>5, GoodOut DEF IsPlaces
  <2>4. d = Detach(q, l, l)
    <3>1. CASE q.next[l] = None
      <4>1. r.q = q
        BY <3>1, <1>2, <1>7 DEF do_item_crawl_q
      <4> QED BY <4>1, <1>6
    <3>2. CASE q.next[l] # None
      <4>1. PICK n : n = q.next[l]
        OBVIOUS
      <4>2. PICK s \in Lists(l) : ListOK(q, P, en, rem, l, s)
        BY DEF Good
      <4>3. n \in Nodes /\ n # None /\ n # l /\ q.heads[l] = l /\ q.prev[l] = None
            /\ q.prev[n] = l /\ q.next[n] # n
        <5>1. Member(P, en, l, l)
          BY DEF Member
        <5>2. n # None /\ n \in Nodes /\ q.prev[l] = None
          BY <3>2, <4>1, <1>1, <1>2, <1>7 DEF ListsType
        <5>3. q.heads[l] = l /\ q.prev[n] = l /\ Member(P, en, n, l)
          BY <4>1, <4>2, <5>1, <5>2, <1>1, Neighbours
        <5>4. n # l
          BY <5>2, <5>3, <1>1
        <5>5. q.next[n] # n
          BY <4>2, <5>2, <5>3, <5>4, <1>1, Neighbours
        <5> QED BY <5>2, <5>3, <5>4, <5>5
      <4>4. q = [heads |-> q.heads, tails |-> q.tails, next |-> q.next, prev |-> q.prev,
                 sizes |-> q.sizes, due |-> q.due]
        BY <1>1 DEF ListsType
      <4>5. r.q = [q EXCEPT !.heads[l] = n, !.prev[n] = None]
        BY <1>2, <1>7, <4>1, <3>2 DEF do_item_crawl_q
      <4>6. r.q = [heads |-> [q.heads EXCEPT ![l] = n], tails |-> q.tails, next |-> q.next,
                   prev |-> [q.prev EXCEPT ![n] = None], sizes |-> q.sizes, due |-> q.due]
        BY ONLY <4>4, <4>5
      <4>7. PICK u : u = r.q
        OBVIOUS
      <4>8. /\ u.heads = [q.heads EXCEPT ![l] = n] /\ u.tails = q.tails /\ u.next = q.next
            /\ u.prev = [q.prev EXCEPT ![n] = None] /\ u.sizes = q.sizes /\ u.due = q.due
            /\ u.next[l] = n /\ u.prev[l] = None
            /\ u = [heads |-> u.heads, tails |-> u.tails, next |-> u.next, prev |-> u.prev,
                    sizes |-> u.sizes, due |-> u.due]
        BY <4>1, <4>3, <4>6, <4>7, <1>1 DEF ListsType
      <4>9. At(u.next, None, n) = u.next /\ At(q.next, None, n) = q.next
        BY DEF At
      <4>10. At(u.prev, n, None) = At(q.prev, n, None)
        BY <4>3, <4>8, <1>1 DEF At, ListsType
      <4>11. d = [u EXCEPT !.heads[l] = IF @ = l THEN n ELSE @,
                           !.tails[l] = IF @ = l THEN None ELSE @,
                           !.prev = [At(@, n, None) EXCEPT ![l] = None],
                           !.next = [At(@, None, n) EXCEPT ![l] = None],
                           !.due[l] = @ \ {l}]
        BY <1>6, <4>7, <4>8 DEF Detach
      <4>12. Detach(q, l, l) = [q EXCEPT !.heads[l] = IF @ = l THEN n ELSE @,
                           !.tails[l] = IF @ = l THEN None ELSE @,
                           !.prev = [At(@, n, None) EXCEPT ![l] = None],
                           !.next = [At(@, None, n) EXCEPT ![l] = None],
                           !.due[l] = @ \ {l}]
        BY <4>1, <4>3 DEF Detach
      <4>13. PICK np : np = [At(q.prev, n, None) EXCEPT ![l] = None]
        OBVIOUS
      <4>14. d = [heads |-> [u.heads EXCEPT ![l] = IF @ = l THEN n ELSE @],
                  tails |-> [q.tails EXCEPT ![l] = IF @ = l THEN None ELSE @],
                  prev |-> np, next |-> [q.next EXCEPT ![l] = None],
                  sizes |-> q.sizes, due |-> [q.due EXCEPT ![l] = @ \ {l}]]
        BY ONLY <4>8, <4>9, <4>10, <4>11, <4>13
      <4>15. Detach(q, l, l) = [heads |-> [q.heads EXCEPT ![l] = IF @ = l THEN n ELSE @],
                  tails |-> [q.tails EXCEPT ![l] = IF @ = l THEN None ELSE @],
                  prev |-> np, next |-> [q.next EXCEPT ![l] = None],
                  sizes |-> q.sizes, due |-> [q.due EXCEPT ![l] = @ \ {l}]]
        BY ONLY <4>4, <4>9, <4>12, <4>13
      <4>16. [u.heads EXCEPT ![l] = IF @ = l THEN n ELSE @]
               = [q.heads EXCEPT ![l] = IF @ = l THEN n ELSE @]
        BY <4>3, <4>8, <1>1 DEF ListsType
      <4> QED BY ONLY <4>14, <4>15, <4>16
    <3> QED BY <3>1, <3>2
  <2> QED BY <2>3, <2>4, <1>3, <1>4, <1>6
<1>8. CASE r.found # None
  <2>1. PICK x, s : x = r.found /\ s = r.q
    OBVIOUS
  <2>2. x \in Nodes /\ x = q.prev[l] /\ x # None
    BY <2>1, <1>1, <1>2, <1>8 DEF ListsType
  <2>5. /\ ListsType(s) /\ IsSwap(q, s, l, x, l) /\ s.sizes = q.sizes /\ s.due = q.due
    <3>1. PICK r2 : r2 = Met(s, l, x)
      OBVIOUS
    <3>2. /\ l \in Lrus /\ ListsType(q) /\ x \in Nodes /\ x = q.prev[l] /\ r = do_item_crawl_q(l)
          /\ s = r.q /\ q.due[l] = {}
      BY <1>1, <1>3, <2>1, <2>2
    <3>3. /\ s.due = q.due /\ ListsType(r2) /\ IsSwap(q, r2, l, x, l) /\ r2.sizes = q.sizes
          /\ r2.due = [q.due EXCEPT ![l] = @ \ {x}] /\ (r2.due = q.due => r2 = s)
      BY ONLY <3>1, <3>2, CrawlFields
    <3>4. r2.due = q.due
      BY <3>3, <1>1, <1>3 DEF ListsType
    <3> QED BY <3>3, <3>4
  <2>6. s.due = [q.due EXCEPT ![l] = @ \ {x}]
    BY <2>5, <1>1, <1>3 DEF ListsType
  <2>7. rem[l] = 1 /\ rem2[l] = IF rem[l] = 0 THEN 0 ELSE rem[l] - 1
    BY <1>4, <1>8
  <2>8. Good(s, P, en, rem2)
    BY <2>2, <2>5, <2>6, <2>7, <1>5, GoodSwap DEF IsPlaces
  <2>9. ListsType(d) /\ IsCut(s, d, l, l) /\ d.sizes = s.sizes /\ d.due = [s.due EXCEPT ![l] = @ \ {l}]
    BY <2>1, <2>5, <1>1, <1>6, DetachFields
  <2>10. d.due = s.due /\ s.due[l] = {}
    BY <2>5, <2>9, <1>1, <1>3 DEF ListsType
  <2>11. Good(d, P, en \ {l}, rem2)
    BY <2>8, <2>9, <2>10, GoodOut DEF IsPlaces
  <2> QED BY <2>11, <1>3, <1>4, <1>6
<1> QED BY <1>7, <1>8

\* A crawl begins in list l, for n nodes or, when n is 0, all.
LEMMA StartGood ==
    ASSUME NEW P, IsPlaces(P), NEW en, NEW rem \in [Lrus -> Nat], NEW l \in Lrus, l \notin en,
           Good(q, P, en, rem), NEW n \in Nat, NEW D,
           D = IF n = 0 \/ n >= q.sizes[l] THEN Placed(P, l) ELSE {}
    PROVE  Good([do_item_linktail_q(l) EXCEPT !.due[l] = D], P, en \cup {l},
                [rem EXCEPT ![l] = CrawlLimit(n)])
<1>1. ListsType(q) /\ l \in Nodes
  BY DEF Good, Nodes
<1>2. PICK t : t = q.tails[l]
  OBVIOUS
<1>3. /\ t \in Nodes \cup {None} /\ q.next \in [Nodes -> Nodes \cup {None}]
      /\ q.prev \in [Nodes -> Nodes \cup {None}] /\ t # l
  <2>1. ~Member(P, en, l, l)
    BY DEF Member
  <2>2. PICK s \in Lists(l) : ListOK(q, P, en, rem, l, s)
    BY DEF Good
  <2> QED BY <2>1, <2>2, <1>1, <1>2, Neighbours DEF ListsType
<1>4. PICK nn : nn = At([q.next EXCEPT ![l] = None], t, l)
  OBVIOUS
<1>5. /\ nn \in [Nodes -> Nodes \cup {None}]
      /\ \A y \in Nodes : nn[y] = IF y = l THEN None ELSE IF y = t THEN l ELSE q.next[y]
  BY ONLY <1>1, <1>3, <1>4, Constants DEF At
<1>6. PICK d, r2 : d = do_item_linktail_q(l) /\ r2 = [d EXCEPT !.due[l] = D]
  OBVIOUS
<1>7. d = [heads |-> [q.heads EXCEPT ![l] = IF @ = None THEN l ELSE @],
           tails |-> [q.tails EXCEPT ![l] = l], next |-> nn, prev |-> [q.prev EXCEPT ![l] = t],
           sizes |-> q.sizes, due |-> q.due]
  <2>1. q = [heads |-> q.heads, tails |-> q.tails, next |-> q.next, prev |-> q.prev,
             sizes |-> q.sizes, due |-> q.due]
    BY <1>1 DEF ListsType
  <2>2. d = [q EXCEPT !.next = nn, !.prev[l] = t, !.tails[l] = l,
                      !.heads[l] = IF @ = None THEN l ELSE @]
    BY <1>2, <1>4, <1>6 DEF do_item_linktail_q
  <2> QED BY ONLY <2>1, <2>2
<1>8. r2 = [heads |-> [q.heads EXCEPT ![l] = IF @ = None THEN l ELSE @],
            tails |-> [q.tails EXCEPT ![l] = l], next |-> nn, prev |-> [q.prev EXCEPT ![l] = t],
            sizes |-> q.sizes, due |-> [q.due EXCEPT ![l] = D]]
  BY ONLY <1>6, <1>7
<1>9. D \in SUBSET Items
  BY DEF Placed
<1>10. ListsType(r2)
  BY <1>1, <1>3, <1>5, <1>8, <1>9 DEF ListsType
<1>11. IsTail(q, r2, l, l)
  BY <1>1, <1>2, <1>3, <1>5, <1>8 DEF IsTail, OthersKeep, ListsType
<1>12. PICK rem2 : rem2 = [rem EXCEPT ![l] = CrawlLimit(n)]
  OBVIOUS
<1>13. rem2[l] = CrawlLimit(n) /\ rem2[l] \in Nat
  BY <1>12 DEF CrawlLimit
<1>14. \A k \in Lrus \ {l} : rem2[k] = rem[k] /\ r2.due[k] = q.due[k]
  BY <1>1, <1>8, <1>12 DEF ListsType
<1>15. r2.sizes = q.sizes /\ r2.due[l] = D /\ q.sizes[l] \in Int
  BY <1>1, <1>8 DEF ListsType
<1>16. \/ r2.due[l] = {}
       \/ r2.due[l] = Placed(P, l) /\ (rem2[l] # 0 => rem2[l] > q.sizes[l])
  BY <1>13, <1>15 DEF CrawlLimit
<1>17. Good(r2, P, en \cup {l}, rem2)
  BY <1>10, <1>11, <1>13, <1>14, <1>15, <1>16, GoodTail DEF IsPlaces
<1> QED BY <1>6, <1>12, <1>17

\* The items with pointers, or at the head, are those of the list.
LEMMA ListedIs ==
    ASSUME NEW l \in Lrus, ListsInv, \A x \in Items : Place(x) \in {None, item[x].lru}
    PROVE  Listed(l) = Placed(Places, l)
<1>1. ListsType(q) /\ None \notin Lrus
  BY DEF ListsInv, Good
<1>2. PICK s \in Lists(l) : ListOK(q, Places, enabled, remaining, l, s)
  BY DEF ListsInv, Good
<1>3. ASSUME NEW x \in Items PROVE x \in Listed(l) <=> Places[x] = l
  <2>1. Places[x] = Place(x) /\ x \in Nodes /\ x # None
    BY DEF Places, Nodes
  <2>2. CASE Place(x) = l
    <3>1. Member(Places, enabled, x, l) /\ item[x].lru = l
      BY <2>1, <2>2, <1>1 DEF Member
    <3>2. q.prev[x] # None \/ q.heads[l] = x
      BY <3>1, <2>1, <1>2, Neighbours
    <3> QED BY <2>1, <2>2, <3>1, <3>2 DEF Listed
  <2>3. CASE Place(x) # l
    <3>1. ASSUME x \in Listed(l) PROVE FALSE
      <4>1. item[x].lru = l /\ Places[x] = None
        BY <3>1, <2>1, <2>3 DEF Listed
      <4>2. q.prev[x] = None /\ q.next[x] = None
        BY <4>1 DEF ListsInv, Good
      <4>3. ~Member(Places, enabled, x, l)
        BY <4>1, <1>1 DEF Member
      <4>4. q.heads[l] # x
        BY <4>3, <2>1, <1>2, Neighbours
      <4> QED BY <3>1, <4>2, <4>4 DEF Listed
    <3> QED BY <3>1, <2>1, <2>3
  <2> QED BY <2>2, <2>3
<1>4. Listed(l) \subseteq Items
  BY DEF Listed
<1> QED BY <1>3, <1>4 DEF Placed

-----------------------------------------------------------------------------
(* The inductive invariant.                                                *)

\* A chunk in use has a key, and the hash table has just the linked items.
ItemOK(x) ==
    /\ item[x].ref = 0 => item[x] = Free
    /\ item[x].ref # 0 => item[x].key \in Keys
    /\ "LINKED" \in item[x].flags => table[item[x].key] = x
TableOK(k) == table[k] # None => /\ table[k] \in Items /\ item[table[k]].key = k
                                 /\ "LINKED" \in item[table[k]].flags

\* The references of an item.
LinkRef(x) == IF ("LINKED" \in item[x].flags \/ Unlinking(x)) /\ ~Linking(x) THEN 1 ELSE 0
Exact(x) == item[x].ref = LinkRef(x) + held[x] + Cardinality(Holders(x)) + Cardinality(Bumps(x))

\* Where the threads are, and which item locks and LRU locks they hold.
Owns(t, x) == /\ item[x].key \in Keys /\ lock[item[x].key] = t
New(x, k) == item[x].ref = 1 /\ item[x].key = k /\ "LINKED" \notin item[x].flags
WorkerOK(w) ==
    /\ th[w].pc \notin {"idle", "starting"} => th[w].key \in Keys
    /\ th[w].pc \in {"unlink", "replace", "store", "link", "linked"} => th[w].it \in Items
    /\ th[w].pc \in {"unlink", "replace", "linked"} =>
         Owns(w, th[w].it) /\ item[th[w].it].key = th[w].key
    /\ th[w].pc \in {"unlink", "replace"} => "LINKED" \notin item[th[w].it].flags
    /\ th[w].pc = "replace" => /\ th[w].own = 1 /\ th[w].search \in Items
                               /\ New(th[w].search, th[w].key)
    /\ th[w].pc \in {"store", "link"} => New(th[w].it, th[w].key)
    /\ th[w].pc = "link" => lock[th[w].key] = w
    /\ th[w].pc \in {"link", "replace"} => table[th[w].key] = None
    /\ th[w].pc = "linked" => "LINKED" \in item[th[w].it].flags
    /\ th[w].own # 0 => th[w].own = 1 /\ th[w].pc \in {"unlink", "replace"}
PullerOK(t) ==
    /\ th[t].pc = "walk" => /\ th[t].lru \in Lrus /\ lru_lock[th[t].lru] = t
                            /\ \/ th[t].search = None
                               \/ Member(Places, enabled, th[t].search, th[t].lru)
    /\ th[t].pc = "pulled" => /\ th[t].it \in Items /\ Owns(t, th[t].it)
                              /\ th[t].move \in Lrus \cup {None}
                              /\ th[t].move # None => "LINKED" \in item[th[t].it].flags
MaintainerOK ==
    LET m == th[Maintainer]
    IN  /\ m.pc \in {"idle", "walk", "pulled", "bump", "bumped", "crawl", "starting"}
        /\ m.own = 0
        /\ m.pc \in {"bump", "bumped"} =>
             /\ m.buf \in Workers /\ m.size \in Nat /\ m.at \in Nat
             /\ buf[m.buf].a_start <= m.at /\ m.at <= buf[m.buf].a_start + m.size
             /\ buf[m.buf].a_start + m.size <= buf[m.buf].a_end
        /\ m.pc = "bumped" => /\ m.at < buf[m.buf].a_start + m.size
                              /\ Owns(Maintainer, Entry) /\ item[Entry].lru = WARM
                              /\ "LINKED" \in item[Entry].flags
        /\ m.pc = "crawl" => m.ids \in SUBSET Lrus /\ m.size \in Nat
EvalOK == c.pc = "eval" => /\ c.it \in Items /\ Owns(Crawler, c.it)
                           /\ "LINKED" \in item[c.it].flags
StartingOK == starting.ids # {} => /\ starting.by \in Pullers
                                   /\ th[starting.by].pc = "starting"
ThreadsOK == /\ \A w \in Workers : WorkerOK(w)
             /\ \A t \in Pullers : PullerOK(t)
             /\ MaintainerOK /\ EvalOK /\ StartingOK

\* The slots in use of a bump buffer are those of its regions A and B.
BufferOK(b) ==
    /\ b.a_start <= b.a_end /\ b.a_end <= BumpSize
    /\ IF b.b_inuse THEN b.b_end <= b.a_start ELSE b.b_end = 0
    /\ \A i \in 0 .. BumpSize - 1 :
         b.data[i] # None <=> i \in b.a_start .. b.a_end - 1 \/ i \in 0 .. b.b_end - 1

BufferRecords == [a_start : Nat, a_end : Nat, b_end : Nat, b_inuse : BOOLEAN,
                  data : [0 .. BumpSize - 1 -> Items \cup {None}]]
FlagSets == SUBSET {"LINKED", "FETCHED", "ACTIVE"}
ItemRecords == [key : Keys \cup {None}, lru : Lrus, flags : FlagSets,
                ref : Nat, expired : BOOLEAN]
IsThread(r) == r = [pc |-> r.pc, key |-> r.key, it |-> r.it, own |-> r.own, removed |-> r.removed,
                    lru |-> r.lru, flags |-> r.flags, search |-> r.search, tries |-> r.tries,
                    move |-> r.move, buf |-> r.buf, at |-> r.at, size |-> r.size, ids |-> r.ids]
Types ==
    /\ item \in [Items -> ItemRecords]
    /\ table \in [Keys -> Items \cup {None}] /\ held \in [Items -> Nat]
    /\ lock \in [Keys -> Workers \cup {Maintainer, Crawler, None}]
    /\ lru_lock \in [Lrus -> Pullers \cup {None}]
    /\ DOMAIN th = Pullers /\ th = [t \in Pullers |-> th[t]] /\ \A t \in Pullers : IsThread(th[t])
    /\ buf \in [Workers -> BufferRecords] /\ enabled \subseteq Lrus
    /\ remaining \in [Lrus -> Nat] /\ crawler_count \in Int
    /\ c = [pc |-> c.pc, type |-> c.type, it |-> c.it]
    /\ c.pc \in {"wait", "loop", "sleep", "eval"}
    /\ starting = [ids |-> starting.ids, remaining |-> starting.remaining, by |-> starting.by]
    /\ starting.ids \subseteq Lrus /\ starting.remaining \in Nat \cup {CAP}

IInv == /\ Types /\ ThreadsOK /\ ListsInv
        /\ \A x \in Items : ItemOK(x) /\ Exact(x)
        /\ \A k \in Keys : TableOK(k)
        /\ \A w \in Workers : BufferOK(buf[w])


-----------------------------------------------------------------------------
(* The bump buffers.                                                       *)

IsBuffer(b) == b \in BufferRecords /\ BufferOK(b)

LEMMA Size == BumpSize \in Nat /\ BumpSize > 0
BY Constants

\* A buffer without region B, and one with it; the slots of d that are in use.
BufferA(lo, hi, d) == [a_start |-> lo, a_end |-> hi, b_end |-> 0, b_inuse |-> FALSE, data |-> d]
BufferB(lo, hi, eb, d) ==
    [a_start |-> lo, a_end |-> hi, b_end |-> eb, b_inuse |-> TRUE, data |-> d]
Slots == [0 .. BumpSize - 1 -> Items \cup {None}]
Regions(lo, hi, eb, d) ==
    /\ lo <= hi /\ hi <= BumpSize
    /\ \A i \in 0 .. BumpSize - 1 : d[i] # None <=> i \in lo .. hi - 1 \/ i \in 0 .. eb - 1

LEMMA BufferIs ==
    ASSUME NEW b, IsBuffer(b)
    PROVE  /\ b.a_start \in Nat /\ b.a_end \in Nat /\ b.b_end \in Nat /\ b.data \in Slots
           /\ Regions(b.a_start, b.a_end, b.b_end, b.data)
           /\ \/ b = BufferA(b.a_start, b.a_end, b.data) /\ b.b_end = 0
              \/ b = BufferB(b.a_start, b.a_end, b.b_end, b.data) /\ b.b_end <= b.a_start
<1>1. b \in BufferRecords /\ BufferOK(b)
  BY DEF IsBuffer
<1>2. /\ b = [a_start |-> b.a_start, a_end |-> b.a_end, b_end |-> b.b_end,
              b_inuse |-> b.b_inuse, data |-> b.data]
      /\ b.a_start \in Nat /\ b.a_end \in Nat /\ b.b_end \in Nat /\ b.data \in Slots
  BY ONLY <1>1 DEF BufferRecords, Slots
<1>3. b.b_inuse \in BOOLEAN
  BY ONLY <1>1, Zenon DEF BufferRecords
<1>4. Regions(b.a_start, b.a_end, b.b_end, b.data)
  BY ONLY <1>1 DEF BufferOK, Regions
<1>5. CASE b.b_inuse
  <2>1. b.b_end <= b.a_start
    BY ONLY <1>1, <1>5 DEF BufferOK
  <2>2. b.b_inuse = TRUE
    BY <1>3, <1>5, Zenon
  <2>3. b = BufferB(b.a_start, b.a_end, b.b_end, b.data)
    BY ONLY <1>2, <2>2, Zenon DEF BufferB
  <2> QED BY <1>2, <1>4, <2>1, <2>3
<1>6. CASE ~b.b_inuse
  <2>1. b.b_end = 0
    BY ONLY <1>1, <1>6 DEF BufferOK
  <2>2. b.b_inuse = FALSE
    BY <1>3, <1>6, Zenon
  <2>3. b = BufferA(b.a_start, b.a_end, b.data)
    BY ONLY <1>2, <2>1, <2>2, Zenon DEF BufferA
  <2> QED BY <1>2, <1>4, <2>1, <2>3
<1> QED BY <1>5, <1>6

LEMMA BufferAOK ==
    ASSUME NEW lo, NEW hi, NEW d, lo \in Nat, hi \in Nat, d \in Slots, Regions(lo, hi, 0, d)
    PROVE  /\ IsBuffer(BufferA(lo, hi, d)) /\ BufferA(lo, hi, d).a_start = lo
           /\ BufferA(lo, hi, d).a_end = hi /\ BufferA(lo, hi, d).data = d
<1> DEFINE b == BufferA(lo, hi, d)
<1>1. /\ b.a_start = lo /\ b.a_end = hi /\ b.b_end = 0 /\ b.data = d
  BY DEF BufferA
<1>2. b.b_inuse = FALSE
  BY Zenon DEF BufferA
<1>3. b \in BufferRecords
  BY DEF BufferA, BufferRecords, Slots
<1>4. BufferOK(b)
  BY ONLY <1>1, <1>2, Regions(lo, hi, 0, d) DEF Regions, BufferOK
<1> QED BY <1>1, <1>2, <1>3, <1>4 DEF IsBuffer

LEMMA BufferBOK ==
    ASSUME NEW lo, NEW hi, NEW eb, NEW d, lo \in Nat, hi \in Nat, eb \in Nat, d \in Slots,
           Regions(lo, hi, eb, d), eb <= lo
    PROVE  /\ IsBuffer(BufferB(lo, hi, eb, d)) /\ BufferB(lo, hi, eb, d).a_start = lo
           /\ BufferB(lo, hi, eb, d).a_end = hi /\ BufferB(lo, hi, eb, d).data = d
<1> DEFINE b == BufferB(lo, hi, eb, d)
<1>1. /\ b.a_start = lo /\ b.a_end = hi /\ b.b_end = eb /\ b.data = d
  BY DEF BufferB
<1>2. b.b_inuse = TRUE
  BY Zenon DEF BufferB
<1>3. b \in BufferRecords
  BY DEF BufferB, BufferRecords, Slots
<1>4. BufferOK(b)
  BY ONLY <1>1, <1>2, eb <= lo, Regions(lo, hi, eb, d) DEF Regions, BufferOK
<1> QED BY <1>1, <1>2, <1>3, <1>4 DEF IsBuffer

\* The switch to region B changes nothing that is stored.
LEMMA SwitchOK ==
    ASSUME NEW b, IsBuffer(b)
    PROVE  /\ IsBuffer(__check_for_switch_to_b(b))
           /\ __check_for_switch_to_b(b).data = b.data
           /\ __check_for_switch_to_b(b).a_start = b.a_start
           /\ __check_for_switch_to_b(b).a_end = b.a_end
<1>1. PICK b2 : b2 = [b EXCEPT !.b_inuse = TRUE]
  OBVIOUS
<1>2. PICK lo, hi, eb, d : lo = b.a_start /\ hi = b.a_end /\ eb = b.b_end /\ d = b.data
  OBVIOUS
<1>3. lo \in Nat /\ hi \in Nat /\ eb \in Nat /\ d \in Slots /\ Regions(lo, hi, eb, d)
  BY <1>2, BufferIs
<1>4. CASE b = BufferA(lo, hi, d) /\ eb = 0
  <2>1. eb <= lo
    BY ONLY <1>3, <1>4
  <2>2. b2 = BufferB(lo, hi, eb, d)
    BY ONLY <1>1, <1>4 DEF BufferA, BufferB
  <2>3. IsBuffer(b2) /\ b2.a_start = lo /\ b2.a_end = hi /\ b2.data = d
    BY ONLY <1>3, <2>1, <2>2, BufferBOK
  <2> QED BY <1>1, <1>2, <2>3 DEF __check_for_switch_to_b
<1>5. CASE b = BufferB(lo, hi, eb, d) /\ eb <= lo
  <2>2. b2 = BufferB(lo, hi, eb, d)
    BY ONLY <1>1, <1>5 DEF BufferB
  <2> QED BY <1>1, <1>2, <2>2, <1>5 DEF __check_for_switch_to_b
<1> QED BY <1>2, <1>4, <1>5, BufferIs

\* A push fills an empty slot outside the entries of region A.
LEMMA PushOK ==
    ASSUME NEW b, IsBuffer(b), ~(bipbuf_unused(b) < 1), NEW x \in Items
    PROVE  \E i \in 0 .. BumpSize - 1 :
             /\ b.data[i] = None /\ i \notin b.a_start .. b.a_end - 1
             /\ IsBuffer(bipbuf_push(b, x))
             /\ bipbuf_push(b, x).data = [b.data EXCEPT ![i] = x]
             /\ bipbuf_push(b, x).a_start = b.a_start
             /\ b.a_end <= bipbuf_push(b, x).a_end
<1>1. PICK lo, hi, eb, d : lo = b.a_start /\ hi = b.a_end /\ eb = b.b_end /\ d = b.data
  OBVIOUS
<1>2. lo \in Nat /\ hi \in Nat /\ eb \in Nat /\ d \in Slots /\ Regions(lo, hi, eb, d)
  BY <1>1, BufferIs
<1>3. PICK c2 : c2 = IF b.b_inuse THEN [b EXCEPT !.data[b.b_end] = x, !.b_end = @ + 1]
                                   ELSE [b EXCEPT !.data[b.a_end] = x, !.a_end = @ + 1]
  OBVIOUS
<1>4. bipbuf_push(b, x) = __check_for_switch_to_b(c2)
  BY <1>3 DEF bipbuf_push
<1>5. /\ lo <= hi /\ hi <= BumpSize
      /\ \A i \in 0 .. BumpSize - 1 : d[i] # None <=> i \in lo .. hi - 1 \/ i \in 0 .. eb - 1
  BY <1>2 DEF Regions
<1>6. x # None
  BY Constants DEF Nodes
<1>7. ASSUME NEW i \in 0 .. BumpSize - 1
      PROVE  [d EXCEPT ![i] = x] \in Slots /\ [d EXCEPT ![i] = x][i] = x
             /\ \A j \in 0 .. BumpSize - 1 : j # i => [d EXCEPT ![i] = x][j] = d[j]
  BY <1>2 DEF Slots
<1>8. CASE b = BufferB(lo, hi, eb, d) /\ eb <= lo
  <2>0. b.b_inuse = TRUE
    BY <1>8, Zenon DEF BufferB
  <2>1. eb < lo /\ eb \in 0 .. BumpSize - 1
    BY ONLY <1>1, <1>2, <1>5, <2>0, ~(bipbuf_unused(b) < 1), Size DEF bipbuf_unused
  <2>2. PICK d2 : d2 = [d EXCEPT ![eb] = x]
    OBVIOUS
  <2>3. d2 \in Slots /\ d2[eb] = x /\ \A j \in 0 .. BumpSize - 1 : j # eb => d2[j] = d[j]
    BY <2>1, <2>2, <1>7
  <2>4. c2 = BufferB(lo, hi, eb + 1, d2)
    BY ONLY <1>3, <1>8, <2>0, <2>2 DEF BufferB
  <2>5. Regions(lo, hi, eb + 1, d2)
    <3>1. ASSUME NEW i \in 0 .. BumpSize - 1
          PROVE  d2[i] # None <=> i \in lo .. hi - 1 \/ i \in 0 .. (eb + 1) - 1
      <4>1. CASE i = eb
        BY ONLY <4>1, <1>2, <1>6, <2>1, <2>3, Size
      <4>2. CASE i # eb
        <5>1. d2[i] = d[i] /\ (i \in 0 .. (eb + 1) - 1 <=> i \in 0 .. eb - 1)
          BY <4>2, <2>3, <1>2, Size
        <5> QED BY <5>1, <1>5
      <4> QED BY <4>1, <4>2
    <3> QED BY <3>1, <1>5 DEF Regions
  <2>6. eb + 1 <= lo /\ eb + 1 \in Nat
    BY <1>2, <2>1
  <2>7. IsBuffer(c2) /\ c2.a_start = lo /\ c2.a_end = hi /\ c2.data = d2
    BY ONLY <1>2, <2>3, <2>4, <2>5, <2>6, BufferBOK
  <2>8. d[eb] = None /\ eb \notin lo .. hi - 1
    BY ONLY <1>2, <1>5, <2>1, Size
  <2>9. /\ IsBuffer(bipbuf_push(b, x)) /\ bipbuf_push(b, x).data = d2
        /\ bipbuf_push(b, x).a_start = lo /\ bipbuf_push(b, x).a_end = hi
    BY <1>4, <2>7, SwitchOK
  <2> QED BY <1>1, <1>2, <2>1, <2>2, <2>8, <2>9
<1>9. CASE b = BufferA(lo, hi, d) /\ eb = 0
  <2>0. b.b_inuse = FALSE
    BY <1>9, Zenon DEF BufferA
  <2>1. hi \in 0 .. BumpSize - 1
    BY ONLY <1>1, <1>2, <1>5, <2>0, ~(bipbuf_unused(b) < 1), Size DEF bipbuf_unused
  <2>2. PICK d2 : d2 = [d EXCEPT ![hi] = x]
    OBVIOUS
  <2>3. d2 \in Slots /\ d2[hi] = x /\ \A j \in 0 .. BumpSize - 1 : j # hi => d2[j] = d[j]
    BY <2>1, <2>2, <1>7
  <2>4. c2 = BufferA(lo, hi + 1, d2)
    BY ONLY <1>3, <1>9, <2>0, <2>2 DEF BufferA
  <2>5. Regions(lo, hi + 1, 0, d2)
    <3>1. ASSUME NEW i \in 0 .. BumpSize - 1
          PROVE  d2[i] # None <=> i \in lo .. (hi + 1) - 1 \/ i \in 0 .. 0 - 1
      <4>1. CASE i = hi
        BY ONLY <4>1, <1>2, <1>5, <1>6, <2>1, <2>3, Size
      <4>2. CASE i # hi
        <5>1. d2[i] = d[i] /\ (i \in lo .. (hi + 1) - 1 <=> i \in lo .. hi - 1)
          BY <4>2, <2>3, <1>2, Size
        <5> QED BY <5>1, <1>5, <1>9
      <4> QED BY <4>1, <4>2
    <3>2. lo <= hi + 1 /\ hi + 1 <= BumpSize
      BY ONLY <1>2, <1>5, <2>1, Size
    <3> QED BY <3>1, <3>2 DEF Regions
  <2>6. hi + 1 \in Nat /\ hi <= hi + 1
    BY <1>2
  <2>7. IsBuffer(c2) /\ c2.a_start = lo /\ c2.a_end = hi + 1 /\ c2.data = d2
    BY ONLY <1>2, <2>3, <2>4, <2>5, <2>6, BufferAOK
  <2>8. d[hi] = None /\ hi \notin lo .. hi - 1
    BY ONLY <1>2, <1>5, <1>9, <2>1, Size
  <2>9. /\ IsBuffer(bipbuf_push(b, x)) /\ bipbuf_push(b, x).data = d2
        /\ bipbuf_push(b, x).a_start = lo /\ bipbuf_push(b, x).a_end = hi + 1
    BY <1>4, <2>7, SwitchOK
  <2> QED BY <1>1, <2>1, <2>2, <2>6, <2>8, <2>9
<1> QED BY <1>1, <1>8, <1>9, BufferIs

\* A poll empties the slots that were read.
LEMMA PollOK ==
    ASSUME NEW b, IsBuffer(b), NEW size \in Nat, b.a_start + size <= b.a_end
    PROVE  /\ IsBuffer(bipbuf_poll(b, size))
           /\ bipbuf_poll(b, size).data =
                [i \in 0 .. BumpSize - 1 |-> IF i \in b.a_start .. b.a_start + size - 1
                                             THEN None ELSE b.data[i]]
<1>1. PICK lo, hi, eb, d : lo = b.a_start /\ hi = b.a_end /\ eb = b.b_end /\ d = b.data
  OBVIOUS
<1>2. lo \in Nat /\ hi \in Nat /\ eb \in Nat /\ d \in Slots /\ Regions(lo, hi, eb, d)
  BY <1>1, BufferIs
<1>3. /\ lo <= hi /\ hi <= BumpSize /\ lo + size <= hi
      /\ \A i \in 0 .. BumpSize - 1 : d[i] # None <=> i \in lo .. hi - 1 \/ i \in 0 .. eb - 1
  BY <1>1, <1>2 DEF Regions
<1>4. PICK d2 : d2 = [i \in DOMAIN d |-> IF i \in lo .. lo + size - 1 THEN None ELSE d[i]]
  OBVIOUS
<1>5. /\ d2 \in Slots
      /\ d2 = [i \in 0 .. BumpSize - 1 |-> IF i \in lo .. lo + size - 1 THEN None ELSE d[i]]
  BY <1>2, <1>4 DEF Slots
<1>6. PICK r : r = [b EXCEPT !.a_start = @ + size,
                       !.data = [i \in DOMAIN @ |->
                                   IF i \in b.a_start .. b.a_start + size - 1
                                   THEN None ELSE @[i]]]
  OBVIOUS
<1>7. r = [b EXCEPT !.a_start = lo + size, !.data = d2]
  <2>1. [i \in DOMAIN b.data |-> IF i \in b.a_start .. b.a_start + size - 1
                                THEN None ELSE b.data[i]] = d2
    BY ONLY <1>1, <1>4
  <2> QED BY ONLY <1>1, <1>6, <2>1
<1>8. PICK e : e = IF r.a_start # r.a_end THEN r
                   ELSE IF r.b_inuse THEN [r EXCEPT !.a_start = 0, !.a_end = r.b_end,
                                                    !.b_end = 0, !.b_inuse = FALSE]
                   ELSE [r EXCEPT !.a_start = 0, !.a_end = 0]
  OBVIOUS
<1>9. bipbuf_poll(b, size) = __check_for_switch_to_b(e)
  BY <1>6, <1>8 DEF bipbuf_poll
<1>10. \A i \in 0 .. BumpSize - 1 : d2[i] # None <=> i \in lo + size .. hi - 1 \/ i \in 0 .. eb - 1
  <2>1. ASSUME NEW i \in 0 .. BumpSize - 1, eb <= lo
        PROVE  d2[i] # None <=> i \in lo + size .. hi - 1 \/ i \in 0 .. eb - 1
    <3>1. CASE i \in lo .. lo + size - 1
      <4>1. d2[i] = None /\ i \notin lo + size .. hi - 1 /\ i \notin 0 .. eb - 1
        BY <2>1, <3>1, <1>2, <1>3, <1>5, Size
      <4> QED BY <4>1
    <3>2. CASE i \notin lo .. lo + size - 1
      <4>1. d2[i] = d[i]
        BY <3>2, <1>5
      <4>2. i \in lo + size .. hi - 1 <=> i \in lo .. hi - 1
        BY <3>2, <1>2, <1>3, Size
      <4> QED BY <4>1, <4>2, <1>3
    <3> QED BY <3>1, <3>2
  <2>2. eb <= lo
    BY ONLY <1>1, <1>2, BufferIs, IsBuffer(b)
  <2> QED BY <2>1, <2>2
<1>11. Regions(lo + size, hi, eb, d2) /\ lo + size \in Nat
  BY <1>2, <1>3, <1>10 DEF Regions
<1>12. CASE b = BufferA(lo, hi, d) /\ eb = 0
  <2>1. r = BufferA(lo + size, hi, d2)
    BY ONLY <1>7, <1>12 DEF BufferA
  <2>6. r.b_inuse = FALSE
    BY <2>1, Zenon DEF BufferA
  <2>2. IsBuffer(r) /\ r.a_start = lo + size /\ r.a_end = hi /\ r.data = d2
    BY ONLY <1>2, <1>5, <1>11, <1>12, <2>1, BufferAOK
  <2>3. ASSUME lo + size # hi PROVE IsBuffer(e) /\ e.data = d2
    BY ONLY <2>2, <2>3, <1>8
  <2>4. ASSUME lo + size = hi PROVE IsBuffer(e) /\ e.data = d2
    <3>1. e = BufferA(0, 0, d2)
      BY ONLY <2>1, <2>2, <2>4, <2>6, <1>8 DEF BufferA
    <3>2. Regions(0, 0, 0, d2)
      BY <1>10, <1>12, <2>4, <1>2, Size DEF Regions
    <3>3. IsBuffer(e) /\ e.data = d2
      BY ONLY <3>1, <3>2, <1>5, 0 \in Nat, BufferAOK
    <3> QED BY <3>3
  <2>5. IsBuffer(e) /\ e.data = d2
    BY <2>3, <2>4
  <2> QED BY <2>5, <1>1, <1>5, <1>9, SwitchOK
<1>13. CASE b = BufferB(lo, hi, eb, d) /\ eb <= lo
  <2>0. eb <= lo + size
    BY <1>2, <1>13
  <2>1. r = BufferB(lo + size, hi, eb, d2)
    BY ONLY <1>7, <1>13 DEF BufferB
  <2>6. r.b_inuse = TRUE
    BY <2>1, Zenon DEF BufferB
  <2>2. IsBuffer(r) /\ r.a_start = lo + size /\ r.a_end = hi /\ r.data = d2
    BY ONLY <1>2, <1>5, <1>11, <2>0, <2>1, BufferBOK
  <2>4. ASSUME lo + size = hi PROVE IsBuffer(e) /\ e.data = d2
    <3>1. e = BufferA(0, eb, d2)
      BY ONLY <2>1, <2>2, <2>4, <2>6, <1>8 DEF BufferA, BufferB
    <3>2. Regions(0, eb, 0, d2)
      <4>1. 0 <= eb /\ eb <= BumpSize
        BY ONLY <1>2, <1>3, <1>13, Size
      <4>2. \A i \in 0 .. BumpSize - 1 : i \notin lo + size .. hi - 1 /\ i \notin 0 .. 0 - 1
        BY <2>4, <1>2
      <4> QED BY ONLY <4>1, <4>2, <1>10 DEF Regions
    <3>3. IsBuffer(e) /\ e.data = d2
      BY ONLY <3>1, <3>2, <1>2, <1>5, 0 \in Nat, BufferAOK
    <3> QED BY <3>3
  <2>3. ASSUME lo + size # hi PROVE IsBuffer(e) /\ e.data = d2
    BY ONLY <2>2, <2>3, <1>8
  <2>5. IsBuffer(e) /\ e.data = d2
    BY <2>3, <2>4
  <2> QED BY <2>5, <1>1, <1>5, <1>9, SwitchOK
<1> QED BY <1>1, <1>12, <1>13, BufferIs

-----------------------------------------------------------------------------
(* What the threads have to do with an item.                               *)

Threads == Pullers \cup {Crawler}
Num(b) == IF b THEN 1 ELSE 0

UnlR(r, x) == r.pc \in {"unlink", "replace"} /\ r.it = x
LnkR(r, x) == r.pc = "linked" /\ r.it = x
MovR(r, x) == r.pc = "pulled" /\ r.it = x /\ r.move # None
HldR(r, x) == \/ r.it = x /\ r.pc \in {"store", "link", "linked", "pulled"}
              \/ r.it = x /\ r.own = 1
              \/ r.search = x /\ r.pc = "replace"

Bumped(x) == th[Maintainer].pc = "bumped" /\ Entry = x
Evals(x) == c.pc = "eval" /\ c.it = x

\* Thread t unlinks, links, moves or holds x.
Unl(t, x) == t \in Workers /\ UnlR(th[t], x)
Lnk(t, x) == t \in Workers /\ LnkR(th[t], x)
Mov(t, x) == \/ t \in Pullers /\ MovR(th[t], x)
             \/ t = Maintainer /\ Bumped(x)
Hld(t, x) == \/ t \in Pullers /\ HldR(th[t], x)
             \/ t = Crawler /\ Evals(x)
Rel(t, x) == Unl(t, x) \/ Lnk(t, x) \/ Mov(t, x) \/ Hld(t, x)

\* t alone has to do with x.
Alone(x, t) == \A u \in Threads \ {t} : ~Rel(u, x)

RelsAre ==
    \A x \in Items : MaintainerOK =>
        /\ Unlinking(x) <=> \E t \in Threads : Unl(t, x)
        /\ Linking(x) <=> \E t \in Threads : Lnk(t, x)
        /\ Moving(x) <=> \E t \in Threads : Mov(t, x)
        /\ Holders(x) = {t \in Threads : Hld(t, x)}

LEMMA RelsAreNow == RelsAre
<1> SUFFICES ASSUME NEW x \in Items, MaintainerOK
             PROVE  /\ Unlinking(x) <=> \E t \in Threads : Unl(t, x)
                    /\ Linking(x) <=> \E t \in Threads : Lnk(t, x)
                    /\ Moving(x) <=> \E t \in Threads : Mov(t, x)
                    /\ Holders(x) = {t \in Threads : Hld(t, x)}
  BY DEF RelsAre
<1>1. Workers \subseteq Threads /\ Pullers \subseteq Threads /\ Maintainer \in Pullers
      /\ Crawler \in Threads /\ Crawler \notin Pullers /\ Maintainer \notin Workers
      /\ Pullers = Workers \cup {Maintainer}
  BY Constants DEF Threads
<1>2. Unlinking(x) <=> \E t \in Threads : Unl(t, x)
  BY <1>1 DEF Unlinking, Unl, UnlR
<1>3. Linking(x) <=> \E t \in Threads : Lnk(t, x)
  BY <1>1 DEF Linking, Lnk, LnkR
<1>4. Moving(x) <=> \E t \in Threads : Mov(t, x)
  BY <1>1 DEF Moving, Mov, MovR, Bumped
<1>5. Holders(x) = {t \in Threads : Hld(t, x)}
  <2>1. ASSUME NEW t \in Workers
        PROVE  t \in Holders(x) <=> HldR(th[t], x)
    BY <1>1, <2>1 DEF Holders, HldR
  <2>2. Maintainer \in Holders(x) <=> HldR(th[Maintainer], x)
    BY <1>1 DEF Holders, HldR, MaintainerOK
  <2>3. Crawler \in Holders(x) <=> Evals(x)
    BY <1>1 DEF Holders, Evals
  <2>4. Holders(x) \subseteq Threads
    BY <1>1 DEF Holders, Threads
  <2>5. ASSUME NEW t \in Threads
        PROVE  t \in Holders(x) <=> Hld(t, x)
    BY <1>1, <2>1, <2>2, <2>3 DEF Hld, Threads
  <2> QED BY <2>4, <2>5
<1> QED BY <1>2, <1>3, <1>4, <1>5

LEMMA RelsAreNext == RelsAre'
BY RelsAreNow, PTL

AloneIs ==
    \A x \in Items, t \in Threads : MaintainerOK /\ Alone(x, t) =>
        /\ Unlinking(x) <=> Unl(t, x)
        /\ Linking(x) <=> Lnk(t, x)
        /\ Moving(x) <=> Mov(t, x)
        /\ Cardinality(Holders(x)) = Num(Hld(t, x))

LEMMA AloneNow == AloneIs
<1> SUFFICES ASSUME NEW x \in Items, NEW t \in Threads, MaintainerOK, Alone(x, t)
             PROVE  /\ Unlinking(x) <=> Unl(t, x)
                    /\ Linking(x) <=> Lnk(t, x)
                    /\ Moving(x) <=> Mov(t, x)
                    /\ Cardinality(Holders(x)) = Num(Hld(t, x))
  BY DEF AloneIs
<1>1. /\ Unlinking(x) <=> \E u \in Threads : Unl(u, x)
      /\ Linking(x) <=> \E u \in Threads : Lnk(u, x)
      /\ Moving(x) <=> \E u \in Threads : Mov(u, x)
      /\ Holders(x) = {u \in Threads : Hld(u, x)}
  BY RelsAreNow DEF RelsAre
<1>2. \A u \in Threads : u # t => ~Unl(u, x) /\ ~Lnk(u, x) /\ ~Mov(u, x) /\ ~Hld(u, x)
  BY DEF Alone, Rel
<1>3. CASE Hld(t, x)
  <2>1. Holders(x) = {t}
    BY <1>1, <1>2, <1>3
  <2>2. Cardinality({t}) = 1
    BY FS_Singleton
  <2> QED BY <1>1, <1>2, <1>3, <2>1, <2>2 DEF Num
<1>4. CASE ~Hld(t, x)
  <2>1. Holders(x) = {}
    BY <1>1, <1>2, <1>4
  <2>2. Cardinality({}) = 0
    BY FS_EmptySet
  <2> QED BY <1>1, <1>2, <1>4, <2>1, <2>2 DEF Num
<1> QED BY <1>3, <1>4

LEMMA AloneNext == AloneIs'
BY AloneNow, PTL

\* Reference counts are made of numbers.
LEMMA Counts ==
    ASSUME NEW x \in Items
    PROVE  /\ IsFiniteSet(Holders(x)) /\ Cardinality(Holders(x)) \in Nat
           /\ IsFiniteSet(Bumps(x)) /\ Cardinality(Bumps(x)) \in Nat
           /\ LinkRef(x) \in Nat
<1>1. IsFiniteSet(Holders(x))
  <2>1. IsFiniteSet(Workers \cup {Maintainer, Crawler})
    BY Constants, FS_AddElement, FS_Union, FS_EmptySet, FS_Singleton
  <2>2. Holders(x) \subseteq Workers \cup {Maintainer, Crawler}
    BY DEF Holders
  <2> QED BY <2>1, <2>2, FS_Subset
<1>2. IsFiniteSet(Bumps(x))
  <2>1. IsFiniteSet(0 .. BumpSize - 1)
    BY Size, FS_Interval
  <2>2. IsFiniteSet(Workers \X (0 .. BumpSize - 1))
    BY <2>1, Constants, FS_Product
  <2>3. Bumps(x) \subseteq Workers \X (0 .. BumpSize - 1)
    BY DEF Bumps
  <2> QED BY <2>2, <2>3, FS_Subset
<1> QED BY <1>1, <1>2, FS_CardinalityType DEF LinkRef

-----------------------------------------------------------------------------
(* A step of thread t that touches no item but x.                          *)

SameRel(t, x) == /\ Unl(t, x)' <=> Unl(t, x)
                 /\ Lnk(t, x)' <=> Lnk(t, x)
                 /\ Mov(t, x)' <=> Mov(t, x)
                 /\ Hld(t, x)' <=> Hld(t, x)

SameItem(x) == /\ item'[x].key = item[x].key /\ item'[x].lru = item[x].lru
               /\ item'[x].ref = item[x].ref /\ item'[x].flags = item[x].flags

Frame(x, t) ==
    /\ \A y \in Items \ {x} : /\ item'[y] = item[y] /\ held'[y] = held[y]
                              /\ SameRel(t, y) /\ Bumps(y)' = Bumps(y)
    /\ \A u \in Pullers \ {t} : th'[u] = th[u]
    /\ t # Crawler => (c'.pc = "eval" <=> c.pc = "eval") /\ c'.it = c.it
    /\ \A k \in Keys : lock[k] \notin {None, t} => lock'[k] = lock[k] /\ table'[k] = table[k]
    /\ \A k \in Keys : table'[k] = table[k] \/ {table[k], table'[k]} \subseteq {None, x}
    /\ \A l \in Lrus : lru_lock[l] \notin {None, t} =>
         lru_lock'[l] = lru_lock[l] /\ (l \in enabled => l \in enabled')
    /\ t # Maintainer =>
         \A w \in Workers : /\ buf'[w].a_start = buf[w].a_start /\ buf[w].a_end <= buf'[w].a_end
                            /\ \A i \in buf[w].a_start .. buf[w].a_end - 1 :
                                 buf'[w].data[i] = buf[w].data[i]
    /\ x \in Items => Alone(x, t) \/ SameItem(x)

LEMMA Buffers ==
    ASSUME IInv, NEW w, w \in Workers
    PROVE  /\ IsBuffer(buf[w]) /\ buf[w].a_start \in Nat /\ buf[w].a_end \in Nat
           /\ buf[w].b_end \in Nat /\ buf[w].data \in Slots
           /\ Regions(buf[w].a_start, buf[w].a_end, buf[w].b_end, buf[w].data)
<1>1. IsBuffer(buf[w])
  BY DEF IInv, Types, IsBuffer
<1> QED BY <1>1, BufferIs

\* The entry that the maintainer deals with is not touched by the others.
LEMMA EntrySame ==
    ASSUME IInv, NEW t \in Threads, NEW x, Frame(x, t), t # Maintainer,
           th[Maintainer].pc \in {"bump", "bumped"}
    PROVE  /\ th'[Maintainer] = th[Maintainer]
           /\ LET b == th[Maintainer].buf IN
              /\ b \in Workers /\ buf'[b].a_start = buf[b].a_start
              /\ buf[b].a_start \in Nat /\ buf[b].a_end \in Nat
              /\ buf'[b].a_end \in Nat => buf[b].a_end <= buf'[b].a_end
           /\ th[Maintainer].pc = "bumped" => Entry' = Entry
<1>1. th'[Maintainer] = th[Maintainer]
  BY Constants DEF Frame
<1>2. PICK m : m = th[Maintainer]
  OBVIOUS
<1>3. /\ m.buf \in Workers /\ m.size \in Nat /\ m.at \in Nat
      /\ buf[m.buf].a_start <= m.at /\ m.at <= buf[m.buf].a_start + m.size
      /\ buf[m.buf].a_start + m.size <= buf[m.buf].a_end
      /\ m.pc = "bumped" => m.at < buf[m.buf].a_start + m.size
  BY <1>2 DEF IInv, ThreadsOK, MaintainerOK
<1>4. PICK lo, hi : lo = buf[m.buf].a_start /\ hi = buf[m.buf].a_end
  OBVIOUS
<1>5. lo \in Nat /\ hi \in Nat
  BY <1>3, <1>4, Buffers
<1>6. buf'[m.buf].a_start = lo /\ hi <= buf'[m.buf].a_end
  BY <1>3, <1>4 DEF Frame
<1>7. ASSUME m.pc = "bumped" PROVE Entry' = Entry
  <2>1. m.at \in lo .. hi - 1
    BY ONLY <1>3, <1>4, <1>5, <1>7
  <2>2. buf'[m.buf].data[m.at] = buf[m.buf].data[m.at]
    BY <1>3, <1>4, <2>1 DEF Frame
  <2> QED BY <1>1, <1>2, <2>2 DEF Entry
<1> QED BY <1>1, <1>2, <1>3, <1>4, <1>5, <1>6, <1>7

\* The other threads have as much to do with an item as before.
LEMMA OthersSame ==
    ASSUME IInv, NEW t \in Threads, NEW x, Frame(x, t), NEW u \in Threads \ {t}, NEW y
    PROVE  SameRel(u, y)
<1>1. u \in Pullers => th'[u] = th[u]
  BY DEF Frame
<1>2. u \in Workers => u \in Pullers
  BY Constants
<1>3. u = Crawler => (Evals(y)' <=> Evals(y))
  BY DEF Frame, Evals
<1>4. ASSUME u = Maintainer PROVE Bumped(y)' <=> Bumped(y)
  <2>1. th'[Maintainer].pc = "bumped" <=> th[Maintainer].pc = "bumped"
    BY <1>1, <1>4, Constants
  <2>2. ASSUME th[Maintainer].pc = "bumped" PROVE Entry' = Entry
    BY <2>2, <1>4, EntrySame
  <2> QED BY <2>1, <2>2 DEF Bumped
<1>5. (Unl(u, y)' <=> Unl(u, y)) /\ (Lnk(u, y)' <=> Lnk(u, y))
  BY <1>1, <1>2 DEF Unl, Lnk
<1>6. Mov(u, y)' <=> Mov(u, y)
  BY <1>1, <1>4 DEF Mov
<1>7. Hld(u, y)' <=> Hld(u, y)
  BY <1>1, <1>3 DEF Hld
<1> QED BY <1>5, <1>6, <1>7 DEF SameRel

LEMMA EntryItem ==
    ASSUME IInv, th[Maintainer].pc \in {"bump", "bumped"}, MoreEntries
    PROVE  Entry \in Items
<1>1. PICK m : m = th[Maintainer]
  OBVIOUS
<1>2. /\ m.buf \in Workers /\ m.size \in Nat /\ m.at \in Nat
      /\ buf[m.buf].a_start <= m.at /\ m.at < buf[m.buf].a_start + m.size
      /\ buf[m.buf].a_start + m.size <= buf[m.buf].a_end
  BY <1>1 DEF IInv, ThreadsOK, MaintainerOK, MoreEntries
<1>3. PICK lo, hi, eb, d : /\ lo = buf[m.buf].a_start /\ hi = buf[m.buf].a_end
                           /\ eb = buf[m.buf].b_end /\ d = buf[m.buf].data
  OBVIOUS
<1>4. lo \in Nat /\ hi \in Nat /\ d \in Slots /\ Regions(lo, hi, eb, d)
  BY <1>2, <1>3, Buffers
<1>5. m.at \in lo .. hi - 1 /\ m.at \in 0 .. BumpSize - 1
  BY ONLY <1>2, <1>3, <1>4, Size DEF Regions
<1>6. d[m.at] # None
  BY ONLY <1>4, <1>5 DEF Regions
<1>7. d[m.at] \in Items \cup {None}
  BY ONLY <1>4, <1>5 DEF Slots
<1> QED BY <1>1, <1>3, <1>6, <1>7 DEF Entry

LEMMA BumpedItem ==
    ASSUME IInv, th[Maintainer].pc = "bumped"
    PROVE  Entry \in Items
<1>1. MoreEntries
  BY DEF MoreEntries, IInv, ThreadsOK, MaintainerOK
<1> QED BY <1>1, EntryItem

\* What another thread has to do with is not touched.
LEMMA Kept ==
    ASSUME NEW t \in Threads, NEW x, Frame(x, t), NEW u \in Threads \ {t}, NEW y \in Items,
           Rel(u, y)
    PROVE  SameItem(y)
<1>1. CASE y = x
  BY <1>1 DEF Frame, Alone
<1>2. CASE y # x
  BY <1>2 DEF Frame, SameItem
<1> QED BY <1>1, <1>2

LEMMA OwnsKept ==
    ASSUME NEW t \in Threads, NEW x, Frame(x, t), NEW u \in Threads \ {t}, NEW y, SameItem(y),
           Owns(u, y)
    PROVE  Owns(u, y)'
<1>1. u # None
  BY Constants DEF Threads
<1> QED BY <1>1 DEF Owns, SameItem, Frame

LEMMA MaintainerKept ==
    ASSUME IInv, Types', NEW t \in Threads, NEW x, Frame(x, t), t # Maintainer
    PROVE  MaintainerOK'
<1>1. Maintainer \in Pullers /\ Maintainer \in Threads
  BY Constants DEF Threads
<1>2. th'[Maintainer] = th[Maintainer]
  BY <1>1 DEF Frame
<1>3. MaintainerOK
  BY DEF IInv, ThreadsOK
<1>4. CASE th[Maintainer].pc \notin {"bump", "bumped"}
  BY <1>2, <1>3, <1>4 DEF MaintainerOK
<1>5. CASE th[Maintainer].pc \in {"bump", "bumped"}
  <2>1. PICK m : m = th[Maintainer]
    OBVIOUS
  <2>2. PICK lo, hi, hi2 : lo = buf[m.buf].a_start /\ hi = buf[m.buf].a_end
                           /\ hi2 = buf'[m.buf].a_end
    OBVIOUS
  <2>3. m.buf \in Workers
    BY <1>3, <1>5, <2>1 DEF MaintainerOK
  <2>4. lo \in Nat /\ hi \in Nat
    BY <2>2, <2>3, Buffers
  <2>5. buf'[m.buf].a_start = lo /\ hi <= hi2
    BY <2>2, <2>3 DEF Frame
  <2>6. m.size \in Nat /\ m.at \in Nat /\ lo <= m.at /\ m.at <= lo + m.size /\ lo + m.size <= hi
    BY <1>3, <1>5, <2>1, <2>2 DEF MaintainerOK
  <2>7. lo + m.size <= hi2
    <3>1. hi2 \in Int
      BY <2>2, <2>3 DEF Types, BufferRecords
    <3> QED BY ONLY <3>1, <2>4, <2>5, <2>6
  <2>8. ASSUME m.pc = "bumped"
        PROVE  /\ m.at < lo + m.size /\ Owns(Maintainer, Entry)' /\ item'[Entry'].lru = WARM
               /\ "LINKED" \in item'[Entry'].flags
    <3>1. /\ m.at < lo + m.size /\ Owns(Maintainer, Entry) /\ item[Entry].lru = WARM
          /\ "LINKED" \in item[Entry].flags
      BY <1>3, <2>1, <2>2, <2>8 DEF MaintainerOK
    <3>2. PICK e : e = Entry
      OBVIOUS
    <3>3. e \in Items /\ Entry' = e
      BY <2>1, <2>8, <3>2, BumpedItem, EntrySame
    <3>4. Rel(Maintainer, e)
      BY <2>1, <2>8, <3>2 DEF Rel, Mov, Bumped
    <3>5. SameItem(e)
      BY <1>1, <3>3, <3>4, Kept
    <3>6. Owns(Maintainer, e)'
      BY <1>1, <3>1, <3>2, <3>5, OwnsKept
    <3>7. Owns(Maintainer, Entry)'
      BY <3>3, <3>6 DEF Owns
    <3> QED BY <3>1, <3>2, <3>3, <3>5, <3>7 DEF SameItem
  <2> QED BY <1>2, <1>3, <1>5, <2>1, <2>2, <2>3, <2>5, <2>6, <2>7, <2>8 DEF MaintainerOK
<1> QED BY <1>4, <1>5

LEMMA WorkerKept ==
    ASSUME IInv, NEW t \in Threads, NEW x, Frame(x, t), NEW w \in Workers, w # t
    PROVE  WorkerOK(w)'
<1>1. w \in Pullers /\ w \in Threads \ {t} /\ w # None
  BY Constants DEF Threads
<1>2. th'[w] = th[w]
  BY <1>1 DEF Frame
<1>3. WorkerOK(w)
  BY DEF IInv, ThreadsOK
<1>4. PICK r : r = th[w]
  OBVIOUS
<1>5. \A k \in Keys : lock[k] = w => lock'[k] = w /\ table'[k] = table[k]
  BY <1>1 DEF Frame
<1>6. ASSUME NEW y \in Items, r.it = y,
             r.pc \in {"unlink", "replace", "store", "link", "linked"}
      PROVE  SameItem(y)
  <2>1. Rel(w, y)
    BY <1>1, <1>4, <1>6 DEF Rel, Unl, UnlR, Hld, HldR
  <2> QED BY <1>1, <2>1, Kept
<1>7. ASSUME NEW y \in Items, r.search = y, r.pc = "replace"
      PROVE  SameItem(y)
  <2>1. Rel(w, y)
    BY <1>1, <1>4, <1>7 DEF Rel, Hld, HldR
  <2> QED BY <1>1, <2>1, Kept
<1>8. r.pc \in {"unlink", "replace", "store", "link", "linked"} => r.it \in Items /\ SameItem(r.it)
  BY <1>3, <1>4, <1>6 DEF WorkerOK
<1>9. r.pc = "replace" => r.search \in Items /\ SameItem(r.search)
  BY <1>3, <1>4, <1>7 DEF WorkerOK
<1>10. r.pc \in {"unlink", "replace", "linked"} => Owns(w, r.it)' /\ item'[r.it].key = r.key
  BY <1>1, <1>3, <1>4, <1>8, OwnsKept DEF WorkerOK, SameItem
<1>11. r.pc \in {"link", "replace"} => table'[r.key] = None
  BY <1>3, <1>4, <1>5 DEF WorkerOK, Owns
<1>12. r.pc = "link" => lock'[r.key] = w
  BY <1>3, <1>4, <1>5 DEF WorkerOK
<1>13. r.pc \in {"store", "link"} => New(r.it, r.key)'
  BY <1>3, <1>4, <1>8 DEF WorkerOK, New, SameItem
<1>14. r.pc = "replace" => New(r.search, r.key)'
  BY <1>3, <1>4, <1>9 DEF WorkerOK, New, SameItem
<1>15. /\ r.pc \in {"unlink", "replace"} => "LINKED" \notin item'[r.it].flags
       /\ r.pc = "linked" => "LINKED" \in item'[r.it].flags
  BY <1>3, <1>4, <1>8 DEF WorkerOK, SameItem
<1>16. /\ r.pc \notin {"idle", "starting"} => r.key \in Keys
       /\ r.pc = "replace" => r.own = 1
       /\ r.own # 0 => r.own = 1 /\ r.pc \in {"unlink", "replace"}
  BY <1>3, <1>4 DEF WorkerOK
<1>17. th'[w] = r
  BY <1>2, <1>4
<1> QED BY ONLY <1>17, <1>8, <1>9, <1>10, <1>11, <1>12, <1>13, <1>14, <1>15, <1>16
        DEF WorkerOK, Owns, New

LEMMA EvalKept ==
    ASSUME IInv, NEW t \in Threads, NEW x, Frame(x, t), t # Crawler
    PROVE  EvalOK'
<1>1. EvalOK /\ Crawler \in Threads
  BY DEF IInv, ThreadsOK, Threads
<1>2. (c'.pc = "eval" <=> c.pc = "eval") /\ c'.it = c.it
  BY DEF Frame
<1>3. PICK y : y = c.it
  OBVIOUS
<1>4. ASSUME c.pc = "eval"
      PROVE  y \in Items /\ Owns(Crawler, y)' /\ "LINKED" \in item'[y].flags
  <2>1. y \in Items /\ Owns(Crawler, y) /\ "LINKED" \in item[y].flags
    BY <1>1, <1>3, <1>4 DEF EvalOK
  <2>2. Rel(Crawler, y)
    BY <1>3, <1>4 DEF Rel, Hld, Evals
  <2>3. SameItem(y)
    BY <1>1, <2>1, <2>2, Kept
  <2>4. Owns(Crawler, y)'
    BY <1>1, <2>1, <2>3, OwnsKept
  <2> QED BY <2>1, <2>3, <2>4 DEF SameItem
<1> QED BY <1>2, <1>3, <1>4 DEF EvalOK, Owns

\* The other items: their references and their places.
LEMMA OtherItem ==
    ASSUME IInv, MaintainerOK', NEW t \in Threads, NEW x, Frame(x, t), NEW y \in Items \ {x}
    PROVE  ItemOK(y)' /\ Exact(y)' /\ Place(y)' = Place(y)
<1>1. \A u \in Threads : SameRel(u, y)
  BY OthersSame DEF Frame
<1>2. MaintainerOK
  BY DEF IInv, ThreadsOK
<1>3. /\ Unlinking(y)' <=> \E u \in Threads : Unl(u, y)'
      /\ Linking(y)' <=> \E u \in Threads : Lnk(u, y)'
      /\ Moving(y)' <=> \E u \in Threads : Mov(u, y)'
      /\ Holders(y)' = {u \in Threads : Hld(u, y)'}
  BY RelsAreNext DEF RelsAre
<1>4. /\ Unlinking(y) <=> \E u \in Threads : Unl(u, y)
      /\ Linking(y) <=> \E u \in Threads : Lnk(u, y)
      /\ Moving(y) <=> \E u \in Threads : Mov(u, y)
      /\ Holders(y) = {u \in Threads : Hld(u, y)}
  BY <1>2, RelsAreNow DEF RelsAre
<1>5. /\ Unlinking(y)' <=> Unlinking(y)
      /\ Linking(y)' <=> Linking(y)
      /\ Moving(y)' <=> Moving(y)
  BY <1>1, <1>3, <1>4 DEF SameRel
<1>6. Holders(y)' = Holders(y)
  BY <1>1, <1>3, <1>4 DEF SameRel
<1>7. item'[y] = item[y] /\ held'[y] = held[y] /\ Bumps(y)' = Bumps(y)
  BY DEF Frame
<1>8. Exact(y)'
  <2>1. Exact(y)
    BY DEF IInv
  <2>2. LinkRef(y)' = LinkRef(y)
    BY <1>5, <1>7 DEF LinkRef
  <2> QED BY <2>1, <2>2, <1>6, <1>7 DEF Exact
<1>9. Place(y)' = Place(y)
  BY <1>5, <1>7 DEF Place
<1>10. ItemOK(y)'
  <2>1. ItemOK(y)
    BY DEF IInv
  <2>2. ASSUME "LINKED" \in item[y].flags PROVE table'[item[y].key] = y
    <3>1. item[y].ref # 0
      BY <2>1, <2>2 DEF ItemOK, Free
    <3>2. item[y].key \in Keys /\ table[item[y].key] = y
      BY <2>1, <2>2, <3>1 DEF ItemOK
    <3>3. y # None /\ y # x
      BY Constants DEF Nodes
    <3> QED BY <3>2, <3>3 DEF Frame
  <2> QED BY <1>7, <2>1, <2>2 DEF ItemOK
<1> QED BY <1>8, <1>9, <1>10

LEMMA OtherTable ==
    ASSUME IInv, NEW t \in Threads, NEW x, Frame(x, t), NEW k \in Keys, table'[k] # x
    PROVE  TableOK(k)'
<1>1. CASE table'[k] = table[k]
  <2>1. TableOK(k)
    BY DEF IInv
  <2>2. table'[k] # None => table'[k] \in Items /\ item'[table'[k]] = item[table'[k]]
    BY <1>1, <2>1 DEF Frame, TableOK
  <2> QED BY <1>1, <2>1, <2>2 DEF TableOK
<1>2. CASE table'[k] # table[k]
  <2>1. table'[k] = None
    BY <1>2 DEF Frame
  <2> QED BY <2>1 DEF TableOK
<1> QED BY <1>1, <1>2

\* The place of an item that t moves is in a list that nobody else has.
PlaceKept(x, t) ==
    \A l \in Lrus : Place(x) = l /\ lru_lock[l] \notin {None, t} => Place(x)' = l

LEMMA PullerKept ==
    ASSUME IInv, MaintainerOK', NEW t \in Threads, NEW x, Frame(x, t),
           x \in Items => PlaceKept(x, t), NEW u \in Pullers, u # t
    PROVE  PullerOK(u)'
<1>1. u \in Threads \ {t} /\ u # None
  BY Constants DEF Threads
<1>2. th'[u] = th[u]
  BY DEF Frame
<1>3. PullerOK(u)
  BY DEF IInv, ThreadsOK
<1>4. PICK r : r = th[u]
  OBVIOUS
<1>5. ASSUME r.pc = "walk"
      PROVE  /\ r.lru \in Lrus /\ lru_lock'[r.lru] = u
             /\ r.search = None \/ Member(Places', enabled', r.search, r.lru)
  <2>1. PICK l, y : l = r.lru /\ y = r.search
    OBVIOUS
  <2>2. l \in Lrus /\ lru_lock[l] = u /\ (y = None \/ Member(Places, enabled, y, l))
    BY <1>3, <1>4, <1>5, <2>1 DEF PullerOK
  <2>3. lru_lock'[l] = u /\ (l \in enabled => l \in enabled')
    BY <1>1, <2>2 DEF Frame
  <2>4. ASSUME y \in Items, Place(y) = l PROVE Place(y)' = l
    <3>1. CASE y = x
      BY <2>2, <2>4, <3>1, <1>1 DEF PlaceKept
    <3>2. CASE y # x
      BY <2>4, <3>2, OtherItem
    <3> QED BY <3>1, <3>2
  <2>5. \A z \in Items : Places[z] = Place(z) /\ Places'[z] = Place(z)'
    BY DEF Places
  <2>6. Member(Places, enabled, y, l) => Member(Places', enabled', y, l)
    BY <2>3, <2>4, <2>5 DEF Member
  <2> QED BY <2>1, <2>2, <2>3, <2>6
<1>6. ASSUME r.pc = "pulled"
      PROVE  /\ r.it \in Items /\ Owns(u, r.it)' /\ r.move \in Lrus \cup {None}
             /\ r.move # None => "LINKED" \in item'[r.it].flags
  <2>1. /\ r.it \in Items /\ Owns(u, r.it) /\ r.move \in Lrus \cup {None}
        /\ r.move # None => "LINKED" \in item[r.it].flags
    BY <1>3, <1>4, <1>6 DEF PullerOK
  <2>2. Rel(u, r.it)
    BY <1>4, <1>6 DEF Rel, Hld, HldR
  <2>3. SameItem(r.it)
    BY <1>1, <2>1, <2>2, Kept
  <2>4. Owns(u, r.it)'
    BY <1>1, <2>1, <2>3, OwnsKept
  <2> QED BY <2>1, <2>3, <2>4 DEF SameItem
<1> QED BY <1>2, <1>4, <1>5, <1>6 DEF PullerOK, Owns

\* What is left to show of a step.
LEMMA Preserved ==
    ASSUME IInv, Types', NEW t \in Threads, NEW x, Frame(x, t),
           t \in Workers => WorkerOK(t)', t \in Pullers => PullerOK(t)',
           t = Maintainer => MaintainerOK', t = Crawler => EvalOK', StartingOK',
           x \in Items => PlaceKept(x, t) /\ ItemOK(x)' /\ Exact(x)',
           \A k \in Keys : x \in Items /\ table'[k] = x => TableOK(k)',
           \A w \in Workers : BufferOK(buf'[w]),
           Good(q', Places', enabled', remaining')
    PROVE  IInv'
<1>1. MaintainerOK'
  BY MaintainerKept
<1>2. \A w \in Workers : WorkerOK(w)'
  BY WorkerKept
<1>3. \A u \in Pullers : PullerOK(u)'
  BY <1>1, PullerKept
<1>4. EvalOK'
  BY EvalKept
<1>5. ThreadsOK'
  BY <1>1, <1>2, <1>3, <1>4 DEF ThreadsOK
<1>6. \A y \in Items : ItemOK(y)' /\ Exact(y)'
  BY <1>1, OtherItem
<1>7. \A k \in Keys : TableOK(k)'
  <2>1. ASSUME NEW k \in Keys, table'[k] = x, x \notin Items PROVE TableOK(k)'
    <3>1. table'[k] \in Items \cup {None}
      BY DEF Types
    <3> QED BY <2>1, <3>1 DEF TableOK
  <2> QED BY <2>1, OtherTable
<1>8. ListsInv'
  BY DEF ListsInv
<1> QED BY <1>5, <1>6, <1>7, <1>8 DEF IInv

-----------------------------------------------------------------------------
(* The item that a step touches.                                           *)

\* Which item t alone has to do with: its lock is free or is t's, and it is
\* not one that another worker has yet to store.
LEMMA NewHeld ==
    ASSUME IInv, NEW w \in Workers, NEW x \in Items, th[w].pc = "store", th[w].it = x
    PROVE  /\ "LINKED" \notin item[x].flags /\ held[x] = 0 /\ Bumps(x) = {}
           /\ \A u \in Threads \ {w} : ~Hld(u, x)
           /\ \A u \in Threads : ~Unl(u, x)
<1>1. MaintainerOK /\ WorkerOK(w) /\ w \in Threads /\ w \in Pullers
  BY Constants DEF IInv, ThreadsOK, Threads
<1>2. item[x].ref = 1 /\ "LINKED" \notin item[x].flags
  BY <1>1 DEF WorkerOK, New
<1>3. Hld(w, x)
  BY <1>1 DEF Hld, HldR
<1>4. Holders(x) = {u \in Threads : Hld(u, x)}
  BY <1>1, RelsAreNow DEF RelsAre
<1>5. item[x].ref = LinkRef(x) + held[x] + Cardinality(Holders(x)) + Cardinality(Bumps(x))
  BY DEF IInv, Exact
<1>6. held[x] \in Nat
  BY DEF IInv, Types
<1>7. IsFiniteSet(Holders(x) \ {w}) /\ Cardinality(Holders(x)) = Cardinality(Holders(x) \ {w}) + 1
      /\ Cardinality(Holders(x) \ {w}) \in Nat
  <2>1. PICK H : H = Holders(x)
    OBVIOUS
  <2>2. IsFiniteSet(H) /\ w \in H /\ Cardinality(H) \in Nat
    BY <2>1, <1>1, <1>3, <1>4, Counts
  <2>3. IsFiniteSet(H \ {w}) /\ Cardinality(H \ {w}) = Cardinality(H) - 1
    BY ONLY <2>2, CardDel
  <2>4. Cardinality(H \ {w}) \in Nat
    BY ONLY <2>3, FS_CardinalityType
  <2> QED BY ONLY <2>1, <2>2, <2>3, <2>4
<1>8. LinkRef(x) = 0 /\ held[x] = 0 /\ Cardinality(Holders(x) \ {w}) = 0 /\ Cardinality(Bumps(x)) = 0
  BY ONLY <1>2, <1>5, <1>6, <1>7, Counts, x \in Items
<1>9. Holders(x) \ {w} = {} /\ Bumps(x) = {}
  BY <1>7, <1>8, Counts, FS_EmptySet
<1>10. \A u \in Threads : ~Unl(u, x)
  <2>1. ~Linking(x)
    BY <1>2 DEF Linking, IInv, ThreadsOK, WorkerOK
  <2>2. ~Unlinking(x)
    BY <1>8, <2>1 DEF LinkRef
  <2> QED BY <1>1, <2>2, RelsAreNow DEF RelsAre
<1> QED BY <1>2, <1>4, <1>8, <1>9, <1>10

LEMMA AloneWhen ==
    ASSUME IInv, NEW t \in Threads, NEW x \in Items, lock[item[x].key] \in {None, t},
           \/ "LINKED" \in item[x].flags
           \/ held[x] > 0
           \/ Bumps(x) # {}
           \/ Unl(t, x)
           \/ Hld(t, x)
    PROVE  Alone(x, t)
<1> SUFFICES ASSUME NEW u \in Threads \ {t}, Rel(u, x) PROVE FALSE
  BY DEF Alone
<1>1. u # None /\ u \in Threads
  BY Constants DEF Threads
<1>2. ~Owns(u, x)
  BY <1>1 DEF Owns
<1>3. CASE u \in Workers
  <2>1. WorkerOK(u) /\ u # Maintainer /\ u # Crawler /\ u \in Pullers
    BY <1>3, Constants DEF IInv, ThreadsOK
  <2>2. PullerOK(u)
    BY <2>1 DEF IInv, ThreadsOK
  <2>3. UnlR(th[u], x) \/ LnkR(th[u], x) \/ MovR(th[u], x) \/ HldR(th[u], x)
    BY <1>3, <2>1 DEF Rel, Unl, Lnk, Mov, Hld
  <2>4. ~(th[u].pc \in {"unlink", "replace", "linked", "pulled"} /\ th[u].it = x)
    BY <1>2, <2>1, <2>2 DEF WorkerOK, PullerOK
  <2>5. ~(th[u].pc = "link" /\ th[u].it = x)
    BY <1>1, <2>1 DEF WorkerOK, New
  <2>6. ~(th[u].pc = "replace" /\ th[u].search = x)
    BY <1>1, <2>1 DEF WorkerOK, New, Owns
  <2>7. th[u].own = 1 => th[u].pc \in {"unlink", "replace"}
    BY <2>1 DEF WorkerOK
  <2>8. th[u].pc = "store" /\ th[u].it = x
    BY <2>3, <2>4, <2>5, <2>6, <2>7 DEF UnlR, LnkR, MovR, HldR
  <2>9. /\ "LINKED" \notin item[x].flags /\ held[x] = 0 /\ Bumps(x) = {} /\ ~Hld(t, x) /\ ~Unl(t, x)
    BY <1>3, <2>8, NewHeld
  <2> QED BY <2>9
<1>4. CASE u = Maintainer
  <2>1. MaintainerOK /\ PullerOK(u) /\ Maintainer \notin Workers /\ Maintainer # Crawler
    BY <1>4, Constants DEF IInv, ThreadsOK
  <2>2. MovR(th[u], x) \/ HldR(th[u], x) \/ Bumped(x)
    BY <1>4, <2>1 DEF Rel, Unl, Lnk, Mov, Hld
  <2>3. ~(th[u].pc = "pulled" /\ th[u].it = x)
    BY <1>2, <2>1 DEF PullerOK
  <2>4. ~Bumped(x)
    BY <1>2, <1>4, <2>1 DEF MaintainerOK, Bumped
  <2> QED BY <1>4, <2>1, <2>2, <2>3, <2>4 DEF MovR, HldR, MaintainerOK
<1>5. CASE u = Crawler
  <2>1. Crawler \notin Pullers /\ Crawler \notin Workers /\ Crawler # Maintainer
    BY Constants
  <2>2. Evals(x) /\ EvalOK
    BY <1>5, <2>1 DEF Rel, Unl, Lnk, Mov, Hld, IInv, ThreadsOK
  <2> QED BY <1>2, <1>5, <2>2 DEF Evals, EvalOK
<1> QED BY <1>3, <1>4, <1>5, Constants DEF Threads

\* Nobody has to do with a free chunk.
LEMMA FreeAlone ==
    ASSUME IInv, NEW x \in Items, item[x] = Free
    PROVE  \A u \in Threads : ~Rel(u, x)
<1>1. item[x].ref = 0 /\ item[x].key \notin Keys /\ "LINKED" \notin item[x].flags
  BY Constants DEF Free
<1> SUFFICES ASSUME NEW u \in Threads, Rel(u, x) PROVE FALSE
  OBVIOUS
<1>2. ~Owns(u, x)
  BY <1>1 DEF Owns
<1>3. CASE u \in Workers
  <2>1. WorkerOK(u) /\ u # Maintainer /\ u # Crawler /\ u \in Pullers
    BY <1>3, Constants DEF IInv, ThreadsOK
  <2>2. PullerOK(u)
    BY <2>1 DEF IInv, ThreadsOK
  <2>3. UnlR(th[u], x) \/ LnkR(th[u], x) \/ MovR(th[u], x) \/ HldR(th[u], x)
    BY <1>3, <2>1 DEF Rel, Unl, Lnk, Mov, Hld
  <2> QED BY <1>1, <1>2, <2>1, <2>2, <2>3 DEF WorkerOK, PullerOK, New, UnlR, LnkR, MovR, HldR
<1>4. CASE u = Maintainer
  <2>1. MaintainerOK /\ PullerOK(u) /\ Maintainer \notin Workers /\ Maintainer # Crawler
    BY <1>4, Constants DEF IInv, ThreadsOK
  <2>2. MovR(th[u], x) \/ HldR(th[u], x) \/ Bumped(x)
    BY <1>4, <2>1 DEF Rel, Unl, Lnk, Mov, Hld
  <2> QED BY <1>2, <1>4, <2>1, <2>2 DEF MovR, HldR, MaintainerOK, PullerOK, Bumped
<1>5. CASE u = Crawler
  <2>1. Crawler \notin Pullers /\ Crawler \notin Workers /\ Crawler # Maintainer
    BY Constants
  <2>2. Evals(x) /\ EvalOK
    BY <1>5, <2>1 DEF Rel, Unl, Lnk, Mov, Hld, IInv, ThreadsOK
  <2> QED BY <1>2, <1>5, <2>2 DEF Evals, EvalOK
<1> QED BY <1>3, <1>4, <1>5, Constants DEF Threads

\* The references and the place of an item that t alone has to do with.
LinkNum(fl, u, k) == IF ("LINKED" \in fl \/ u) /\ ~k THEN 1 ELSE 0
PlaceOf(fl, u, m, l) == IF ("LINKED" \in fl \/ u) /\ ~m THEN l ELSE None

LEMMA Touched ==
    ASSUME IInv, MaintainerOK', NEW t \in Threads, NEW x \in Items, Frame(x, t), Alone(x, t)
    PROVE  /\ item[x].ref = LinkNum(item[x].flags, Unl(t, x), Lnk(t, x)) + held[x]
                            + Num(Hld(t, x)) + Cardinality(Bumps(x))
           /\ item'[x].ref = LinkNum(item'[x].flags, Unl(t, x)', Lnk(t, x)') + held'[x]
                             + Num(Hld(t, x)') + Cardinality(Bumps(x)') => Exact(x)'
           /\ Place(x) = PlaceOf(item[x].flags, Unl(t, x), Mov(t, x), item[x].lru)
           /\ Place(x)' = PlaceOf(item'[x].flags, Unl(t, x)', Mov(t, x)', item'[x].lru)
<1>1. MaintainerOK /\ Exact(x)
  BY DEF IInv, ThreadsOK
<1>2. Alone(x, t)'
  BY OthersSame DEF Alone, Rel, SameRel
<1>3. /\ Unlinking(x) <=> Unl(t, x)
      /\ Linking(x) <=> Lnk(t, x)
      /\ Moving(x) <=> Mov(t, x)
      /\ Cardinality(Holders(x)) = Num(Hld(t, x))
  BY <1>1, AloneNow DEF AloneIs
<1>4. /\ Unlinking(x)' <=> Unl(t, x)'
      /\ Linking(x)' <=> Lnk(t, x)'
      /\ Moving(x)' <=> Mov(t, x)'
      /\ Cardinality(Holders(x))' = Num(Hld(t, x)')
  BY <1>2, AloneNext DEF AloneIs, Num
<1>5. item[x].ref = LinkNum(item[x].flags, Unl(t, x), Lnk(t, x)) + held[x]
                            + Num(Hld(t, x)) + Cardinality(Bumps(x))
  BY <1>1, <1>3 DEF Exact, LinkRef, LinkNum
<1>6. LinkRef(x)' = LinkNum(item'[x].flags, Unl(t, x)', Lnk(t, x)')
  BY <1>4 DEF LinkRef, LinkNum
<1>7. item'[x].ref = LinkNum(item'[x].flags, Unl(t, x)', Lnk(t, x)') + held'[x]
                             + Num(Hld(t, x)') + Cardinality(Bumps(x)') => Exact(x)'
  BY <1>4, <1>6 DEF Exact
<1>8. Place(x) = PlaceOf(item[x].flags, Unl(t, x), Mov(t, x), item[x].lru)
  BY <1>3 DEF Place, PlaceOf
<1>9. Place(x)' = PlaceOf(item'[x].flags, Unl(t, x)', Mov(t, x)', item'[x].lru)
  BY <1>4 DEF Place, PlaceOf
<1> QED BY <1>5, <1>7, <1>8, <1>9

LEMMA PlacesStep ==
    ASSUME IInv, MaintainerOK', NEW t \in Threads, NEW x, Frame(x, t)
    PROVE  /\ x \notin Items => Places' = Places
           /\ x \in Items => Places' = [Places EXCEPT ![x] = Place(x)']
<1>1. \A y \in Items : y # x => Place(y)' = Place(y)
  BY OtherItem
<1> QED BY <1>1 DEF Places

LEMMA PlacesAre ==
    ASSUME IInv
    PROVE  /\ IsPlaces(Places) /\ \A x \in Items : Places[x] = Place(x)
           /\ \A x \in Items : Place(x) \in {None, item[x].lru}
<1>1. \A x \in Items : item[x].lru \in Lrus
  BY DEF IInv, Types, ItemRecords
<1> QED BY <1>1 DEF Places, Place, IsPlaces

\* A step of a worker, or of the maintainer when it is not at the buffers.
LEMMA RelRecords ==
    ASSUME NEW t \in Pullers, NEW y
    PROVE  /\ Hld(t, y) <=> HldR(th[t], y)
           /\ t \in Workers => /\ Unl(t, y) <=> UnlR(th[t], y)
                               /\ Lnk(t, y) <=> LnkR(th[t], y)
                               /\ Mov(t, y) <=> MovR(th[t], y)
           /\ t = Maintainer => /\ ~Unl(t, y) /\ ~Lnk(t, y)
                                /\ Mov(t, y) <=> MovR(th[t], y) \/ Bumped(y)
BY Constants DEF Unl, Lnk, Mov, Hld

LEMMA RelRecordsNext ==
    ASSUME NEW t \in Pullers, NEW y
    PROVE  /\ Hld(t, y)' <=> HldR(th'[t], y)
           /\ t \in Workers => /\ Unl(t, y)' <=> UnlR(th'[t], y)
                               /\ Lnk(t, y)' <=> LnkR(th'[t], y)
                               /\ Mov(t, y)' <=> MovR(th'[t], y)
           /\ t = Maintainer => /\ ~Unl(t, y)' /\ ~Lnk(t, y)'
                                /\ Mov(t, y)' <=> MovR(th'[t], y) \/ Bumped(y)'
BY Constants DEF Unl, Lnk, Mov, Hld

SameRec(r, s, y) == /\ UnlR(s, y) <=> UnlR(r, y)
                    /\ LnkR(s, y) <=> LnkR(r, y)
                    /\ MovR(s, y) <=> MovR(r, y)
                    /\ HldR(s, y) <=> HldR(r, y)
Away(r) == r.pc \notin {"bump", "bumped"}

LEMMA BumpsSame ==
    ASSUME NEW y, buf' = buf,
           \/ th'[Maintainer] = th[Maintainer]
           \/ Away(th[Maintainer]) /\ Away(th'[Maintainer])
    PROVE  Bumps(y)' = Bumps(y)
BY DEF Bumps, Away

LEMMA FrameOf ==
    ASSUME NEW t \in Pullers, NEW x,
           \A u \in Pullers \ {t} : th'[u] = th[u],
           \A y \in Items \ {x} : item'[y] = item[y] /\ held'[y] = held[y],
           \A y \in Items \ {x} : SameRec(th[t], th'[t], y),
           buf' = buf, t = Maintainer => Away(th[t]) /\ Away(th'[t]),
           (c'.pc = "eval" <=> c.pc = "eval") /\ c'.it = c.it,
           \A k \in Keys : lock[k] \notin {None, t} => lock'[k] = lock[k] /\ table'[k] = table[k],
           \A k \in Keys : table'[k] = table[k] \/ {table[k], table'[k]} \subseteq {None, x},
           \A l \in Lrus : lru_lock[l] \notin {None, t} =>
             lru_lock'[l] = lru_lock[l] /\ (l \in enabled => l \in enabled'),
           \A w \in Workers : buf[w].a_end \in Nat,
           x \in Items => Alone(x, t) \/ SameItem(x)
    PROVE  Frame(x, t)
<1>1. \A y : Bumps(y)' = Bumps(y)
  BY BumpsSame, Constants
<1>2. ASSUME NEW y \in Items \ {x}
      PROVE  SameRel(t, y)
  <2>1. Bumped(y)' <=> Bumped(y)
    <3>1. t = Maintainer => ~Bumped(y) /\ ~Bumped(y)'
      BY DEF Bumped, Away
    <3>2. ASSUME t # Maintainer PROVE Bumped(y)' <=> Bumped(y)
      <4>1. th'[Maintainer] = th[Maintainer]
        BY <3>2, Constants
      <4> QED BY <4>1 DEF Bumped, Entry
    <3> QED BY <3>1, <3>2
  <2>2. SameRec(th[t], th'[t], y)
    OBVIOUS
  <2> QED BY <2>1, <2>2, RelRecords, RelRecordsNext, Constants DEF SameRel, SameRec
<1>3. \A w \in Workers : /\ buf'[w].a_start = buf[w].a_start /\ buf[w].a_end <= buf'[w].a_end
                         /\ \A i \in buf[w].a_start .. buf[w].a_end - 1 :
                              buf'[w].data[i] = buf[w].data[i]
  OBVIOUS
<1>4. t # Crawler
  BY Constants
<1> QED BY <1>1, <1>2, <1>3 DEF Frame

-----------------------------------------------------------------------------
(* The types of a step.                                                    *)

LEMMA ItemFields ==
    ASSUME IInv, NEW x \in Items
    PROVE  /\ item[x].key \in Keys \cup {None} /\ item[x].lru \in Lrus
           /\ item[x].flags \in FlagSets
           /\ item[x].ref \in Nat /\ item[x].expired \in BOOLEAN /\ item[x] \in ItemRecords
           /\ held[x] \in Nat /\ DOMAIN item = Items /\ x # None
BY Constants DEF IInv, Types, ItemRecords, Nodes

LEMMA ItemTyped ==
    ASSUME IInv, NEW x \in Items, NEW r, r \in ItemRecords, item' = [item EXCEPT ![x] = r]
    PROVE  /\ item' \in [Items -> ItemRecords] /\ item'[x] = r
           /\ \A y \in Items \ {x} : item'[y] = item[y]
BY DEF IInv, Types

LEMMA HeldTyped ==
    ASSUME IInv, NEW x \in Items, NEW n \in Nat, held' = [held EXCEPT ![x] = n]
    PROVE  /\ held' \in [Items -> Nat] /\ held'[x] = n
           /\ \A y \in Items \ {x} : held'[y] = held[y]
BY DEF IInv, Types

ThreadsTyped == /\ DOMAIN th = Pullers /\ th = [t \in Pullers |-> th[t]]
                /\ \A t \in Pullers : IsThread(th[t])

LEMMA ThreadTyped ==
    ASSUME IInv, NEW t \in Pullers, NEW r, IsThread(r), th' = [th EXCEPT ![t] = r]
    PROVE  /\ ThreadsTyped' /\ th'[t] = r
           /\ \A u \in Pullers \ {t} : th'[u] = th[u]
<1>1. DOMAIN th = Pullers /\ th = [u \in Pullers |-> th[u]] /\ \A u \in Pullers : IsThread(th[u])
  BY DEF IInv, Types
<1>2. DOMAIN th' = Pullers /\ th' = [u \in Pullers |-> th'[u]] /\ th'[t] = r
      /\ \A u \in Pullers \ {t} : th'[u] = th[u]
  BY <1>1
<1>3. \A u \in Pullers : IsThread(th'[u])
  BY <1>1, <1>2
<1> QED BY <1>2, <1>3 DEF ThreadsTyped

LEMMA LockTyped ==
    ASSUME IInv, NEW k \in Keys, NEW t, t \in Threads \/ t = None, lock' = [lock EXCEPT ![k] = t]
    PROVE  /\ lock' \in [Keys -> Workers \cup {Maintainer, Crawler, None}] /\ lock'[k] = t
           /\ \A j \in Keys \ {k} : lock'[j] = lock[j]
<1>1. t \in Workers \cup {Maintainer, Crawler, None}
  BY Constants DEF Threads
<1> QED BY <1>1 DEF IInv, Types

LEMMA TableTyped ==
    ASSUME IInv, NEW k \in Keys, NEW x, x \in Items \/ x = None, table' = [table EXCEPT ![k] = x]
    PROVE  /\ table' \in [Keys -> Items \cup {None}] /\ table'[k] = x
           /\ \A j \in Keys \ {k} : table'[j] = table[j]
<1>1. x \in Items \cup {None}
  OBVIOUS
<1> QED BY <1>1 DEF IInv, Types

LEMMA LruLockTyped ==
    ASSUME IInv, NEW l \in Lrus, NEW t, t \in Pullers \/ t = None,
           lru_lock' = [lru_lock EXCEPT ![l] = t]
    PROVE  /\ lru_lock' \in [Lrus -> Pullers \cup {None}] /\ lru_lock'[l] = t
           /\ \A j \in Lrus \ {l} : lru_lock'[j] = lru_lock[j]
<1>1. t \in Pullers \cup {None}
  OBVIOUS
<1> QED BY <1>1 DEF IInv, Types

IsItem(r) == r = [key |-> r.key, lru |-> r.lru, flags |-> r.flags, ref |-> r.ref,
                  expired |-> r.expired]

LEMMA RecordFields ==
    ASSUME NEW r, r \in ItemRecords
    PROVE  /\ IsItem(r) /\ r.key \in Keys \cup {None} /\ r.lru \in Lrus
           /\ r.flags \in FlagSets /\ r.ref \in Nat
           /\ r.expired \in BOOLEAN
<1>1. /\ IsItem(r) /\ r.key \in Keys \cup {None} /\ r.lru \in Lrus
      /\ r.flags \in FlagSets /\ r.ref \in Nat
  BY DEF ItemRecords, IsItem
<1>2. r.expired \in BOOLEAN
  BY Zenon DEF ItemRecords
<1> QED BY <1>1, <1>2

LEMMA Flagged ==
    ASSUME NEW f, f \in FlagSets
    PROVE  /\ f \ {"LINKED"} \in FlagSets /\ f \ {"ACTIVE"} \in FlagSets
           /\ f \cup {"LINKED"} \in FlagSets /\ f \cup {"ACTIVE"} \in FlagSets
           /\ f \cup {"FETCHED"} \in FlagSets /\ {} \in FlagSets
BY DEF FlagSets

\* Item p with other flags, another list and another count.
Rec(p, l, fl, n) == [key |-> p.key, lru |-> l, flags |-> fl, ref |-> n, expired |-> p.expired]

LEMMA RecOther ==
    ASSUME NEW p, IsItem(p), NEW fl, NEW n
    PROVE  [p EXCEPT !.flags = fl, !.ref = n] = Rec(p, p.lru, fl, n)
<1>1. PICK k, l, f, m, e : k = p.key /\ l = p.lru /\ f = p.flags /\ m = p.ref /\ e = p.expired
  OBVIOUS
<1>2. p = [key |-> k, lru |-> l, flags |-> f, ref |-> m, expired |-> e]
  BY <1>1 DEF IsItem
<1>3. Rec(p, p.lru, fl, n) = [key |-> k, lru |-> l, flags |-> fl, ref |-> n, expired |-> e]
  BY ONLY <1>1 DEF Rec
<1>4. PICK s : s = [p EXCEPT !.flags = fl, !.ref = n]
  OBVIOUS
<1>5. s = [key |-> k, lru |-> l, flags |-> fl, ref |-> n, expired |-> e]
  BY ONLY <1>2, <1>4
<1> QED BY <1>3, <1>4, <1>5

LEMMA RecOK ==
    ASSUME NEW p, NEW l, NEW fl, NEW n, p \in ItemRecords, l \in Lrus,
           fl \in FlagSets, n \in Nat
    PROVE  /\ Rec(p, l, fl, n) \in ItemRecords /\ Rec(p, l, fl, n).key = p.key
           /\ Rec(p, l, fl, n).lru = l /\ Rec(p, l, fl, n).flags = fl /\ Rec(p, l, fl, n).ref = n
<1>1. PICK k, e : k = p.key /\ e = p.expired
  OBVIOUS
<1>2. k \in Keys \cup {None} /\ e \in BOOLEAN
  BY <1>1, RecordFields
<1>3. PICK s : s = [key |-> k, lru |-> l, flags |-> fl, ref |-> n, expired |-> e]
  OBVIOUS
<1>4. s \in ItemRecords
  BY ONLY <1>2, <1>3, l \in Lrus, fl \in FlagSets, n \in Nat
     DEF ItemRecords
<1>5. Rec(p, l, fl, n) = s
  BY ONLY <1>1, <1>3 DEF Rec
<1> QED BY ONLY <1>1, <1>3, <1>4, <1>5

\* What the operations on a reference count and on the flags make of an item.
LEMMA RecTwice ==
    ASSUME NEW p, NEW l, NEW fl, NEW n, NEW m, NEW gl, NEW j
    PROVE  Rec(Rec(p, l, fl, n), m, gl, j) = Rec(p, m, gl, j)
<1>1. Rec(p, l, fl, n).key = p.key /\ Rec(p, l, fl, n).expired = p.expired
  BY DEF Rec
<1> QED BY ONLY <1>1 DEF Rec

LEMMA Updates ==
    ASSUME NEW p, IsItem(p), p.ref \in Nat
    PROVE  /\ MarkUnlinked(p) = Rec(p, p.lru, p.flags \ {"LINKED"}, p.ref)
           /\ MarkActive(p) = Rec(p, p.lru, p.flags \cup {"ACTIVE"}, p.ref)
           /\ MarkInactive(p) = Rec(p, p.lru, p.flags \ {"ACTIVE"}, p.ref)
           /\ do_item_remove(p) = IF p.ref = 1 THEN Free ELSE Rec(p, p.lru, p.flags, p.ref - 1)
<1>1. PICK k, l, f, m, e : k = p.key /\ l = p.lru /\ f = p.flags /\ m = p.ref /\ e = p.expired
  OBVIOUS
<1>2. p = [key |-> k, lru |-> l, flags |-> f, ref |-> m, expired |-> e]
  BY <1>1 DEF IsItem
<1>3. ASSUME NEW g, NEW n
      PROVE  Rec(p, p.lru, g, n) = [key |-> k, lru |-> l, flags |-> g, ref |-> n, expired |-> e]
  BY ONLY <1>1 DEF Rec
<1>4. ASSUME NEW n
      PROVE  [p EXCEPT !.ref = n] = Rec(p, p.lru, f, n)
  <2>1. PICK s : s = [p EXCEPT !.ref = n]
    OBVIOUS
  <2>2. s = [key |-> k, lru |-> l, flags |-> f, ref |-> n, expired |-> e]
    BY ONLY <1>2, <2>1
  <2> QED BY ONLY <1>3, <2>1, <2>2
<1>5. ASSUME NEW g
      PROVE  [p EXCEPT !.flags = g] = Rec(p, p.lru, g, m)
  <2>1. PICK s : s = [p EXCEPT !.flags = g]
    OBVIOUS
  <2>2. s = [key |-> k, lru |-> l, flags |-> g, ref |-> m, expired |-> e]
    BY ONLY <1>2, <2>1
  <2> QED BY ONLY <1>3, <2>1, <2>2
<1>7. MarkUnlinked(p) = Rec(p, p.lru, f \ {"LINKED"}, m)
  BY ONLY <1>5, <1>1 DEF MarkUnlinked
<1>8. MarkActive(p) = Rec(p, p.lru, f \cup {"ACTIVE"}, m)
  BY ONLY <1>5, <1>1 DEF MarkActive
<1>9. MarkInactive(p) = Rec(p, p.lru, f \ {"ACTIVE"}, m)
  BY ONLY <1>5, <1>1 DEF MarkInactive
<1>10. [p EXCEPT !.ref = p.ref - 1] = Rec(p, p.lru, f, m - 1)
  BY ONLY <1>4, <1>1
<1>11. do_item_remove(p) = IF p.ref = 1 THEN Free ELSE Rec(p, p.lru, f, m - 1)
  BY ONLY <1>10 DEF do_item_remove
<1> QED BY ONLY <1>1, <1>7, <1>8, <1>9, <1>11

LEMMA Incremented ==
    ASSUME NEW p, IsItem(p), p.ref \in Nat, NEW l, NEW fl, NEW n, NEW m, m = n + 1, n \in Nat,
           NEW o, p = Rec(o, l, fl, n)
    PROVE  refcount_incr(p) = Rec(o, l, fl, m)
<1>1. p.lru = l /\ p.flags = fl /\ p.ref = n
  BY ONLY p = Rec(o, l, fl, n) DEF Rec
<1>2. PICK e, k : e = o.expired /\ k = o.key
  OBVIOUS
<1>3. p = [key |-> k, lru |-> l, flags |-> fl, ref |-> n, expired |-> e]
  BY ONLY <1>2, p = Rec(o, l, fl, n) DEF Rec
<1>4. PICK s : s = [p EXCEPT !.ref = m]
  OBVIOUS
<1>5. s = [key |-> k, lru |-> l, flags |-> fl, ref |-> m, expired |-> e]
  BY ONLY <1>3, <1>4
<1>6. Rec(o, l, fl, m) = [key |-> k, lru |-> l, flags |-> fl, ref |-> m, expired |-> e]
  BY ONLY <1>2 DEF Rec
<1>7. refcount_incr(p) = [p EXCEPT !.ref = m]
  BY ONLY <1>1, m = n + 1 DEF refcount_incr
<1> QED BY ONLY <1>4, <1>5, <1>6, <1>7

LEMMA RecIs ==
    ASSUME NEW p, IsItem(p)
    PROVE  p = Rec(p, p.lru, p.flags, p.ref)
BY DEF IsItem, Rec

LEMMA RecItem ==
    ASSUME NEW p, NEW l, NEW fl, NEW n, n \in Nat
    PROVE  /\ IsItem(Rec(p, l, fl, n)) /\ Rec(p, l, fl, n).lru = l /\ Rec(p, l, fl, n).flags = fl
           /\ Rec(p, l, fl, n).ref = n /\ Rec(p, l, fl, n).ref \in Nat
<1>1. PICK r : r = Rec(p, l, fl, n)
  OBVIOUS
<1>2. IsItem(r) /\ r.lru = l /\ r.flags = fl /\ r.ref = n
  BY ONLY <1>1 DEF Rec, IsItem
<1> QED BY <1>1, <1>2

-----------------------------------------------------------------------------
(* Reading.                                                                *)

LEMMA PairsSame ==
    ASSUME NEW V, NEW J, NEW A, NEW B, \A e \in A \cup B : \E v \in V, j \in J : e = <<v, j>>,
           \A v \in V, j \in J : <<v, j>> \in B <=> <<v, j>> \in A
    PROVE  B = A
<1>1. ASSUME NEW e
      PROVE  e \in B <=> e \in A
  <2>1. CASE e \in A \cup B
    <3>1. PICK v \in V, j \in J : e = <<v, j>>
      BY <2>1
    <3> QED BY <3>1
  <2>2. CASE e \notin A \cup B
    BY <2>2
  <2> QED BY <2>1, <2>2
<1> QED BY ONLY <1>1

LEMMA BumpsPushed ==
    ASSUME IInv, NEW w \in Workers, NEW x \in Items, NEW i \in 0 .. BumpSize - 1,
           buf[w].data[i] = None, i \notin buf[w].a_start .. buf[w].a_end - 1,
           \A v \in Workers \ {w} : buf'[v] = buf[v],
           buf'[w].data = [buf[w].data EXCEPT ![i] = x], buf'[w].a_start = buf[w].a_start,
           th' = th
    PROVE  /\ \A y \in Items \ {x} : Bumps(y)' = Bumps(y)
           /\ Cardinality(Bumps(x)') = Cardinality(Bumps(x)) + 1
<1> DEFINE Done(e) == /\ th[Maintainer].pc \in {"bump", "bumped"} /\ th[Maintainer].buf = e[1]
                      /\ e[2] \in buf[e[1]].a_start .. th[Maintainer].at - 1
<1>1. ~Done(<<w, i>>)
  <2>1. PICK m, lo, hi : m = th[Maintainer] /\ lo = buf[w].a_start /\ hi = buf[w].a_end
    OBVIOUS
  <2>2. lo \in Nat /\ hi \in Nat
    BY <2>1, Buffers
  <2>3. ASSUME m.pc \in {"bump", "bumped"}, m.buf = w PROVE i \notin lo .. m.at - 1
    <3>1. m.size \in Nat /\ m.at \in Nat /\ lo <= m.at /\ m.at <= lo + m.size /\ lo + m.size <= hi
      BY <2>1, <2>3 DEF IInv, ThreadsOK, MaintainerOK
    <3>2. i \notin lo .. hi - 1
      BY <2>1
    <3> QED BY ONLY <2>2, <3>1, <3>2, i \in 0 .. BumpSize - 1, Size
  <2> QED BY <2>1, <2>3
<1>2. \A v \in Workers : buf'[v].a_start = buf[v].a_start
  OBVIOUS
<1>3. buf[w].data \in Slots
  BY Buffers
<1>4. /\ buf'[w].data[i] = x
      /\ \A j \in 0 .. BumpSize - 1 : j # i => buf'[w].data[j] = buf[w].data[j]
  BY <1>3 DEF Slots
<1>5. ASSUME NEW y, NEW v \in Workers, NEW j \in 0 .. BumpSize - 1
      PROVE  /\ <<v, j>> \in Bumps(y)' <=> buf'[v].data[j] = y /\ ~Done(<<v, j>>)
             /\ <<v, j>> \in Bumps(y) <=> buf[v].data[j] = y /\ ~Done(<<v, j>>)
  BY <1>2 DEF Bumps
<1>6. ASSUME NEW y
      PROVE  \A e \in Bumps(y) \cup Bumps(y)' : \E v \in Workers, j \in 0 .. BumpSize - 1 : e = <<v, j>>
  BY DEF Bumps
<1>7. x # None /\ \A y \in Items : y # None
  BY Constants DEF Nodes
<1>11. ASSUME NEW v \in Workers, NEW j \in 0 .. BumpSize - 1, ~(v = w /\ j = i)
       PROVE  buf'[v].data[j] = buf[v].data[j]
  <2>1. CASE v = w
    BY <1>4, <1>11, <2>1
  <2>2. CASE v # w
    BY <2>2
  <2> QED BY <2>1, <2>2
<1>8. ASSUME NEW y \in Items \ {x} PROVE Bumps(y)' = Bumps(y)
  <2>1. ASSUME NEW v \in Workers, NEW j \in 0 .. BumpSize - 1
        PROVE  <<v, j>> \in Bumps(y)' <=> <<v, j>> \in Bumps(y)
    <3>1. CASE v = w /\ j = i
      BY <3>1, <1>4, <1>5, <1>7
    <3>2. CASE ~(v = w /\ j = i)
      BY <3>2, <1>5, <1>11
    <3> QED BY <3>1, <3>2
  <2>2. \A e \in Bumps(y) \cup Bumps(y)' : \E v \in Workers, j \in 0 .. BumpSize - 1 : e = <<v, j>>
    BY <1>6
  <2> QED BY ONLY <2>1, <2>2, PairsSame
<1>9. Bumps(x)' = Bumps(x) \cup {<<w, i>>} /\ <<w, i>> \notin Bumps(x)
  <2>1. <<w, i>> \in Bumps(x)' /\ <<w, i>> \notin Bumps(x)
    BY <1>1, <1>4, <1>5, <1>7
  <2>2. ASSUME NEW v \in Workers, NEW j \in 0 .. BumpSize - 1, <<v, j>> # <<w, i>>
        PROVE  <<v, j>> \in Bumps(x)' <=> <<v, j>> \in Bumps(x)
    BY <2>2, <1>5, <1>11
  <2> QED BY <1>6, <2>1, <2>2
<1>10. Cardinality(Bumps(x)') = Cardinality(Bumps(x)) + 1
  <2>1. PICK B : B = Bumps(x)
    OBVIOUS
  <2>2. IsFiniteSet(B)
    BY <2>1, Counts
  <2>3. Cardinality(B \cup {<<w, i>>}) = Cardinality(B) + 1
    BY <1>9, <2>1, <2>2, CardAdd
  <2> QED BY <1>9, <2>1, <2>3
<1> QED BY <1>8, <1>10

\* One more reference, and another with an entry of a bump buffer.
Bumping(w, x, d) ==
    /\ d \in {0, 1}
    /\ buf' \in [Workers -> BufferRecords] /\ \A v \in Workers : BufferOK(buf'[v])
    /\ \A v \in Workers : /\ buf'[v].a_start = buf[v].a_start /\ buf[v].a_end <= buf'[v].a_end
                          /\ \A i \in buf[v].a_start .. buf[v].a_end - 1 :
                               buf'[v].data[i] = buf[v].data[i]
    /\ \A y \in Items \ {x} : Bumps(y)' = Bumps(y)
    /\ Cardinality(Bumps(x)') = Cardinality(Bumps(x)) + d

LEMMA NoBumping ==
    ASSUME IInv, NEW w \in Workers, NEW x \in Items, buf' = buf, th' = th
    PROVE  Bumping(w, x, 0)
<1>1. /\ buf' \in [Workers -> BufferRecords] /\ \A v \in Workers : BufferOK(buf'[v])
      /\ \A v \in Workers : buf[v].a_end \in Nat
  BY Buffers DEF IInv, Types
<1>2. \A y : Bumps(y)' = Bumps(y)
  BY BumpsSame
<1>3. Cardinality(Bumps(x)) \in Nat
  BY Counts
<1> QED BY <1>1, <1>2, <1>3 DEF Bumping

LEMMA PushBumping ==
    ASSUME IInv, NEW w \in Workers, NEW x \in Items, ~(bipbuf_unused(buf[w]) < 1), th' = th,
           buf' = [buf EXCEPT ![w] = bipbuf_push(buf[w], x)]
    PROVE  Bumping(w, x, 1)
<1>1. PICK b : b = bipbuf_push(buf[w], x)
  OBVIOUS
<1>2. PICK i \in 0 .. BumpSize - 1 :
        /\ buf[w].data[i] = None /\ i \notin buf[w].a_start .. buf[w].a_end - 1
        /\ IsBuffer(b) /\ b.data = [buf[w].data EXCEPT ![i] = x]
        /\ b.a_start = buf[w].a_start /\ buf[w].a_end <= b.a_end
  BY <1>1, Buffers, PushOK
<1>3. /\ buf \in [Workers -> BufferRecords] /\ \A v \in Workers : BufferOK(buf[v])
  BY DEF IInv, Types
<1>4. buf'[w] = b /\ \A v \in Workers \ {w} : buf'[v] = buf[v]
  BY <1>1, <1>3
<1>5. /\ buf' \in [Workers -> BufferRecords] /\ \A v \in Workers : BufferOK(buf'[v])
  <2>1. b \in BufferRecords /\ BufferOK(b)
    BY <1>2 DEF IsBuffer
  <2> QED BY <1>1, <1>3, <1>4, <2>1
<1>6. ASSUME NEW v \in Workers
      PROVE  /\ buf'[v].a_start = buf[v].a_start /\ buf[v].a_end <= buf'[v].a_end
             /\ \A j \in buf[v].a_start .. buf[v].a_end - 1 : buf'[v].data[j] = buf[v].data[j]
  <2>1. CASE v = w
    <3>1. /\ buf[w].data \in Slots /\ buf[w].a_start \in Nat /\ buf[w].a_end \in Nat
          /\ Regions(buf[w].a_start, buf[w].a_end, buf[w].b_end, buf[w].data)
      BY Buffers
    <3>2. \A j \in 0 .. BumpSize - 1 : j # i => b.data[j] = buf[w].data[j]
      BY <1>2, <3>1 DEF Slots
    <3>3. \A j \in buf[w].a_start .. buf[w].a_end - 1 : j \in 0 .. BumpSize - 1 /\ j # i
      BY <1>2, <3>1, Size DEF Regions
    <3>4. \A j \in buf[w].a_start .. buf[w].a_end - 1 : b.data[j] = buf[w].data[j]
      BY ONLY <3>2, <3>3
    <3> QED BY <2>1, <1>2, <1>4, <3>4
  <2>2. CASE v # w
    <3>1. buf'[v] = buf[v] /\ buf[v].a_end \in Nat
      BY <1>4, <2>2, Buffers
    <3> QED BY <3>1
  <2> QED BY <2>1, <2>2
<1>7. /\ \A y \in Items \ {x} : Bumps(y)' = Bumps(y)
      /\ Cardinality(Bumps(x)') = Cardinality(Bumps(x)) + 1
  BY <1>2, <1>4, BumpsPushed
<1> QED BY <1>5, <1>6, <1>7 DEF Bumping

LEMMA GetItem ==
    ASSUME IInv, NEW w \in Workers, NEW k \in Keys, do_item_get(w, k), NEW x, x = table[k]
    PROVE  /\ x \in Items /\ item[x].key = k /\ "LINKED" \in item[x].flags
           /\ \E fl, d :
                /\ item' = [item EXCEPT ![x] = Rec(item[x], item[x].lru, fl, item[x].ref + 1 + d)]
                /\ fl \in FlagSets /\ "LINKED" \in fl
                /\ Bumping(w, x, d)
<1>1. x \in Items /\ item[x].key = k /\ "LINKED" \in item[x].flags
  BY DEF do_item_get, IInv, TableOK
<1>2. th' = th
  BY DEF do_item_get
<1>3. PICK p : p = item[x]
  OBVIOUS
<1>4. /\ p.flags \in FlagSets /\ p.ref \in Nat /\ IsItem(p)
      /\ "LINKED" \in p.flags
  BY <1>1, <1>3, ItemFields, RecordFields
<1>5. ASSUME NEW fl, NEW n, n \in Nat,
             item' = [item EXCEPT ![x] = [p EXCEPT !.flags = fl, !.ref = n]]
      PROVE  item' = [item EXCEPT ![x] = Rec(p, p.lru, fl, n)]
  <2>1. [p EXCEPT !.flags = fl, !.ref = n] = Rec(p, p.lru, fl, n)
    BY ONLY <1>4, RecOther
  <2> QED BY ONLY <1>5, <2>1
<1>6. CASE "FETCHED" \in p.flags /\ "ACTIVE" \notin p.flags /\ p.lru = COLD
  <2>1. lru_bump_async(w, x)
    BY <1>3, <1>6 DEF do_item_get
  <2>2. CASE bipbuf_unused(buf[w]) < 1
    <3>1. item' = [item EXCEPT ![x] = refcount_incr(item[x])]
      BY ONLY <2>1, <2>2 DEF lru_bump_async
    <3>2. buf' = [buf EXCEPT ![w] = buf[w]]
      BY ONLY <2>1, <2>2 DEF lru_bump_async
    <3>3. buf' = buf
      BY <3>2 DEF IInv, Types
    <3>4. Bumping(w, x, 0)
      BY <1>1, <1>2, <3>3, NoBumping
    <3>5. refcount_incr(p) = Rec(p, p.lru, p.flags, p.ref + 1 + 0)
      <4>1. PICK n, m : n = p.ref /\ m = p.ref + 1 + 0
        OBVIOUS
      <4>2. n \in Nat /\ m = n + 1 /\ p = Rec(p, p.lru, p.flags, n)
        BY <1>4, <4>1, RecIs
      <4>3. refcount_incr(p) = Rec(p, p.lru, p.flags, m)
        BY ONLY <1>4, <4>2, Incremented
      <4> QED BY ONLY <4>1, <4>3
    <3> QED BY <1>1, <1>3, <1>4, <3>1, <3>4, <3>5
  <2>3. CASE ~(bipbuf_unused(buf[w]) < 1)
    <3>1. item' = [item EXCEPT ![x] = refcount_incr(refcount_incr(MarkActive(item[x])))]
      BY ONLY <2>1, <2>3 DEF lru_bump_async
    <3>2. buf' = [buf EXCEPT ![w] = bipbuf_push(buf[w], x)]
      BY ONLY <2>1, <2>3 DEF lru_bump_async
    <3>3. Bumping(w, x, 1)
      BY <1>1, <1>2, <2>3, <3>2, PushBumping
    <3>4. PICK fl : fl = p.flags \cup {"ACTIVE"}
      OBVIOUS
    <3>5. PICK p1 : p1 = MarkActive(p)
      OBVIOUS
    <3>6. PICK n, n1, n2 : n = p.ref /\ n1 = n + 1 /\ n2 = p.ref + 1 + 1
      OBVIOUS
    <3>7. n \in Nat /\ n1 \in Nat /\ n2 \in Nat /\ n2 = n1 + 1
      BY <1>4, <3>6
    <3>8. p1 = Rec(p, p.lru, fl, n)
      BY <1>4, <3>4, <3>5, <3>6, Updates
    <3>9. PICK p2 : p2 = refcount_incr(p1)
      OBVIOUS
    <3>10. p2 = Rec(p, p.lru, fl, n1)
      <4>1. IsItem(p1) /\ p1.ref \in Nat
        BY ONLY <3>7, <3>8, RecItem
      <4> QED BY ONLY <3>6, <3>7, <3>8, <3>9, <4>1, Incremented
    <3>11. refcount_incr(p2) = Rec(p, p.lru, fl, p.ref + 1 + 1)
      <4>1. IsItem(p2) /\ p2.ref \in Nat
        BY ONLY <3>7, <3>10, RecItem
      <4>2. refcount_incr(p2) = Rec(p, p.lru, fl, n2)
        BY ONLY <3>7, <3>10, <4>1, Incremented
      <4> QED BY ONLY <3>6, <4>2
    <3>12. fl \in FlagSets /\ "LINKED" \in fl
      BY <1>4, <3>4, Flagged
    <3> QED BY <1>1, <1>3, <3>1, <3>3, <3>5, <3>9, <3>11, <3>12
  <2> QED BY <2>2, <2>3
<1>7. CASE ~("FETCHED" \in p.flags /\ "ACTIVE" \notin p.flags /\ p.lru = COLD)
  <2>1. PICK fl : fl = p.flags \cup (IF "FETCHED" \in p.flags THEN {"ACTIVE"} ELSE {"FETCHED"})
    OBVIOUS
  <2>2. /\ item' = [item EXCEPT ![x].flags = fl, ![x].ref = @ + 1]
        /\ buf' = buf
    BY <1>3, <1>7, <2>1 DEF do_item_get
  <2>3. Bumping(w, x, 0)
    BY <1>1, <1>2, <2>2, NoBumping
  <2>4. item' = [item EXCEPT ![x] = [p EXCEPT !.flags = fl, !.ref = p.ref + 1]]
    BY <1>1, <1>3, <2>2, ItemFields DEF IInv, Types
  <2>5. p.ref + 1 = p.ref + 1 + 0 /\ p.ref + 1 \in Nat
    BY <1>4
  <2>6. item' = [item EXCEPT ![x] = Rec(p, p.lru, fl, p.ref + 1 + 0)]
    BY <1>5, <2>4, <2>5
  <2>7. fl \in FlagSets /\ "LINKED" \in fl
    BY <1>4, <2>1, Flagged
  <2> QED BY <1>1, <1>3, <2>3, <2>6, <2>7
<1> QED BY <1>6, <1>7

-----------------------------------------------------------------------------
(* Steps of a worker or of the maintainer away from the bump buffers.      *)

Locks(t) == /\ lock' \in [Keys -> Workers \cup {Maintainer, Crawler, None}]
            /\ \A k \in Keys : lock[k] \notin {None, t} => lock'[k] = lock[k]
LruLocks(t) == /\ lru_lock' \in [Lrus -> Pullers \cup {None}]
               /\ \A l \in Lrus : lru_lock[l] \notin {None, t} => lru_lock'[l] = lru_lock[l]
Tables(t, x) == /\ table' \in [Keys -> Items \cup {None}]
                /\ \A k \in Keys : \/ table'[k] = table[k]
                                   \/ /\ lock[k] \in {None, t}
                                      /\ {table[k], table'[k]} \subseteq {None, x}

LEMMA LockStep ==
    ASSUME IInv, NEW t \in Threads, NEW k \in Keys, lock[k] \in {None, t}, NEW v \in {None, t},
           lock' = [lock EXCEPT ![k] = v]
    PROVE  Locks(t) /\ lock'[k] = v /\ \A j \in Keys \ {k} : lock'[j] = lock[j]
<1>1. v \in Threads \/ v = None
  OBVIOUS
<1> QED BY <1>1, LockTyped DEF Locks

LEMMA LockSame ==
    ASSUME IInv, NEW t, lock' = lock
    PROVE  Locks(t)
BY DEF Locks, IInv, Types

LEMMA LruLockStep ==
    ASSUME IInv, NEW t \in Pullers, NEW l \in Lrus, lru_lock[l] \in {None, t}, NEW v \in {None, t},
           lru_lock' = [lru_lock EXCEPT ![l] = v]
    PROVE  LruLocks(t) /\ lru_lock'[l] = v /\ \A j \in Lrus \ {l} : lru_lock'[j] = lru_lock[j]
<1>1. v \in Pullers \/ v = None
  OBVIOUS
<1> QED BY <1>1, LruLockTyped DEF LruLocks

LEMMA LruLockSame ==
    ASSUME IInv, NEW t, lru_lock' = lru_lock
    PROVE  LruLocks(t)
BY DEF LruLocks, IInv, Types

LEMMA TableStep ==
    ASSUME IInv, NEW t, NEW k \in Keys, lock[k] \in {None, t}, NEW x \in Items,
           table[k] \in {None, x}, NEW v \in {None, x}, table' = [table EXCEPT ![k] = v]
    PROVE  Tables(t, x) /\ table'[k] = v /\ \A j \in Keys \ {k} : table'[j] = table[j]
<1>1. v \in Items \/ v = None
  OBVIOUS
<1>2. /\ table' \in [Keys -> Items \cup {None}] /\ table'[k] = v
      /\ \A j \in Keys \ {k} : table'[j] = table[j]
  BY <1>1, TableTyped
<1> QED BY <1>2 DEF Tables

LEMMA TableSame ==
    ASSUME IInv, NEW t, NEW x, table' = table
    PROVE  Tables(t, x)
BY DEF Tables, IInv, Types

LEMMA TypesOf ==
    ASSUME IInv, item' \in [Items -> ItemRecords], table' \in [Keys -> Items \cup {None}],
           held' \in [Items -> Nat], lock' \in [Keys -> Workers \cup {Maintainer, Crawler, None}],
           lru_lock' \in [Lrus -> Pullers \cup {None}], ThreadsTyped',
           buf' \in [Workers -> BufferRecords], crawlVars' = crawlVars
    PROVE  Types'
<1>1. Types
  BY DEF IInv
<1> QED BY <1>1 DEF Types, ThreadsTyped, crawlVars

\* The hash table has just the linked items.
LEMMA Hashed ==
    ASSUME IInv, NEW x \in Items
    PROVE  /\ \A k \in Keys : table[k] = x <=> "LINKED" \in item[x].flags /\ item[x].key = k
           /\ "LINKED" \in item[x].flags => item[x].key \in Keys /\ item[x].ref # 0
           /\ item[x] = Free \/ (item[x].ref # 0 /\ item[x].key \in Keys)
<1>1. ItemOK(x) /\ \A k \in Keys : TableOK(k)
  BY DEF IInv
<1>2. "LINKED" \in item[x].flags => item[x].ref # 0
  BY <1>1 DEF ItemOK, Free
<1>3. x # None
  BY Constants DEF Nodes
<1>4. "LINKED" \in item[x].flags => item[x].key \in Keys /\ table[item[x].key] = x
  BY <1>1, <1>2 DEF ItemOK
<1>5. \A k \in Keys : table[k] = x => "LINKED" \in item[x].flags /\ item[x].key = k
  BY <1>1, <1>3 DEF TableOK
<1>6. item[x].ref = 0 => item[x] = Free
  BY <1>1 DEF ItemOK
<1>7. item[x].ref # 0 => item[x].key \in Keys
  BY <1>1 DEF ItemOK
<1> QED BY ONLY <1>2, <1>4, <1>5, <1>6, <1>7

\* The references of the link and of a thread with record r, and the place.
LinkOf(fl, r, x) == IF ("LINKED" \in fl \/ UnlR(r, x)) /\ ~LnkR(r, x) THEN 1 ELSE 0
HoldOf(r, x) == IF HldR(r, x) THEN 1 ELSE 0
PlaceIn(fl, r, x, l) == IF ("LINKED" \in fl \/ UnlR(r, x)) /\ ~MovR(r, x) THEN l ELSE None

\* The references and the place of an item, in terms of the one thread that
\* has to do with it.
LEMMA Refs ==
    ASSUME IInv, NEW t \in Pullers, NEW x \in Items, Alone(x, t),
           t = Maintainer => Away(th[t]), NEW r, r = th[t], NEW n, n = Cardinality(Bumps(x))
    PROVE  /\ n \in Nat
           /\ item[x].ref = LinkOf(item[x].flags, r, x) + held[x] + HoldOf(r, x) + n
           /\ Place(x) = PlaceIn(item[x].flags, r, x, item[x].lru)
<1>1. MaintainerOK /\ Exact(x) /\ t \in Threads
  BY Constants DEF IInv, ThreadsOK, Threads
<1>2. /\ Unlinking(x) <=> Unl(t, x)
      /\ Linking(x) <=> Lnk(t, x)
      /\ Moving(x) <=> Mov(t, x)
      /\ Cardinality(Holders(x)) = Num(Hld(t, x))
  BY <1>1, AloneNow DEF AloneIs
<1>3. t = Maintainer => ~UnlR(r, x) /\ ~LnkR(r, x) /\ ~Bumped(x)
  BY <1>1 DEF MaintainerOK, UnlR, LnkR, Bumped, Away
<1>4. /\ Unlinking(x) <=> UnlR(r, x)
      /\ Linking(x) <=> LnkR(r, x)
      /\ Moving(x) <=> MovR(r, x)
      /\ Hld(t, x) <=> HldR(r, x)
  BY <1>2, <1>3, RelRecords, Constants
<1>5. n \in Nat
  BY Counts
<1>6. item[x].ref = LinkRef(x) + held[x] + Num(Hld(t, x)) + n
  BY <1>1, <1>2 DEF Exact
<1>7. LinkRef(x) = LinkOf(item[x].flags, r, x)
  BY <1>4 DEF LinkRef, LinkOf
<1>8. Num(Hld(t, x)) = HoldOf(r, x)
  BY <1>4 DEF Num, HoldOf
<1>9. Place(x) = PlaceIn(item[x].flags, r, x, item[x].lru)
  BY <1>4 DEF Place, PlaceIn
<1> QED BY <1>5, <1>6, <1>7, <1>8, <1>9

\* Thread t, with record s from here on, keeps off the others' locks.
Others(t, x, s) ==
    /\ IsThread(s) /\ th' = [th EXCEPT ![t] = s]
    /\ buf' = buf /\ crawlVars' = crawlVars
    /\ Locks(t) /\ LruLocks(t) /\ Tables(t, x)
    /\ t = Maintainer => Away(th[t])
    /\ th[t].pc # "starting"
    /\ \A y \in Items \ {x} : SameRec(th[t], s, y)

\* The record s of thread t, when the places of the items are P.
Strolls(t, s, P) ==
    s.pc = "walk" => /\ s.lru \in Lrus /\ lru_lock'[s.lru] = t
                     /\ s.search = None \/ Member(P, enabled, s.search, s.lru)
Pulls(t, s) ==
    s.pc = "pulled" => /\ s.it \in Items /\ item'[s.it].key \in Keys /\ lock'[item'[s.it].key] = t
                       /\ s.move \in Lrus \cup {None}
                       /\ s.move # None => "LINKED" \in item'[s.it].flags
Maintains(s) == /\ s.pc \in {"idle", "walk", "pulled", "crawl", "starting"} /\ s.own = 0
                /\ s.pc = "crawl" => s.ids \in SUBSET Lrus /\ s.size \in Nat
Fits(t, s, P) == /\ t \in Workers => WorkerOK(t)'
                 /\ Strolls(t, s, P) /\ Pulls(t, s)
                 /\ t = Maintainer => Maintains(s)

LEMMA WorkerAway ==
    ASSUME NEW w, NEW s, th'[w] = s, s.pc \in {"idle", "starting", "walk", "pulled", "alloc", "evicted0"},
           s.own = 0, s.pc \in {"idle", "starting"} \/ s.key \in Keys
    PROVE  WorkerOK(w)'
BY DEF WorkerOK

\* What the frame of such a step consists of.
LEMMA StepFrame ==
    ASSUME IInv, NEW t \in Pullers, NEW x, NEW s, Others(t, x, s),
           t = Maintainer => Maintains(s),
           \A y \in Items \ {x} : item'[y] = item[y] /\ held'[y] = held[y],
           x \in Items => Alone(x, t) \/ SameItem(x),
           item' \in [Items -> ItemRecords], held' \in [Items -> Nat]
    PROVE  /\ Frame(x, t) /\ Types' /\ th'[t] = s /\ StartingOK'
           /\ t = Maintainer => MaintainerOK'
           /\ \A w \in Workers : BufferOK(buf'[w])
           /\ Bumps(x)' = Bumps(x)
           /\ enabled' = enabled /\ remaining' = remaining /\ c' = c
<1>1. t # None /\ t \in Threads
  BY Constants DEF Threads
<1>2. /\ ThreadsTyped' /\ th'[t] = s
      /\ \A u \in Pullers \ {t} : th'[u] = th[u]
  BY ThreadTyped DEF Others
<1>3. t = Maintainer => Away(th[t]) /\ Away(s)
  BY DEF Others, Maintains, Away
<1>4. enabled' = enabled /\ remaining' = remaining /\ c' = c /\ starting' = starting
  BY DEF Others, crawlVars
<1>5. buf' \in [Workers -> BufferRecords] /\ \A w \in Workers : BufferOK(buf'[w])
  BY DEF Others, IInv, Types
<1>6. Types'
  BY <1>2, <1>5, TypesOf DEF Others, Locks, LruLocks, Tables
<1>7. Frame(x, t)
  <2>1. \A y \in Items \ {x} : SameRec(th[t], th'[t], y)
    BY <1>2 DEF Others
  <2>2. \A k \in Keys : lock[k] \notin {None, t} => lock'[k] = lock[k] /\ table'[k] = table[k]
    BY DEF Others, Locks, Tables
  <2>3. \A k \in Keys : table'[k] = table[k] \/ {table[k], table'[k]} \subseteq {None, x}
    BY DEF Others, Tables
  <2>4. \A l \in Lrus : lru_lock[l] \notin {None, t} =>
          lru_lock'[l] = lru_lock[l] /\ (l \in enabled => l \in enabled')
    BY <1>4 DEF Others, LruLocks
  <2>5. \A w \in Workers : buf[w].a_end \in Nat
    BY Buffers
  <2>6. t = Maintainer => Away(th[t]) /\ Away(th'[t])
    BY <1>2, <1>3
  <2>7. buf' = buf
    BY DEF Others
  <2> QED BY <1>2, <1>4, <2>1, <2>2, <2>3, <2>4, <2>5, <2>6, <2>7, FrameOf
<1>8. StartingOK'
  <2>1. StartingOK
    BY DEF IInv, ThreadsOK
  <2> QED BY <1>2, <1>4, <2>1 DEF StartingOK, Others
<1>9. t = Maintainer => MaintainerOK'
  BY <1>2 DEF Maintains, MaintainerOK
<1>10. Bumps(x)' = Bumps(x)
  <2>1. \/ th'[Maintainer] = th[Maintainer]
        \/ Away(th[Maintainer]) /\ Away(th'[Maintainer])
    BY <1>2, <1>3, Constants
  <2> QED BY <2>1, BumpsSame DEF Others
<1> QED BY <1>2, <1>4, <1>5, <1>6, <1>7, <1>8, <1>9, <1>10

\* A step that touches no item.
LEMMA ThreadStep ==
    ASSUME IInv, NEW t \in Pullers, NEW s, Others(t, None, s), item' = item, held' = held, q' = q,
           Fits(t, s, Places)
    PROVE  IInv'
<1>1. t \in Threads /\ None \notin Items
  BY Constants DEF Threads, Nodes
<1>2. item' \in [Items -> ItemRecords] /\ held' \in [Items -> Nat]
  BY DEF IInv, Types
<1>3. /\ Frame(None, t) /\ Types' /\ th'[t] = s /\ StartingOK'
      /\ t = Maintainer => MaintainerOK'
      /\ \A w \in Workers : BufferOK(buf'[w])
      /\ enabled' = enabled /\ remaining' = remaining
  BY <1>1, <1>2, StepFrame DEF Fits
<1>4. MaintainerOK'
  BY <1>1, <1>3, MaintainerKept
<1>5. Places' = Places
  BY <1>1, <1>3, <1>4, PlacesStep
<1>6. Good(q', Places', enabled', remaining')
  BY <1>3, <1>5 DEF IInv, ListsInv
<1>7. PullerOK(t)'
  <2>1. s.pc = "walk" => /\ s.lru \in Lrus /\ lru_lock'[s.lru] = t
                         /\ s.search = None \/ Member(Places', enabled', s.search, s.lru)
    BY <1>3, <1>5 DEF Fits, Strolls
  <2> QED BY <1>3, <2>1 DEF PullerOK, Fits, Pulls, Owns
<1>8. t # Crawler
  BY Constants
<1> QED BY <1>1, <1>3, <1>6, <1>7, <1>8, Preserved DEF Fits

\* The hash table has item x, which is now p, just while it is linked.
Hash(x, p) == /\ p = Free \/ (p.ref # 0 /\ p.key \in Keys)
              /\ \A k \in Keys : table'[k] = x <=> "LINKED" \in p.flags /\ p.key = k

\* Its references, with those of the thread of record s and h of connections.
Refers(x, p, s, h) ==
    p.ref = LinkOf(p.flags, s, x) + h + HoldOf(s, x) + Cardinality(Bumps(x))

\* Thread t puts it in place m, under the LRU lock of the list it is taken from.
Puts(t, x, p, s, m) ==
    /\ m = PlaceIn(p.flags, s, x, p.lru)
    /\ \A l \in Lrus : Place(x) = l => m = l \/ lru_lock[l] \in {None, t}

\* A step that makes item x the record p, with h references of connections.
LEMMA ItemStep ==
    ASSUME IInv, NEW t \in Pullers, NEW x \in Items, NEW s, Others(t, x, s), Alone(x, t),
           NEW p, p \in ItemRecords, item' = [item EXCEPT ![x] = p],
           NEW h, h \in Nat, held' = [held EXCEPT ![x] = h],
           Hash(x, p), Refers(x, p, s, h), NEW m, Puts(t, x, p, s, m),
           NEW P, P = [Places EXCEPT ![x] = m], Good(q', P, enabled, remaining), Fits(t, s, P)
    PROVE  IInv'
<1>1. t \in Threads
  BY DEF Threads
<1>2. /\ item' \in [Items -> ItemRecords] /\ item'[x] = p
      /\ \A y \in Items \ {x} : item'[y] = item[y]
  BY ItemTyped
<1>3. /\ held' \in [Items -> Nat] /\ held'[x] = h
      /\ \A y \in Items \ {x} : held'[y] = held[y]
  BY HeldTyped
<1>4. /\ Frame(x, t) /\ Types' /\ th'[t] = s /\ StartingOK'
      /\ t = Maintainer => MaintainerOK'
      /\ \A w \in Workers : BufferOK(buf'[w])
      /\ Bumps(x)' = Bumps(x)
      /\ enabled' = enabled /\ remaining' = remaining
  BY <1>2, <1>3, StepFrame DEF Fits
<1>5. MaintainerOK'
  BY <1>1, <1>4, MaintainerKept
<1>6. t = Maintainer => ~UnlR(s, x) /\ ~LnkR(s, x) /\ ~Bumped(x)'
  BY <1>4 DEF Fits, Maintains, UnlR, LnkR, Bumped
<1>7. /\ Unl(t, x)' <=> UnlR(s, x)
      /\ Lnk(t, x)' <=> LnkR(s, x)
      /\ Mov(t, x)' <=> MovR(s, x)
      /\ Hld(t, x)' <=> HldR(s, x)
  BY <1>4, <1>6, RelRecordsNext, Constants
<1>8. /\ item'[x].ref = LinkNum(item'[x].flags, Unl(t, x)', Lnk(t, x)') + held'[x]
                       + Num(Hld(t, x)') + Cardinality(Bumps(x)') => Exact(x)'
      /\ Place(x)' = PlaceOf(item'[x].flags, Unl(t, x)', Mov(t, x)', item'[x].lru)
  BY <1>1, <1>4, <1>5, Touched
<1>9. Exact(x)'
  <2>1. LinkNum(p.flags, Unl(t, x)', Lnk(t, x)') = LinkOf(p.flags, s, x)
    BY ONLY <1>7 DEF LinkNum, LinkOf
  <2>2. Num(Hld(t, x)') = HoldOf(s, x)
    BY ONLY <1>7 DEF Num, HoldOf
  <2> QED BY <1>2, <1>3, <1>4, <1>8, <2>1, <2>2 DEF Refers
<1>10. Place(x)' = m
  BY <1>2, <1>7, <1>8 DEF PlaceOf, PlaceIn, Puts
<1>11. Places' = [Places EXCEPT ![x] = m]
  BY <1>1, <1>4, <1>5, <1>10, PlacesStep
<1>12. PlaceKept(x, t)
  BY <1>10 DEF PlaceKept, Puts
<1>13. ItemOK(x)'
  <2>1. p.ref = 0 => p = Free
    BY DEF Hash
  <2>2. p.ref # 0 => p.key \in Keys
    BY DEF Hash, Free
  <2>3. "LINKED" \in p.flags => table'[p.key] = x
    BY DEF Hash, Free
  <2> QED BY <1>2, <2>1, <2>2, <2>3 DEF ItemOK
<1>14. \A k \in Keys : table'[k] = x => TableOK(k)'
  BY <1>2 DEF TableOK, Hash
<1>15. PullerOK(t)'
  <2>1. s.pc = "walk" => /\ s.lru \in Lrus /\ lru_lock'[s.lru] = t
                         /\ s.search = None \/ Member(Places', enabled', s.search, s.lru)
    BY <1>4, <1>11 DEF Fits, Strolls
  <2> QED BY <1>4, <2>1 DEF PullerOK, Fits, Pulls, Owns
<1>16. t # Crawler
  BY Constants
<1>17. Good(q', Places', enabled', remaining')
  BY <1>4, <1>11
<1> QED BY <1>1, <1>4, <1>9, <1>12, <1>13, <1>14, <1>15, <1>16, <1>17, Preserved DEF Fits

=============================================================================
