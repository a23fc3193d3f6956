---------------------------- MODULE AssocProofs -----------------------------
(***************************************************************************)
(* Proofs about Assoc, for every set of keys and workers, every hash       *)
(* function, and every number of locks and table size that                 *)
(* memcached_thread_init accepts, when pause_threads stops the workers.    *)
(***************************************************************************)
EXTENDS Assoc, FiniteSetTheorems, TLAPS

-----------------------------------------------------------------------------
(* Arithmetic of hash masks.                                               *)

\* A quotient and a remainder below the divisor are the only ones.
LEMMA ModUnique ==
    ASSUME NEW d \in Nat \ {0}, NEW q \in Nat, NEW r \in 0 .. d - 1,
           NEW a \in Nat, a = d * q + r
    PROVE  a % d = r
<1> DEFINE p == a \div d
           s == a % d
<1>1. p \in Nat /\ s \in 0 .. d - 1 /\ a = (d * p) + s
  OBVIOUS
<1>2. ASSUME q < p PROVE FALSE
  <2>1. d * (q + 1) <= d * p /\ d * (q + 1) = d * q + d
    BY <1>1, <1>2
  <2> QED BY <2>1, <1>1
<1>3. ASSUME p < q PROVE FALSE
  <2>1. d * (p + 1) <= d * q /\ d * (p + 1) = d * p + d
    BY <1>1, <1>3
  <2> QED BY <2>1, <1>1
<1> QED BY <1>1, <1>2, <1>3

\* Rearranges a division by a multiple of L into a division by L.
LEMMA Regroup ==
    ASSUME NEW L \in Nat, NEW m \in Nat, NEW q \in Nat, NEW t \in Nat, NEW r \in Nat
    PROVE  /\ m * q + t \in Nat
           /\ ((L * m) * q) + ((L * t) + r) = (L * (m * q + t)) + r
<1>1. m * q \in Nat /\ L * m \in Nat
  OBVIOUS
<1>2. (L * m) * q = L * (m * q)
  OBVIOUS
<1>3. L * (m * q + t) = L * (m * q) + L * t
  BY <1>1
<1> QED BY <1>1, <1>2, <1>3

\* "The bucket of the hash table is the lowest N bits of the hv, and the
\* bucket of item_locks is also the lowest bits": the lock of a hash value is
\* the lock of its bucket.
LEMMA LockOfBucket ==
    ASSUME NEW L \in Nat \ {0}, NEW m \in Nat \ {0}, NEW h \in Nat
    PROVE  h % L = (h % (L * m)) % L
<1>1. L * m \in Nat \ {0}
  OBVIOUS
<1>2. PICK n \in Nat \ {0} : n = L * m
  BY <1>1
<1>3. PICK q \in Nat, e \in Nat : e = h % n /\ h = (n * q) + e
  <2>1. h \div n \in Nat /\ h % n \in Nat /\ h = (n * (h \div n)) + (h % n)
    OBVIOUS
  <2> QED BY <2>1
<1>4. PICK t \in Nat, r \in 0 .. L - 1 : r = e % L /\ e = (L * t) + r
  <2>1. e \div L \in Nat /\ e % L \in 0 .. L - 1 /\ e = (L * (e \div L)) + (e % L)
    OBVIOUS
  <2> QED BY <2>1
<1>5. PICK p \in Nat : h = (L * p) + r
  <2>1. h = ((L * m) * q) + ((L * t) + r)
    BY <1>2, <1>3, <1>4
  <2>2. r \in Nat
    OBVIOUS
  <2>3. m * q + t \in Nat /\ h = (L * (m * q + t)) + r
    BY <2>1, <2>2, Regroup
  <2> QED BY <2>3, Zenon
<1>6. h % L = r
  BY <1>5, ModUnique
<1> QED BY <1>2, <1>3, <1>4, <1>6

-----------------------------------------------------------------------------
(* The inductive invariant.                                                *)

\* The table never has fewer buckets than there are item locks.
LocksDivide == \E m \in 1 .. oldsize : oldsize = LockCount * m

\* A worker in a command holds the lock of its key; the maintenance thread
\* holds the lock of the bucket it moves.
LocksHeld ==
    /\ \A w \in Threads : wpc[w] # "idle" =>
         key[w] \in Keys /\ item_locks[LockOf(Hash[key[w]])] = w
    /\ mpc = "migrate" => item_locks[LockOf(expand_bucket)] = Maint
    /\ mpc \in {"moved", "trylock_unlock"} =>
         expand_bucket >= 1 /\ item_locks[LockOf(expand_bucket - 1)] = Maint

\* Where the maintenance thread is tells how far the expansion has come.
Progress ==
    /\ mpc \in {"trylock", "migrate", "moved"} => expanding
    /\ mpc \in {"start", "towait", "waiting", "pausing", "hanging", "registering"}
         => ~expanding
    /\ expanding => expand_bucket <= oldsize
    /\ expanding /\ mpc # "moved" => expand_bucket < oldsize

\* Only idle workers hang, and what a worker has read of the expansion state
\* still leads it to the right bucket.
BucketOf(k) == IF InOld(k) THEN [tab |-> "old", b |-> Hash[k] % oldsize]
                           ELSE [tab |-> "primary", b |-> Hash[k] % hashsize]
WorkersRight ==
    /\ \A w \in hung : wpc[w] = "idle"
    /\ \A w \in Threads :
         /\ wpc[w] = "sawexpanding" => expanding \/ expand_bucket >= oldsize
         /\ wpc[w] = "sawstable" => ~expanding
         /\ wpc[w] = "located" => loc[w] = BucketOf(key[w])
         /\ wpc[w] \in {"idle", "unlock"} => loc[w] = Nowhere

\* The mover works only while it holds its lock, which the maintenance thread
\* holds in the pause; while the reports are awaited worker_hang_lock keeps
\* every worker that has read its 'p' where it is, and init_count counts them.
PauseRight ==
    /\ wpc[Mover] # "idle" => slabs_rebalance_lock = Mover
    /\ mpc \in {"hanging", "registering", "resuming"} => slabs_rebalance_lock = Maint
    /\ mpc = "registering" /\ PauseWorkers =>
         /\ worker_hang_lock = Maint
         /\ Workers \ notified \subseteq hung
         /\ init_count = Cardinality(Workers \ notified)

\* What an earlier assoc_find told a worker is still true.
CallsMatch ==
    \A w \in Threads : wpc[w] \in {"enter", "sawexpanding", "sawstable", "located"} =>
        /\ call[w] = "delete" => key[w] \in Stored
        /\ call[w] = "insert" => key[w] \notin Stored

IInv == /\ TypeOK /\ LocksDivide /\ LocksHeld /\ Progress
        /\ ItemsWhereLookedFor /\ WorkersRight /\ CallsMatch /\ PauseRight

\* The workers and the mover are the threads that use the table.
LEMMA ThreadFacts ==
    /\ Workers \subseteq Threads /\ Mover \in Threads /\ Mover \notin Workers
    /\ Maint \notin Threads /\ NoThread \notin Threads
    /\ \A w \in Threads : w \in Workers \/ w = Mover
BY ThreadAssumption DEF Threads, Maint, Mover

USE HashAssumption, ThreadAssumption, ThreadFacts, NoKeyAssumption DEF Maint, Mover

\* A key, its old bucket and its item lock.
LEMMA BucketFacts ==
    ASSUME TypeOK, LocksDivide, NEW k \in Keys
    PROVE  /\ LockOf(Hash[k]) \in Locks
           /\ LockOf(Hash[k]) = LockOf(Hash[k] % oldsize)
           /\ Hash[k] % oldsize \in 0 .. oldsize - 1
           /\ Hash[k] % hashsize \in Nat
<1>1. PICK m \in Nat \ {0} : oldsize = LockCount * m
  BY DEF LocksDivide, TypeOK
<1>2. Hash[k] \in Nat /\ LockCount \in Nat \ {0} /\ oldsize \in Nat \ {0}
  BY SizeAssumption DEF TypeOK
<1>3. LockOf(Hash[k]) = LockOf(Hash[k] % oldsize)
  BY <1>1, <1>2, LockOfBucket DEF LockOf
<1>4. LockOf(Hash[k]) \in Locks
  BY <1>2 DEF LockOf, Locks
<1>5. Hash[k] % oldsize \in 0 .. oldsize - 1 /\ Hash[k] % hashsize \in Nat
  BY <1>2 DEF hashsize
<1> QED BY <1>3, <1>4, <1>5

\* Every hash value has a lock.
LEMMA LockFacts ==
    ASSUME TypeOK, NEW n \in Nat
    PROVE  LockOf(n) \in Locks
BY SizeAssumption DEF LockOf, Locks

\* A worker that has chosen its bucket sees its key there exactly when the
\* key is stored.
LEMMA LocatedSees ==
    ASSUME IInv, NEW w \in Threads, wpc[w] = "located"
    PROVE  key[w] \in Keys /\ (KeyInBucket(w) <=> key[w] \in Stored)
<1>1. key[w] \in Keys /\ loc[w] = BucketOf(key[w])
  BY DEF IInv, LocksHeld, WorkersRight
<1> QED BY <1>1 DEF KeyInBucket, BucketOf, Stored

\* What each change of the tables does to the set of stored keys.
LEMMA StoredInsert ==
    ASSUME IInv, NEW w \in Threads, assoc_insert(w)
    PROVE  Stored' = Stored \cup {key[w]}
<1>1. key[w] \in Keys /\ loc[w] = BucketOf(key[w])
  BY DEF IInv, LocksHeld, WorkersRight, assoc_insert
<1>2. \A k \in Keys : InOld(k)' = InOld(k)
  BY DEF assoc_insert, InOld
<1>3. CASE InOld(key[w])
  BY <1>1, <1>2, <1>3 DEF assoc_insert, Stored, BucketOf, hashsize
<1>4. CASE ~InOld(key[w])
  BY <1>1, <1>2, <1>4 DEF assoc_insert, Stored, BucketOf, hashsize
<1> QED BY <1>3, <1>4

\* assoc_delete removes the one key from the stored ones.
LEMMA StoredDelete ==
    ASSUME IInv, NEW w \in Threads, assoc_delete(w)
    PROVE  Stored' = Stored \ {key[w]}
<1>1. key[w] \in Keys /\ loc[w] = BucketOf(key[w])
  BY DEF IInv, LocksHeld, WorkersRight, assoc_delete
<1>2. \A k \in Keys : InOld(k)' = InOld(k)
  BY DEF assoc_delete, InOld
<1>3. CASE InOld(key[w])
  BY <1>1, <1>2, <1>3 DEF assoc_delete, Stored, BucketOf, hashsize
<1>4. CASE ~InOld(key[w])
  BY <1>1, <1>2, <1>4 DEF assoc_delete, Stored, BucketOf, hashsize
<1> QED BY <1>3, <1>4

\* Moving a bucket changes where its keys are looked for, and moves them there.
LEMMA InOldMove ==
    ASSUME IInv, MoveBucket, NEW k \in Keys
    PROVE  InOld(k)' <=> InOld(k) /\ Hash[k] % oldsize # expand_bucket
<1>1. Hash[k] % oldsize \in Nat /\ expand_bucket \in Nat /\ expanding
  BY BucketFacts DEF IInv, TypeOK, Progress, MoveBucket
<1> QED BY <1>1 DEF MoveBucket, InOld

\* Moving a bucket leaves the stored keys alone.
LEMMA StoredMove == ASSUME IInv, MoveBucket PROVE Stored' = Stored
<1>1. SUFFICES ASSUME NEW k \in Keys PROVE k \in Stored' <=> k \in Stored
  BY DEF Stored
<1>2. Hash[k] % oldsize \in Nat /\ expand_bucket \in Nat /\ expanding
  BY BucketFacts DEF IInv, TypeOK, Progress, MoveBucket
<1>3. CASE Hash[k] % oldsize = expand_bucket
  <2>1. InOld(k) /\ ~InOld(k)'
    BY <1>2, <1>3, InOldMove DEF InOld
  <2>2. <<Hash[k] % hashsize, k>> \notin primary_hashtable
    BY <2>1 DEF IInv, ItemsWhereLookedFor
  <2>3. <<Hash[k] % hashsize, k>> \in primary_hashtable'
             <=> <<Hash[k] % oldsize, k>> \in old_hashtable
    <3>1. ASSUME <<Hash[k] % oldsize, k>> \in old_hashtable
          PROVE  <<Hash[k] % hashsize, k>> \in primary_hashtable'
      BY <1>3, <3>1 DEF MoveBucket
    <3>2. ASSUME <<Hash[k] % hashsize, k>> \in primary_hashtable'
          PROVE  <<Hash[k] % oldsize, k>> \in old_hashtable
      <4>1. PICK e \in old_hashtable : e[1] = expand_bucket /\ e[2] = k
        BY <2>2, <3>2 DEF MoveBucket
      <4>2. e = <<expand_bucket, k>>
        BY <4>1 DEF IInv, TypeOK
      <4> QED BY <1>3, <4>1, <4>2
    <3> QED BY <3>1, <3>2
  <2> QED BY <2>1, <2>3 DEF Stored, MoveBucket, hashsize
<1>4. CASE Hash[k] % oldsize # expand_bucket
  <2>1. InOld(k)' <=> InOld(k)
    BY <1>4, InOldMove
  <2>2. <<Hash[k] % oldsize, k>> \in old_hashtable'
             <=> <<Hash[k] % oldsize, k>> \in old_hashtable
    BY <1>4 DEF MoveBucket
  <2>3. <<Hash[k] % hashsize, k>> \in primary_hashtable'
             <=> <<Hash[k] % hashsize, k>> \in primary_hashtable
    BY <1>4 DEF MoveBucket, IInv, ItemsWhereLookedFor
  <2> QED BY <2>1, <2>2, <2>3 DEF Stored, MoveBucket, hashsize
<1> QED BY <1>3, <1>4

\* So does the end of the expansion: every bucket is below expand_bucket.
LEMMA StoredLast ==
    ASSUME IInv, CheckLastBucket
    PROVE  Stored' = Stored /\ \A k \in Keys : InOld(k)' <=> InOld(k)
<1>1. ASSUME NEW k \in Keys PROVE InOld(k)' <=> InOld(k)
  <2>1. Hash[k] % oldsize \in 0 .. oldsize - 1 /\ expand_bucket \in Nat /\ oldsize \in Nat
    BY BucketFacts DEF IInv, TypeOK
  <2>2. expanding /\ (expanding' <=> expand_bucket # oldsize)
    BY DEF CheckLastBucket, IInv, Progress
  <2> QED BY <2>1, <2>2 DEF CheckLastBucket, InOld
<1> QED BY <1>1 DEF Stored, CheckLastBucket, hashsize

\* So does the swap of the tables: every key is now looked for in the old
\* one.
LEMMA StoredExpand ==
    ASSUME IInv, assoc_expand
    PROVE  Stored' = Stored /\ \A k \in Keys : ~InOld(k) /\ InOld(k)'
<1>1. ASSUME NEW k \in Keys PROVE ~InOld(k) /\ InOld(k)'
  <2>1. ~expanding /\ hashsize \in Nat \ {0} /\ Hash[k] \in Nat
    BY DEF assoc_expand, IInv, Progress, TypeOK, hashsize
  <2>2. Hash[k] % hashsize >= 0
    BY <2>1
  <2> QED BY <2>1, <2>2 DEF assoc_expand, InOld
<1> QED BY <1>1 DEF Stored, assoc_expand

\* When wait_for_thread_registration returns, every worker is blocked.
LEMMA AllHung ==
    ASSUME PauseWorkers, IInv, mpc = "registering", AllReported
    PROVE  Workers \subseteq hung
<1> DEFINE R == Workers \ notified
<1>1. R \subseteq hung /\ init_count = Cardinality(R) /\ R \subseteq Workers
  BY DEF IInv, PauseRight
<1>2. IsFiniteSet(Workers) /\ IsFiniteSet(R) /\ Cardinality(R) <= Cardinality(Workers)
      /\ (Cardinality(R) = Cardinality(Workers) => R = Workers)
  BY <1>1, FS_Subset
<1>3. Cardinality(R) >= Cardinality(Workers)
  BY <1>1 DEF AllReported
<1>4. Cardinality(R) \in Nat /\ Cardinality(Workers) \in Nat
  BY <1>2, FS_CardinalityType
<1> HIDE DEF R
<1>5. R = Workers
  BY <1>2, <1>3, <1>4
<1> QED BY <1>1, <1>5

\* A report is counted.
LEMMA OneMoreReport ==
    ASSUME NEW w \in Workers, w \in notified
    PROVE  Cardinality(Workers \ (notified \ {w})) = Cardinality(Workers \ notified) + 1
<1>1. IsFiniteSet(Workers \ notified) /\ w \notin Workers \ notified
  BY FS_Subset
<1>2. Workers \ (notified \ {w}) = (Workers \ notified) \cup {w}
  OBVIOUS
<1> QED BY <1>1, <1>2, FS_AddElement

\* The state assoc_init leaves satisfies the invariant.
LEMMA InitIInv == Init => IInv
<1> SUFFICES ASSUME Init PROVE IInv
  OBVIOUS
<1>1. TypeOK
  BY SizeAssumption DEF Init, TypeOK, Nowhere
<1>2. LocksDivide
  BY SizeAssumption DEF Init, LocksDivide
<1>3. LocksHeld /\ Progress /\ ItemsWhereLookedFor /\ CallsMatch
  BY DEF Init, LocksHeld, Progress, ItemsWhereLookedFor, CallsMatch
<1>4. WorkersRight /\ PauseRight
  BY DEF Init, WorkersRight, PauseRight
<1> QED BY <1>1, <1>2, <1>3, <1>4 DEF IInv

\* A worker starts a command on the key whose lock it takes.
LEMMA Step_item_lock ==
    ASSUME PauseWorkers, IInv, NEW w \in Workers, item_lock(w)
    PROVE  IInv'
<1> USE DEF IInv, item_lock, vars, tableVars, workerVars, pauseVars
<1>1. TypeOK'
  BY BucketFacts DEF TypeOK, Nowhere
<1>2. LocksDivide'
  BY BucketFacts DEF LocksDivide
<1>3. LocksHeld'
  BY BucketFacts DEF LocksHeld, TypeOK
<1>4. Progress'
  BY BucketFacts DEF Progress, TypeOK
<1>5. ItemsWhereLookedFor'
  BY BucketFacts DEF ItemsWhereLookedFor, InOld, hashsize, TypeOK
<1>6. WorkersRight'
  BY BucketFacts DEF WorkersRight, TypeOK, BucketOf, InOld, hashsize, Nowhere
<1>7. CallsMatch'
  BY BucketFacts DEF CallsMatch, Stored, InOld, hashsize, TypeOK
<1>8. PauseRight'
  BY DEF PauseRight, TypeOK
<1> QED BY <1>1, <1>2, <1>3, <1>4, <1>5, <1>6, <1>7, <1>8 DEF IInv

\* The mover starts on an item that is in the table.
LEMMA Step_MoverTakesItem == ASSUME PauseWorkers, IInv, MoverTakesItem PROVE IInv'
<1> USE DEF IInv
<1>0. PICK k \in Keys, c \in {"store", "delete"} :
          /\ slabs_rebalance_lock = Mover /\ wpc[Mover] = "idle"
          /\ k \in Stored /\ LockOf(Hash[k]) \in Locks
          /\ item_locks[LockOf(Hash[k])] = NoThread
          /\ item_locks' = [item_locks EXCEPT ![LockOf(Hash[k])] = Mover]
          /\ key' = [key EXCEPT ![Mover] = k] /\ cmd' = [cmd EXCEPT ![Mover] = c]
          /\ call' = [call EXCEPT ![Mover] = "delete"]
          /\ wpc' = [wpc EXCEPT ![Mover] = "enter"]
          /\ UNCHANGED <<tableVars, started_expanding, loc, found, pauseVars, mpc,
                         do_run_maintenance_thread>>
  BY BucketFacts DEF MoverTakesItem, Stored
<1> USE DEF tableVars, pauseVars
<1>1. TypeOK'
  BY <1>0 DEF TypeOK
<1>2. LocksDivide'
  BY <1>0 DEF LocksDivide
<1>3. LocksHeld'
  BY <1>0 DEF LocksHeld, TypeOK
<1>4. Progress'
  BY <1>0 DEF Progress, TypeOK
<1>5. ItemsWhereLookedFor'
  BY <1>0 DEF ItemsWhereLookedFor, InOld, hashsize, TypeOK
<1>6. WorkersRight'
  <2>1. hung \subseteq Workers /\ hung' = hung /\ \A v \in Workers : wpc'[v] = wpc[v]
    BY <1>0 DEF TypeOK
  <2> QED BY <1>0, <2>1 DEF WorkersRight, TypeOK, BucketOf, InOld, hashsize
<1>7. CallsMatch'
  <2>1. Stored' = Stored
    BY <1>0 DEF Stored, InOld, hashsize
  <2> QED BY <1>0, <2>1 DEF CallsMatch, TypeOK
<1>8. PauseRight'
  BY <1>0 DEF PauseRight, TypeOK
<1> QED BY <1>1, <1>2, <1>3, <1>4, <1>5, <1>6, <1>7, <1>8

\* A worker reads "expanding".
LEMMA Step_ReadExpanding ==
    ASSUME PauseWorkers, IInv, NEW w \in Threads, ReadExpanding(w)
    PROVE  IInv'
<1> USE DEF IInv, ReadExpanding, vars, tableVars, workerVars, pauseVars
<1>1. TypeOK'
  BY BucketFacts DEF TypeOK, Nowhere
<1>2. LocksDivide'
  BY BucketFacts DEF LocksDivide
<1>3. LocksHeld'
  BY BucketFacts DEF LocksHeld, TypeOK
<1>4. Progress'
  BY BucketFacts DEF Progress, TypeOK
<1>5. ItemsWhereLookedFor'
  BY BucketFacts DEF ItemsWhereLookedFor, InOld, hashsize, TypeOK
<1>6. WorkersRight'
  BY BucketFacts DEF WorkersRight, TypeOK, BucketOf, InOld, hashsize, Nowhere
<1>7. CallsMatch'
  BY BucketFacts DEF CallsMatch, Stored, InOld, hashsize, TypeOK
<1>8. PauseRight'
  BY DEF PauseRight, TypeOK
<1> QED BY <1>1, <1>2, <1>3, <1>4, <1>5, <1>6, <1>7, <1>8 DEF IInv

\* The bucket a worker picks is the right one, even if the expansion ended
\* since it read "expanding".
LEMMA Step_PickBucket ==
    ASSUME PauseWorkers, IInv, NEW w \in Threads, PickBucket(w)
    PROVE  IInv'
<1> USE DEF IInv, PickBucket, vars, tableVars, workerVars, pauseVars
<1>1. TypeOK'
  <2>1. key[w] \in Keys
    BY DEF LocksHeld
  <2>2. Hash[key[w]] % oldsize \in Nat /\ Hash[key[w]] % hashsize \in Nat
    BY <2>1, BucketFacts
  <2> QED BY <2>1, <2>2 DEF TypeOK
<1>2. LocksDivide'
  BY BucketFacts DEF LocksDivide
<1>3. LocksHeld'
  BY BucketFacts DEF LocksHeld, TypeOK
<1>4. Progress'
  BY BucketFacts DEF Progress, TypeOK
<1>5. ItemsWhereLookedFor'
  BY BucketFacts DEF ItemsWhereLookedFor, InOld, hashsize, TypeOK
<1>6. WorkersRight'
  <2>1. key[w] \in Keys /\ (InOld(key[w])' <=> InOld(key[w]))
    BY DEF LocksHeld, InOld
  <2>2. Hash[key[w]] % oldsize \in 0 .. oldsize - 1
    BY <2>1, BucketFacts
  <2>3. loc'[w] = BucketOf(key[w])
    <3>1. CASE wpc[w] = "sawexpanding"
      BY <2>1, <2>2, <3>1 DEF WorkersRight, TypeOK, BucketOf, InOld
    <3>2. CASE wpc[w] = "sawstable"
      BY <2>1, <2>2, <3>2 DEF WorkersRight, TypeOK, BucketOf, InOld
    <3> QED BY <3>1, <3>2
  <2>4. \A v \in Threads : BucketOf(key[v])' = BucketOf(key[v])
    BY DEF BucketOf, InOld, hashsize
  <2> QED BY <2>3, <2>4 DEF WorkersRight, TypeOK
<1>7. CallsMatch'
  BY BucketFacts DEF CallsMatch, Stored, InOld, hashsize, TypeOK
<1>8. PauseRight'
  BY DEF PauseRight, TypeOK
<1> QED BY <1>1, <1>2, <1>3, <1>4, <1>5, <1>6, <1>7, <1>8 DEF IInv

\* assoc_find tells the truth about its key.
LEMMA Step_assoc_find ==
    ASSUME PauseWorkers, IInv, NEW w \in Workers, assoc_find(w)
    PROVE  IInv'
<1> USE DEF IInv, assoc_find, Return, AfterFind, KeyInBucket, vars, tableVars, workerVars, pauseVars
<1>1. TypeOK'
  <2>1. w \in Threads /\ key[w] \in Keys
    BY ThreadFacts DEF LocksHeld
  <2>2. KeyInBucket(w) \in BOOLEAN
    OBVIOUS
  <2> HIDE DEF KeyInBucket
  <2>3. {<<key[w], KeyInBucket(w)>>} \in SUBSET (Keys \X BOOLEAN)
    BY <2>1, <2>2
  <2>4. found' \in [Workers -> SUBSET (Keys \X BOOLEAN)]
    BY <2>3 DEF TypeOK
  <2> QED BY <2>4, BucketFacts DEF TypeOK, Nowhere
<1>2. LocksDivide'
  BY BucketFacts DEF LocksDivide
<1>3. LocksHeld'
  BY BucketFacts DEF LocksHeld, TypeOK
<1>4. Progress'
  BY BucketFacts DEF Progress, TypeOK
<1>5. ItemsWhereLookedFor'
  BY BucketFacts DEF ItemsWhereLookedFor, InOld, hashsize, TypeOK
<1>6. WorkersRight'
  BY BucketFacts DEF WorkersRight, TypeOK, BucketOf, InOld, hashsize, Nowhere
<1>7. CallsMatch'
  <2>1. Stored' = Stored
    BY DEF Stored, InOld, hashsize
  <2>2. KeyInBucket(w) <=> key[w] \in Stored
    BY LocatedSees
  <2> HIDE DEF KeyInBucket
  <2> QED BY <2>1, <2>2 DEF CallsMatch, TypeOK
<1>8. PauseRight'
  BY DEF PauseRight, TypeOK
<1> QED BY <1>1, <1>2, <1>3, <1>4, <1>5, <1>6, <1>7, <1>8 DEF IInv

\* assoc_insert chains its item where it will be looked for; the lock keeps
\* other workers off that key.
LEMMA Step_assoc_insert ==
    ASSUME PauseWorkers, IInv, NEW w \in Threads, assoc_insert(w)
    PROVE  IInv'
<1> USE DEF IInv, assoc_insert, Return, vars, tableVars, workerVars, pauseVars
<1>1. TypeOK'
  <2>1. key[w] \in Keys
    BY DEF LocksHeld
  <2>2. <<loc[w].b, key[w]>> \in Nat \X Keys
    BY <2>1 DEF TypeOK
  <2> QED BY <2>2 DEF TypeOK, Nowhere
<1>2. LocksDivide'
  BY BucketFacts DEF LocksDivide
<1>3. LocksHeld'
  BY BucketFacts DEF LocksHeld, TypeOK
<1>4. Progress'
  BY BucketFacts DEF Progress, TypeOK
<1>5. ItemsWhereLookedFor'
  <2>1. key[w] \in Keys /\ loc[w] = BucketOf(key[w])
    BY DEF LocksHeld, WorkersRight
  <2>2. \A k \in Keys : InOld(k)' <=> InOld(k)
    BY DEF InOld
  <2>3. CASE InOld(key[w])
    BY <2>1, <2>2, <2>3 DEF ItemsWhereLookedFor, BucketOf, TypeOK, hashsize
  <2>4. CASE ~InOld(key[w])
    BY <2>1, <2>2, <2>4 DEF ItemsWhereLookedFor, BucketOf, TypeOK, hashsize
  <2> QED BY <2>3, <2>4
<1>6. WorkersRight'
  BY BucketFacts DEF WorkersRight, TypeOK, BucketOf, InOld, hashsize, Nowhere
<1>7. CallsMatch'
  <2>1. \A v \in Threads \ {w} : wpc[v] # "idle" => key[v] # key[w]
    BY DEF LocksHeld
  <2>2. key[w] \in Keys
    BY DEF LocksHeld
  <2>3. Stored' = Stored \cup {key[w]}
    BY StoredInsert
  <2> HIDE DEF IInv
  <2> QED BY <2>1, <2>2, <2>3 DEF CallsMatch, TypeOK, IInv
<1>8. PauseRight'
  BY DEF PauseRight, TypeOK
<1> QED BY <1>1, <1>2, <1>3, <1>4, <1>5, <1>6, <1>7, <1>8 DEF IInv

\* assoc_delete unchains the key, and the lock keeps other workers off it.
LEMMA Step_assoc_delete ==
    ASSUME PauseWorkers, IInv, NEW w \in Threads, assoc_delete(w)
    PROVE  IInv'
<1> USE DEF IInv, assoc_delete, Return, vars, tableVars, workerVars, pauseVars
<1>1. TypeOK'
  BY BucketFacts DEF TypeOK, Nowhere
<1>2. LocksDivide'
  BY BucketFacts DEF LocksDivide
<1>3. LocksHeld'
  BY BucketFacts DEF LocksHeld, TypeOK
<1>4. Progress'
  BY BucketFacts DEF Progress, TypeOK
<1>5. ItemsWhereLookedFor'
  BY BucketFacts DEF ItemsWhereLookedFor, InOld, hashsize, TypeOK
<1>6. WorkersRight'
  BY BucketFacts DEF WorkersRight, TypeOK, BucketOf, InOld, hashsize, Nowhere
<1>7. CallsMatch'
  <2>1. \A v \in Threads \ {w} : wpc[v] # "idle" => key[v] # key[w]
    BY DEF LocksHeld
  <2>2. key[w] \in Keys
    BY DEF LocksHeld
  <2>3. Stored' = Stored \ {key[w]}
    BY StoredDelete
  <2> HIDE DEF IInv
  <2> QED BY <2>1, <2>2, <2>3 DEF CallsMatch, TypeOK, IInv
<1>8. PauseRight'
  BY DEF PauseRight, TypeOK
<1> QED BY <1>1, <1>2, <1>3, <1>4, <1>5, <1>6, <1>7, <1>8 DEF IInv

\* A worker ends its command.
LEMMA Step_item_unlock ==
    ASSUME PauseWorkers, IInv, NEW w \in Threads, item_unlock(w)
    PROVE  IInv'
<1> USE DEF IInv, item_unlock, vars, tableVars, workerVars, pauseVars
<1>1. TypeOK'
  BY BucketFacts DEF TypeOK, Nowhere
<1>2. LocksDivide'
  BY BucketFacts DEF LocksDivide
<1>3. LocksHeld'
  BY BucketFacts DEF LocksHeld, TypeOK
<1>4. Progress'
  BY BucketFacts DEF Progress, TypeOK
<1>5. ItemsWhereLookedFor'
  BY BucketFacts DEF ItemsWhereLookedFor, InOld, hashsize, TypeOK
<1>6. WorkersRight'
  BY BucketFacts DEF WorkersRight, TypeOK, BucketOf, InOld, hashsize, Nowhere
<1>7. CallsMatch'
  BY BucketFacts DEF CallsMatch, Stored, InOld, hashsize, TypeOK
<1>8. PauseRight'
  BY DEF PauseRight, TypeOK
<1> QED BY <1>1, <1>2, <1>3, <1>4, <1>5, <1>6, <1>7, <1>8 DEF IInv

\* No worker in a command has a key of the bucket that moves: it would need
\* the lock that the maintenance thread holds.
LEMMA Step_MoveBucket ==
    ASSUME PauseWorkers, IInv, MoveBucket
    PROVE  IInv'
<1> USE DEF IInv, MoveBucket, vars, tableVars, workerVars, pauseVars
<1>1. TypeOK'
  BY BucketFacts DEF TypeOK, Nowhere
<1>2. LocksDivide'
  BY BucketFacts DEF LocksDivide
<1>3. LocksHeld'
  BY BucketFacts DEF LocksHeld, TypeOK
<1>4. Progress'
  BY BucketFacts DEF Progress, TypeOK
<1>5. ItemsWhereLookedFor'
  <2>1. \A k \in Keys : Hash[k] % hashsize \in Nat
    BY BucketFacts
  <2>2. ASSUME NEW e \in old_hashtable'
        PROVE  InOld(e[2])' /\ e[1] = Hash[e[2]] % oldsize
    BY <2>2, InOldMove DEF ItemsWhereLookedFor, TypeOK
  <2>3. ASSUME NEW e \in primary_hashtable'
        PROVE  ~InOld(e[2])' /\ e[1] = Hash[e[2]] % hashsize
    <3>1. CASE e \in primary_hashtable
      BY <3>1, InOldMove DEF ItemsWhereLookedFor, TypeOK
    <3>2. CASE e \notin primary_hashtable
      <4>1. PICK f \in old_hashtable : f[1] = expand_bucket
                                      /\ e = <<Hash[f[2]] % hashsize, f[2]>>
        BY <2>3, <3>2
      <4>2. f[2] \in Keys /\ Hash[f[2]] % oldsize = expand_bucket
        BY <4>1 DEF ItemsWhereLookedFor, TypeOK
      <4> QED BY <4>1, <4>2, InOldMove
    <3> QED BY <3>1, <3>2
  <2> QED BY <2>2, <2>3 DEF ItemsWhereLookedFor, hashsize
<1>6. WorkersRight'
  <2>1. ASSUME NEW v \in Threads, wpc[v] # "idle"
        PROVE  key[v] \in Keys /\ (InOld(key[v])' <=> InOld(key[v]))
    <3>1. key[v] \in Keys /\ item_locks[LockOf(Hash[key[v]])] = v
      BY <2>1 DEF LocksHeld
    <3>2. Hash[key[v]] % oldsize # expand_bucket
      BY <3>1, BucketFacts DEF LocksHeld
    <3> QED BY <3>1, <3>2, InOldMove
  <2>2. \A v \in Threads : wpc[v] # "idle" => BucketOf(key[v])' = BucketOf(key[v])
    BY <2>1 DEF BucketOf, hashsize
  <2>3. expand_bucket \in Nat /\ oldsize \in Nat
    BY DEF TypeOK
  <2> QED BY <2>2, <2>3 DEF WorkersRight
<1>7. CallsMatch'
  <2>1. Stored' = Stored
    BY StoredMove
  <2> QED BY <2>1 DEF CallsMatch
<1>8. PauseRight'
  BY DEF PauseRight, TypeOK
<1> QED BY <1>1, <1>2, <1>3, <1>4, <1>5, <1>6, <1>7, <1>8 DEF IInv

\* When "expanding" is cleared every key is already looked for in the new
\* table.
LEMMA Step_CheckLastBucket ==
    ASSUME PauseWorkers, IInv, CheckLastBucket
    PROVE  IInv'
<1> USE DEF IInv, CheckLastBucket, vars, tableVars, workerVars, pauseVars
<1>1. TypeOK'
  BY BucketFacts DEF TypeOK, Nowhere
<1>2. LocksDivide'
  BY BucketFacts DEF LocksDivide
<1>3. LocksHeld'
  BY BucketFacts DEF LocksHeld, TypeOK
<1>4. Progress'
  <2>1. expand_bucket \in Nat /\ oldsize \in Nat /\ expand_bucket <= oldsize
    BY DEF Progress, TypeOK
  <2>2. expanding' <=> expand_bucket # oldsize
    OBVIOUS
  <2> QED BY <2>1, <2>2 DEF Progress
<1>5. ItemsWhereLookedFor'
  <2>1. \A k \in Keys : InOld(k)' <=> InOld(k)
    BY StoredLast
  <2> QED BY <2>1 DEF ItemsWhereLookedFor, TypeOK, hashsize
<1>6. WorkersRight'
  <2>1. \A k \in Keys : InOld(k)' <=> InOld(k)
    BY StoredLast
  <2>2. \A v \in Threads : wpc[v] # "idle" => BucketOf(key[v])' = BucketOf(key[v])
    BY <2>1 DEF BucketOf, hashsize, LocksHeld
  <2>3. expanding /\ (expanding' <=> expand_bucket # oldsize)
    BY DEF Progress
  <2>4. expand_bucket \in Nat /\ oldsize \in Nat
    BY DEF TypeOK
  <2> QED BY <2>2, <2>3, <2>4 DEF WorkersRight
<1>7. CallsMatch'
  <2>1. Stored' = Stored
    BY StoredLast
  <2> QED BY <2>1 DEF CallsMatch
<1>8. PauseRight'
  BY DEF PauseRight, TypeOK
<1> QED BY <1>1, <1>2, <1>3, <1>4, <1>5, <1>6, <1>7, <1>8 DEF IInv

\* With all workers hung, none has chosen a bucket when the tables are
\* swapped.
LEMMA Step_assoc_expand ==
    ASSUME PauseWorkers, IInv, assoc_expand
    PROVE  IInv'
<1> USE DEF IInv, assoc_expand, vars, tableVars, workerVars, pauseVars
<1>0. /\ \A v \in Threads : wpc[v] = "idle" /\ loc[v] = Nowhere
      /\ oldsize \in Nat \ {0} /\ hashsize \in Nat \ {0} /\ loc' = loc
  <2>1. hung = Workers
    BY AllHung DEF TypeOK
  <2>2. \A v \in Threads : wpc[v] = "idle"
    BY <2>1 DEF WorkersRight, PauseRight, TypeOK
  <2> QED BY <2>2 DEF WorkersRight, TypeOK, hashsize, Nowhere
<1>1. TypeOK'
  BY <1>0 DEF TypeOK
<1>2. LocksDivide'
  <2>1. PICK m \in 1 .. oldsize : oldsize = LockCount * m
    BY DEF LocksDivide
  <2>2. 2 * m \in 1 .. hashsize /\ hashsize = LockCount * (2 * m)
    BY <1>0, <2>1, SizeAssumption DEF hashsize
  <2> QED BY <2>2 DEF LocksDivide
<1>3. LocksHeld'
  BY BucketFacts DEF LocksHeld, TypeOK
<1>4. Progress'
  BY <1>0 DEF Progress
<1>5. ItemsWhereLookedFor'
  BY BucketFacts DEF ItemsWhereLookedFor, InOld, hashsize, TypeOK
<1>6. WorkersRight'
  <2>1. hung' = hung /\ wpc' = wpc /\ hung \subseteq Threads
    BY DEF TypeOK
  <2> QED BY <1>0, <2>1 DEF WorkersRight
<1>7. CallsMatch'
  BY <1>0 DEF CallsMatch
<1>8. PauseRight'
  BY DEF PauseRight, TypeOK
<1> QED BY <1>1, <1>2, <1>3, <1>4, <1>5, <1>6, <1>7, <1>8 DEF IInv

\* Steps that touch neither the tables nor the workers' commands can only
\* disturb the locks and the progress of the expansion.
LEMMA ControlStep ==
    ASSUME IInv, UNCHANGED <<tableVars, workerVars>>, TypeOK', LocksHeld', Progress',
           PauseRight', \A w \in hung' : wpc[w] = "idle"
    PROVE  IInv'
<1> USE DEF IInv, tableVars, workerVars
<1>1. LocksDivide' /\ ItemsWhereLookedFor'
  BY DEF LocksDivide, ItemsWhereLookedFor, InOld, hashsize
<1>2. WorkersRight'
  BY DEF WorkersRight, BucketOf, InOld, hashsize
<1>3. CallsMatch'
  BY DEF CallsMatch, Stored, InOld, hashsize
<1> QED BY <1>1, <1>2, <1>3 DEF IInv

\* A worker hangs between two commands.
LEMMA Step_register_thread_initialized ==
    ASSUME IInv, NEW w \in Workers, register_thread_initialized(w) PROVE IInv'
<1> USE DEF IInv, register_thread_initialized
<1>1. TypeOK' /\ UNCHANGED <<tableVars, workerVars>>
  BY DEF TypeOK, tableVars, workerVars, pauseVars
<1>2. LocksHeld'
  BY DEF LocksHeld, TypeOK, tableVars, workerVars
<1>3. Progress' /\ \A v \in hung' : wpc[v] = "idle"
  BY DEF Progress, WorkersRight, TypeOK, tableVars, pauseVars
<1>4. PauseRight'
  <2>1. notified' = notified \ {w} /\ hung' = hung \cup {w} /\ init_count' = init_count + 1
    OBVIOUS
  <2>2. Cardinality(Workers \ notified') = Cardinality(Workers \ notified) + 1
    BY <2>1, OneMoreReport
  <2>3. Workers \ notified' \subseteq (Workers \ notified) \cup {w}
    BY <2>1
  <2> QED BY <2>1, <2>2, <2>3 DEF PauseRight, tableVars, workerVars
<1> HIDE DEF IInv, register_thread_initialized
<1> QED BY <1>1, <1>2, <1>3, <1>4, ControlStep

\* A worker gets worker_hang_lock and goes on, but not while reports are awaited.
LEMMA Step_LeaveHang ==
    ASSUME IInv, NEW w \in Workers, LeaveHang(w) PROVE IInv'
<1> USE DEF IInv, LeaveHang
<1>1. TypeOK' /\ UNCHANGED <<tableVars, workerVars>>
  BY DEF TypeOK, tableVars, workerVars, pauseVars
<1>2. LocksHeld'
  BY DEF LocksHeld, TypeOK, tableVars, workerVars
<1>3. Progress' /\ \A v \in hung' : wpc[v] = "idle"
  BY DEF Progress, WorkersRight, TypeOK, tableVars, pauseVars
<1>4. PauseRight'
  BY DEF PauseRight, TypeOK, tableVars, workerVars, pauseVars
<1> HIDE DEF IInv, LeaveHang
<1> QED BY <1>1, <1>2, <1>3, <1>4, ControlStep

\* The mover gets its lock.
LEMMA Step_MoverWakes ==
    ASSUME IInv, MoverWakes PROVE IInv'
<1> USE DEF IInv, MoverWakes
<1>1. TypeOK' /\ UNCHANGED <<tableVars, workerVars>>
  BY DEF TypeOK, tableVars, workerVars, pauseVars
<1>2. LocksHeld'
  BY DEF LocksHeld, TypeOK, tableVars, workerVars
<1>3. Progress' /\ \A v \in hung' : wpc[v] = "idle"
  BY DEF Progress, WorkersRight, TypeOK, tableVars, pauseVars
<1>4. PauseRight'
  BY DEF PauseRight, TypeOK, tableVars, workerVars, pauseVars
<1> HIDE DEF IInv, MoverWakes
<1> QED BY <1>1, <1>2, <1>3, <1>4, ControlStep

\* The mover has finished its move.
LEMMA Step_MoverWaits ==
    ASSUME IInv, MoverWaits PROVE IInv'
<1> USE DEF IInv, MoverWaits
<1>1. TypeOK' /\ UNCHANGED <<tableVars, workerVars>>
  BY DEF TypeOK, tableVars, workerVars, pauseVars
<1>2. LocksHeld'
  BY DEF LocksHeld, TypeOK, tableVars, workerVars
<1>3. Progress' /\ \A v \in hung' : wpc[v] = "idle"
  BY DEF Progress, WorkersRight, TypeOK, tableVars, pauseVars
<1>4. PauseRight'
  BY DEF PauseRight, TypeOK, tableVars, workerVars, pauseVars
<1> HIDE DEF IInv, MoverWaits
<1> QED BY <1>1, <1>2, <1>3, <1>4, ControlStep

\* The maintenance thread tests its loop conditions.
LEMMA Step_MaintLoop ==
    ASSUME IInv, MaintLoop PROVE IInv'
<1> USE DEF IInv, MaintLoop
<1>1. TypeOK' /\ UNCHANGED <<tableVars, workerVars>>
  BY DEF TypeOK, tableVars, workerVars, pauseVars
<1>2. LocksHeld'
  BY DEF LocksHeld, TypeOK, tableVars, workerVars
<1>3. Progress' /\ \A v \in hung' : wpc[v] = "idle"
  BY DEF Progress, WorkersRight, TypeOK, tableVars, pauseVars
<1>4. PauseRight'
  BY DEF PauseRight, TypeOK, tableVars, workerVars, pauseVars
<1> HIDE DEF IInv, MaintLoop
<1> QED BY <1>1, <1>2, <1>3, <1>4, ControlStep

\* The maintenance thread gets the lock of the bucket.
LEMMA Step_item_trylock ==
    ASSUME IInv, item_trylock PROVE IInv'
<1> USE DEF IInv, item_trylock
<1>1. TypeOK' /\ UNCHANGED <<tableVars, workerVars>>
  BY DEF TypeOK, tableVars, workerVars, pauseVars
<1>2. LocksHeld'
  <2>1. LockOf(expand_bucket) \in Locks
    BY LockFacts DEF TypeOK
  <2> QED BY <2>1 DEF LocksHeld, TypeOK, tableVars, workerVars
<1>3. Progress' /\ \A v \in hung' : wpc[v] = "idle"
  BY DEF Progress, WorkersRight, TypeOK, tableVars, pauseVars
<1>4. PauseRight'
  BY DEF PauseRight, TypeOK, tableVars, workerVars, pauseVars
<1> HIDE DEF IInv, item_trylock
<1> QED BY <1>1, <1>2, <1>3, <1>4, ControlStep

\* The maintenance thread does not get the lock.
LEMMA Step_TrylockBusy ==
    ASSUME IInv, TrylockBusy PROVE IInv'
<1> USE DEF IInv, TrylockBusy
<1>1. TypeOK' /\ UNCHANGED <<tableVars, workerVars>>
  BY DEF TypeOK, tableVars, workerVars, pauseVars
<1>2. LocksHeld'
  BY DEF LocksHeld, TypeOK, tableVars, workerVars
<1>3. Progress' /\ \A v \in hung' : wpc[v] = "idle"
  BY DEF Progress, WorkersRight, TypeOK, tableVars, pauseVars
<1>4. PauseRight'
  BY DEF PauseRight, TypeOK, tableVars, workerVars, pauseVars
<1> HIDE DEF IInv, TrylockBusy
<1> QED BY <1>1, <1>2, <1>3, <1>4, ControlStep

\* The maintenance thread releases the lock of the bucket it moved.
LEMMA Step_item_trylock_unlock ==
    ASSUME IInv, item_trylock_unlock PROVE IInv'
<1> USE DEF IInv, item_trylock_unlock
<1>1. TypeOK' /\ UNCHANGED <<tableVars, workerVars>>
  BY DEF TypeOK, tableVars, workerVars, pauseVars
<1>2. LocksHeld'
  BY DEF LocksHeld, TypeOK, tableVars, workerVars
<1>3. Progress' /\ \A v \in hung' : wpc[v] = "idle"
  BY DEF Progress, WorkersRight, TypeOK, tableVars, pauseVars
<1>4. PauseRight'
  BY DEF PauseRight, TypeOK, tableVars, workerVars, pauseVars
<1> HIDE DEF IInv, item_trylock_unlock
<1> QED BY <1>1, <1>2, <1>3, <1>4, ControlStep

\* The maintenance thread waits.
LEMMA Step_CondWait ==
    ASSUME IInv, CondWait PROVE IInv'
<1> USE DEF IInv, CondWait
<1>1. TypeOK' /\ UNCHANGED <<tableVars, workerVars>>
  BY DEF TypeOK, tableVars, workerVars, pauseVars
<1>2. LocksHeld'
  BY DEF LocksHeld, TypeOK, tableVars, workerVars
<1>3. Progress' /\ \A v \in hung' : wpc[v] = "idle"
  BY DEF Progress, WorkersRight, TypeOK, tableVars, pauseVars
<1>4. PauseRight'
  BY DEF PauseRight, TypeOK, tableVars, workerVars, pauseVars
<1> HIDE DEF IInv, CondWait
<1> QED BY <1>1, <1>2, <1>3, <1>4, ControlStep

\* It wakes without a signal.
LEMMA Step_SpuriousWakeup ==
    ASSUME IInv, SpuriousWakeup PROVE IInv'
<1> USE DEF IInv, SpuriousWakeup
<1>1. TypeOK' /\ UNCHANGED <<tableVars, workerVars>>
  BY DEF TypeOK, tableVars, workerVars, pauseVars
<1>2. LocksHeld'
  BY DEF LocksHeld, TypeOK, tableVars, workerVars
<1>3. Progress' /\ \A v \in hung' : wpc[v] = "idle"
  BY DEF Progress, WorkersRight, TypeOK, tableVars, pauseVars
<1>4. PauseRight'
  BY DEF PauseRight, TypeOK, tableVars, workerVars, pauseVars
<1> HIDE DEF IInv, SpuriousWakeup
<1> QED BY <1>1, <1>2, <1>3, <1>4, ControlStep

\* The maintenance thread stops the mover.
LEMMA Step_slabs_rebalancer_pause ==
    ASSUME IInv, slabs_rebalancer_pause PROVE IInv'
<1> USE DEF IInv, slabs_rebalancer_pause
<1>1. TypeOK' /\ UNCHANGED <<tableVars, workerVars>>
  BY DEF TypeOK, tableVars, workerVars, pauseVars
<1>2. LocksHeld'
  BY DEF LocksHeld, TypeOK, tableVars, workerVars
<1>3. Progress' /\ \A v \in hung' : wpc[v] = "idle"
  BY DEF Progress, WorkersRight, TypeOK, tableVars, pauseVars
<1>4. PauseRight'
  BY DEF PauseRight, TypeOK, tableVars, workerVars, pauseVars
<1> HIDE DEF IInv, slabs_rebalancer_pause
<1> QED BY <1>1, <1>2, <1>3, <1>4, ControlStep

\* The thread resets init_count and tells every worker to report.
LEMMA Step_pause_threads ==
    ASSUME IInv, pause_threads PROVE IInv'
<1> USE DEF IInv, pause_threads
<1>1. TypeOK' /\ UNCHANGED <<tableVars, workerVars>>
  BY DEF TypeOK, tableVars, workerVars, pauseVars
<1>2. LocksHeld'
  BY DEF LocksHeld, TypeOK, tableVars, workerVars
<1>3. Progress' /\ \A v \in hung' : wpc[v] = "idle"
  BY DEF Progress, WorkersRight, TypeOK, tableVars, pauseVars
<1>4. PauseRight'
  <2>1. Cardinality({}) = 0
    BY FS_EmptySet
  <2>2. ASSUME PauseWorkers PROVE Workers \ notified' = {}
    BY <2>2
  <2> QED BY <2>1, <2>2 DEF PauseRight, TypeOK, tableVars, workerVars
<1> HIDE DEF IInv, pause_threads
<1> QED BY <1>1, <1>2, <1>3, <1>4, ControlStep

\* The two locks of the pause are given back.
LEMMA Step_resume_threads ==
    ASSUME IInv, resume_threads PROVE IInv'
<1> USE DEF IInv, resume_threads
<1>1. TypeOK' /\ UNCHANGED <<tableVars, workerVars>>
  BY DEF TypeOK, tableVars, workerVars, pauseVars
<1>2. LocksHeld'
  BY DEF LocksHeld, TypeOK, tableVars, workerVars
<1>3. Progress' /\ \A v \in hung' : wpc[v] = "idle"
  BY DEF Progress, WorkersRight, TypeOK, tableVars, pauseVars
<1>4. PauseRight'
  BY DEF PauseRight, TypeOK, tableVars, workerVars, pauseVars
<1> HIDE DEF IInv, resume_threads
<1> QED BY <1>1, <1>2, <1>3, <1>4, ControlStep

\* calloc fails.
LEMMA Step_ExpandFails ==
    ASSUME IInv, ExpandFails PROVE IInv'
<1> USE DEF IInv, ExpandFails
<1>1. TypeOK' /\ UNCHANGED <<tableVars, workerVars>>
  BY DEF TypeOK, tableVars, workerVars, pauseVars
<1>2. LocksHeld'
  BY DEF LocksHeld, TypeOK, tableVars, workerVars
<1>3. Progress' /\ \A v \in hung' : wpc[v] = "idle"
  BY DEF Progress, WorkersRight, TypeOK, tableVars, pauseVars
<1>4. PauseRight'
  BY DEF PauseRight, TypeOK, tableVars, workerVars, pauseVars
<1> HIDE DEF IInv, ExpandFails
<1> QED BY <1>1, <1>2, <1>3, <1>4, ControlStep

\* The clock asks for an expansion.
LEMMA Step_assoc_start_expand ==
    ASSUME IInv, assoc_start_expand PROVE IInv'
<1> USE DEF IInv, assoc_start_expand
<1>1. TypeOK' /\ UNCHANGED <<tableVars, workerVars>>
  BY DEF TypeOK, tableVars, workerVars, pauseVars
<1>2. LocksHeld'
  BY DEF LocksHeld, TypeOK, tableVars, workerVars
<1>3. Progress' /\ \A v \in hung' : wpc[v] = "idle"
  BY DEF Progress, WorkersRight, TypeOK, tableVars, pauseVars
<1>4. PauseRight'
  BY DEF PauseRight, TypeOK, tableVars, workerVars, pauseVars
<1> HIDE DEF IInv, assoc_start_expand
<1> QED BY <1>1, <1>2, <1>3, <1>4, ControlStep

\* The thread is told to stop.
LEMMA Step_stop_assoc_maintenance_thread ==
    ASSUME IInv, stop_assoc_maintenance_thread PROVE IInv'
<1> USE DEF IInv, stop_assoc_maintenance_thread
<1>1. TypeOK' /\ UNCHANGED <<tableVars, workerVars>>
  BY DEF TypeOK, tableVars, workerVars, pauseVars
<1>2. LocksHeld'
  BY DEF LocksHeld, TypeOK, tableVars, workerVars
<1>3. Progress' /\ \A v \in hung' : wpc[v] = "idle"
  BY DEF Progress, WorkersRight, TypeOK, tableVars, pauseVars
<1>4. PauseRight'
  BY DEF PauseRight, TypeOK, tableVars, workerVars, pauseVars
<1> HIDE DEF IInv, stop_assoc_maintenance_thread
<1> QED BY <1>1, <1>2, <1>3, <1>4, ControlStep

\* Every step preserves the invariant.
LEMMA StepIInv == ASSUME PauseWorkers, IInv, [Next]_vars PROVE IInv'
<1>1. ASSUME NEW w \in Workers, Worker(w) PROVE IInv'
  BY <1>1, Step_item_lock, Step_ReadExpanding, Step_PickBucket, Step_assoc_find,
     Step_assoc_insert, Step_assoc_delete, Step_item_unlock,
     Step_register_thread_initialized, Step_LeaveHang DEF Worker, InCommand
<1>2. ASSUME Maintenance PROVE IInv'
  BY <1>2, Step_MaintLoop, Step_item_trylock, Step_TrylockBusy, Step_MoveBucket,
     Step_CheckLastBucket, Step_item_trylock_unlock, Step_CondWait,
     Step_slabs_rebalancer_pause, Step_pause_threads, Step_resume_threads,
     Step_assoc_expand, Step_ExpandFails DEF Maintenance
<1>3. ASSUME SpuriousWakeup \/ assoc_start_expand \/ stop_assoc_maintenance_thread
      PROVE  IInv'
  BY <1>3, Step_SpuriousWakeup, Step_assoc_start_expand,
     Step_stop_assoc_maintenance_thread
<1>4. ASSUME UNCHANGED vars PROVE IInv'
  BY <1>4 DEF vars, IInv, TypeOK, LocksDivide, LocksHeld, Progress,
     ItemsWhereLookedFor, WorkersRight, CallsMatch, PauseRight, BucketOf, InOld, Stored,
     hashsize, KeyInBucket
<1>5. ASSUME SlabMover PROVE IInv'
  BY <1>5, Step_MoverWakes, Step_MoverWaits, Step_MoverTakesItem, Step_ReadExpanding,
     Step_PickBucket, Step_assoc_insert, Step_assoc_delete, Step_item_unlock
     DEF SlabMover, InCommand
<1> QED BY <1>1, <1>2, <1>3, <1>4, <1>5 DEF Next

\* The invariant of the whole protocol between the workers and
\* assoc_maintenance_thread.
THEOREM Invariance == ASSUME PauseWorkers PROVE Spec => []IInv
BY InitIInv, StepIInv, PTL DEF Spec
-----------------------------------------------------------------------------
(* The results.                                                            *)

\* Every variable of assoc.c and of its threads keeps its type.
THEOREM TypeCorrect == ASSUME PauseWorkers PROVE Spec => []TypeOK
<1>1. IInv => TypeOK
  BY DEF IInv
<1> QED BY <1>1, Invariance, PTL

\* Every item is in the bucket where assoc_find looks for it, at every
\* moment of an expansion.
THEOREM ItemsFindable == ASSUME PauseWorkers PROVE Spec => []ItemsWhereLookedFor
<1>1. IInv => ItemsWhereLookedFor
  BY DEF IInv
<1> QED BY <1>1, Invariance, PTL

\* The assertion at the end of assoc_delete never fails.
THEOREM DeleteFinds == ASSUME PauseWorkers PROVE Spec => []AssocDeleteFinds
<1>1. IInv => AssocDeleteFinds
  BY LocatedSees DEF AssocDeleteFinds, IInv, CallsMatch
<1> QED BY <1>1, Invariance, PTL

\* assoc_insert is never called with a key that is already in the table.
THEOREM InsertIsNew == ASSUME PauseWorkers PROVE Spec => []AssocInsertIsNew
<1>1. IInv => AssocInsertIsNew
  BY DEF AssocInsertIsNew, IInv, CallsMatch
<1> QED BY <1>1, Invariance, PTL

\* The lock and the old bucket of a key can be read off its new bucket.
LEMMA NewBucketFacts ==
    ASSUME TypeOK, LocksDivide, NEW k \in Keys
    PROVE  /\ (Hash[k] % hashsize) % oldsize = Hash[k] % oldsize
           /\ LockOf(Hash[k]) = LockOf(Hash[k] % hashsize)
<1>1. PICK m \in Nat \ {0} : oldsize = LockCount * m
  BY DEF LocksDivide, TypeOK
<1>2. Hash[k] \in Nat /\ LockCount \in Nat \ {0} /\ oldsize \in Nat \ {0}
  BY SizeAssumption DEF TypeOK
<1>3. hashsize = oldsize * 2 /\ hashsize = LockCount * (m * 2) /\ m * 2 \in Nat \ {0}
  BY <1>1, <1>2 DEF hashsize
<1>4. (Hash[k] % hashsize) % oldsize = Hash[k] % oldsize
  BY <1>2, <1>3, LockOfBucket
<1>5. LockOf(Hash[k]) = LockOf(Hash[k] % hashsize)
  <2>1. PICK n \in Nat \ {0} : hashsize = LockCount * n
    BY <1>3, Zenon
  <2>2. Hash[k] % LockCount = (Hash[k] % (LockCount * n)) % LockCount
    BY <1>2, LockOfBucket
  <2> QED BY <2>1, <2>2, Zenon DEF LockOf
<1> QED BY <1>4, <1>5

\* No two threads are ever at the same bucket, and no worker is in a table
\* that has been freed.
THEOREM BucketsExclusive == ASSUME PauseWorkers PROVE Spec => []NoBucketShared
<1>1. ASSUME IInv PROVE NoBucketShared
  <2> SUFFICES ASSUME NEW w \in Threads, wpc[w] = "located"
               PROVE  /\ loc[w].tab = "old" => expanding
                      /\ mpc = "migrate" =>
                           /\ <<loc[w].tab, loc[w].b>> # <<"old", expand_bucket>>
                           /\ loc[w].tab = "primary" => loc[w].b % oldsize # expand_bucket
                      /\ \A v \in Threads \ {w} : wpc[v] = "located" => loc[v] # loc[w]
    BY DEF NoBucketShared
  <2>1. \A v \in Threads : wpc[v] = "located" =>
            /\ key[v] \in Keys /\ loc[v] = BucketOf(key[v])
            /\ item_locks[LockOf(Hash[key[v]])] = v
    BY <1>1 DEF IInv, WorkersRight, LocksHeld
  <2>6. \A v \in Threads : wpc[v] = "located" =>
            \/ /\ InOld(key[v]) /\ loc[v].tab = "old"
               /\ loc[v].b = Hash[key[v]] % oldsize
            \/ /\ ~InOld(key[v]) /\ loc[v].tab = "primary"
               /\ loc[v].b = Hash[key[v]] % hashsize
    <3> TAKE v \in Threads
    <3>1. CASE InOld(key[v])
      <4>1. BucketOf(key[v]) = [tab |-> "old", b |-> Hash[key[v]] % oldsize]
        BY <3>1 DEF BucketOf
      <4> QED BY <2>1, <3>1, <4>1
    <3>2. CASE ~InOld(key[v])
      <4>1. BucketOf(key[v]) = [tab |-> "primary", b |-> Hash[key[v]] % hashsize]
        BY <3>2 DEF BucketOf
      <4> QED BY <2>1, <3>2, <4>1
    <3> QED BY <3>1, <3>2
  <2>2. \A v \in Threads : wpc[v] = "located" => LockOf(Hash[key[v]]) = LockOf(loc[v].b)
    BY <1>1, <2>1, <2>6, BucketFacts, NewBucketFacts DEF IInv
  <2>3. loc[w].tab = "old" => expanding
    BY <2>6 DEF InOld
  <2>4. \A v \in Threads \ {w} : wpc[v] = "located" => loc[v] # loc[w]
    BY <2>1, <2>2
  <2>5. ASSUME mpc = "migrate"
        PROVE  /\ <<loc[w].tab, loc[w].b>> # <<"old", expand_bucket>>
               /\ loc[w].tab = "primary" => loc[w].b % oldsize # expand_bucket
    <3>1. LockOf(Hash[key[w]]) # LockOf(expand_bucket)
      BY <1>1, <2>1, <2>5 DEF IInv, LocksHeld
    <3>2. Hash[key[w]] % oldsize # expand_bucket
      BY <1>1, <2>1, <3>1, BucketFacts DEF IInv
    <3>3. loc[w].tab = "primary" => loc[w].b % oldsize = Hash[key[w]] % oldsize
      BY <1>1, <2>1, <2>6, NewBucketFacts DEF IInv
    <3> QED BY <2>2, <3>1, <3>2, <3>3
  <2> QED BY <2>3, <2>4, <2>5
<1> QED BY <1>1, Invariance, PTL

\* Every step of the hash table is a step of a dictionary or leaves the
\* dictionary alone, so expansion is invisible to the callers.
LEMMA StepDictionary ==
    ASSUME IInv, [Next]_vars PROVE [D!DictNext]_(D!dvars)
<1> DEFINE Same == Stored' = Stored /\ found' = found
<1>1. ASSUME UNCHANGED <<tableVars, found>> PROVE Same
  BY <1>1 DEF tableVars, Stored, InOld, hashsize
<1>2. ASSUME NEW w \in Workers, assoc_find(w) PROVE D!DictFind(w, key[w]) /\ key[w] \in Keys
  <2>1. Stored' = Stored
    BY <1>2 DEF assoc_find, tableVars, Stored, InOld, hashsize
  <2>2. key[w] \in Keys /\ (KeyInBucket(w) <=> key[w] \in Stored)
    BY <1>2, LocatedSees DEF assoc_find
  <2>3. found' = [found EXCEPT ![w] = {<<key[w], key[w] \in Stored>>}]
    <3>1. KeyInBucket(w) = (key[w] \in Stored)
      BY <2>2 DEF KeyInBucket
    <3> QED BY <1>2, <3>1, Zenon DEF assoc_find
  <2> QED BY <2>1, <2>2, <2>3 DEF D!DictFind
<1>3. ASSUME NEW w \in Threads, assoc_insert(w) PROVE D!DictInsert(key[w]) /\ key[w] \in Keys
  <2>1. key[w] \in Keys /\ key[w] \notin Stored
    BY <1>3 DEF assoc_insert, IInv, LocksHeld, CallsMatch
  <2> QED BY <1>3, <2>1, StoredInsert DEF D!DictInsert, assoc_insert
<1>4. ASSUME NEW w \in Threads, assoc_delete(w) PROVE D!DictDelete(key[w]) /\ key[w] \in Keys
  <2>1. key[w] \in Keys /\ key[w] \in Stored
    BY <1>4 DEF assoc_delete, IInv, LocksHeld, CallsMatch
  <2> QED BY <1>4, <2>1, StoredDelete DEF D!DictDelete, assoc_delete
<1>5. ASSUME NEW w \in Threads,
             \/ (w \in Workers /\ item_lock(w))
             \/ ReadExpanding(w) \/ PickBucket(w) \/ LeaveHang(w)
             \/ register_thread_initialized(w)
             \/ MoverWakes \/ MoverWaits \/ MoverTakesItem
      PROVE  Same
  BY <1>1, <1>5 DEF item_lock, ReadExpanding, PickBucket, LeaveHang,
     register_thread_initialized, MoverWakes, MoverWaits, MoverTakesItem, workerVars
<1>10. ASSUME NEW w \in Threads, item_unlock(w)
       PROVE  Same \/ (w \in Workers /\ D!DictReturn(w))
  <2>1. Stored' = Stored /\ found' = [u \in Workers |-> IF u = w THEN {} ELSE found[u]]
    BY <1>10 DEF item_unlock, tableVars, Stored, InOld, hashsize
  <2>2. found \in [Workers -> SUBSET (Keys \X BOOLEAN)]
    BY DEF IInv, TypeOK
  <2>3. CASE w \in Workers
    <3>1. found' = [found EXCEPT ![w] = {}]
      BY <2>1, <2>2, <2>3
    <3> QED BY <2>1, <2>3, <3>1 DEF D!DictReturn
  <2>4. CASE w \notin Workers
    <3>1. found' = [u \in Workers |-> found[u]]
      BY <2>1, <2>2, <2>4
    <3>2. found = [u \in Workers |-> found[u]]
      BY <2>2
    <3> QED BY <2>1, <3>1, <3>2, Zenon
  <2> QED BY <2>3, <2>4
<1>6. ASSUME Maintenance PROVE Same
  <2>1. CASE MoveBucket
    BY <2>1, StoredMove DEF MoveBucket, workerVars
  <2>2. CASE CheckLastBucket
    BY <2>2, StoredLast DEF CheckLastBucket, workerVars
  <2>3. CASE assoc_expand
    BY <2>3, StoredExpand DEF assoc_expand
  <2>4. CASE \/ MaintLoop \/ item_trylock \/ TrylockBusy \/ item_trylock_unlock
             \/ CondWait \/ ExpandFails
    BY <1>1, <2>4 DEF MaintLoop, item_trylock, TrylockBusy, item_trylock_unlock,
       CondWait, ExpandFails, workerVars
  <2>5. CASE slabs_rebalancer_pause \/ pause_threads \/ resume_threads
    BY <1>1, <2>5 DEF slabs_rebalancer_pause, pause_threads, resume_threads, workerVars
  <2> QED BY <1>6, <2>1, <2>2, <2>3, <2>4, <2>5 DEF Maintenance
<1>7. ASSUME \/ SpuriousWakeup \/ assoc_start_expand \/ stop_assoc_maintenance_thread
             \/ UNCHANGED vars
      PROVE  Same
  BY <1>1, <1>7 DEF SpuriousWakeup, assoc_start_expand, stop_assoc_maintenance_thread,
     vars, tableVars, workerVars
<1> HIDE DEF Same
<1>8. CASE Same
  BY <1>8 DEF Same, D!dvars
<1>9. CASE \/ \E w \in Workers : assoc_find(w) \/ D!DictReturn(w)
           \/ \E w \in Threads : assoc_insert(w) \/ assoc_delete(w)
  BY <1>2, <1>3, <1>4, <1>9 DEF D!DictNext
<1>11. ASSUME NEW w \in Workers, Worker(w) PROVE [D!DictNext]_(D!dvars)
  BY <1>5, <1>8, <1>9, <1>10, <1>11 DEF Worker, InCommand
<1>12. ASSUME SlabMover PROVE [D!DictNext]_(D!dvars)
  BY <1>5, <1>8, <1>9, <1>10, <1>12 DEF SlabMover, InCommand
<1> QED BY <1>6, <1>7, <1>8, <1>11, <1>12 DEF Next

\* assoc.c under the item locks implements the abstract dictionary.
THEOREM RefinesDictionary == ASSUME PauseWorkers PROVE Spec => ImplementsDictionary
<1>1. Init => D!DictInit
  BY DEF Init, D!DictInit, Stored, InOld
<1>2. IInv /\ [Next]_vars => [D!DictNext]_(D!dvars)
  BY StepDictionary
<1> QED BY <1>1, <1>2, Invariance, PTL DEF Spec, ImplementsDictionary, D!DictSpec
=============================================================================
