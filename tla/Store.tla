-------------------------------- MODULE Store -------------------------------
(***************************************************************************)
(* The contents of the cache and the functions that change them: what      *)
(* src/slabs_curd/memcached.c and items.c do to items while the item lock  *)
(* of the key is held.  A function of the code that changes the cache is   *)
(* an operator from the contents db to the new contents, or to the set of  *)
(* the possible ones where an allocation may fail.                         *)
(*                                                                         *)
(*   db.item         what is in each slot of memory                        *)
(*   db.table        the hash table: the slot of the item of a key         *)
(*   db.cas_id       the counter of get_cas_id                             *)
(*   db.now          current_time                                          *)
(*   db.oldest_live, db.oldest_cas   settings changed by flush_all         *)
(*   db.flushed_at   history: cas_id at the last flush                     *)
(*                                                                         *)
(* The data of an item is its value without the trailing CRLF, a sequence  *)
(* of characters of which only digits and blanks are told apart.           *)
(***************************************************************************)
EXTENDS Integers, Sequences, FiniteSets, FiniteSetsExt, SequencesExt

CONSTANTS
    Keys,       \* the keys clients use
    Slots,      \* places for items; a set of numbers
    None,       \* NULL
    Modulus,    \* 2^64 of the unsigned integers of incr and decr
    ChunkMax    \* values longer than this are kept in chunks

ASSUME StoreAssumption ==
    /\ Slots \subseteq Nat \ {0} /\ Slots # {}
    /\ None \notin Keys /\ None \notin Slots
    /\ Modulus \in 11..100          \* a number has one digit or two
    /\ ChunkMax \in Nat

Blank == 10
Other == 11
Chars == 0..11

FreeItem == [ref |-> 0, linked |-> FALSE, key |-> None, data |-> <<>>,
             cas |-> 0, time |-> 0, exptime |-> 0]

EmptyDb == [item |-> [i \in Slots |-> FreeItem], table |-> [k \in Keys |-> None],
            cas_id |-> 0, now |-> 2, oldest_live |-> 0, oldest_cas |-> 0,
            flushed_at |-> 0]

-----------------------------------------------------------------------------
(* Reference counts, linking and unlinking.                                *)

refcount_incr(db, i) == [db EXCEPT !.item[i].ref = @ + 1]

do_item_remove(db, i) ==
    IF db.item[i].ref = 1 THEN [db EXCEPT !.item[i] = FreeItem]
                          ELSE [db EXCEPT !.item[i].ref = @ - 1]

do_item_link(db, i) ==
    [db EXCEPT !.cas_id = @ + 1,
               !.table[db.item[i].key] = i,
               !.item[i].linked = TRUE, !.item[i].time = db.now,
               !.item[i].cas = db.cas_id + 1, !.item[i].ref = @ + 1]

do_item_unlink(db, i) ==
    IF db.item[i].linked
    THEN do_item_remove([db EXCEPT !.item[i].linked = FALSE,
                                   !.table[db.item[i].key] = None], i)
    ELSE db

do_item_replace(db, i, new) == do_item_link(do_item_unlink(db, i), new)

(* flush_all only notes a time and a CAS; items are dropped when they are  *)
(* next looked for.                                                        *)
item_is_flushed(db, i) ==
    /\ db.oldest_live # 0
    /\ db.oldest_live <= db.now
    /\ \/ db.item[i].time <= db.oldest_live
       \/ db.oldest_cas # 0 /\ db.item[i].cas # 0 /\ db.item[i].cas < db.oldest_cas

Expired(db, i) == db.item[i].exptime # 0 /\ db.item[i].exptime <= db.now

(* The marks it leaves for the LRU lists are not modelled here.            *)
do_item_get(db, k) ==
    LET i  == db.table[k]
        up == refcount_incr(db, i)
    IN  IF i = None THEN [db |-> db, it |-> None]
        ELSE IF item_is_flushed(db, i) \/ Expired(db, i)
        THEN [db |-> do_item_remove(do_item_unlink(up, i), i), it |-> None]
        ELSE [db |-> up, it |-> i]

do_item_touch(db, k, exptime) ==
    LET g == do_item_get(db, k)
    IN  IF g.it = None THEN g
        ELSE [g EXCEPT !.db.item[g.it].exptime = exptime]

(* Memory: a free chunk, or one taken from an item that nobody refers to.  *)
(* When the tails of the lists are referenced, or locked by other workers, *)
(* do_item_alloc_pull gives up.                                            *)
do_item_alloc_pull(db) ==
    LET free == {i \in Slots : db.item[i].ref = 0}
        tail == {i \in Slots : db.item[i].linked /\ db.item[i].ref = 1}
    IN  IF free # {} THEN {[db |-> db, it |-> Min(free)]}
        ELSE {[db |-> do_item_unlink(db, i), it |-> i] : i \in tail}
             \cup {[db |-> db, it |-> None]}

do_item_alloc(db, k, data, exptime) ==
    {IF p.it = None THEN p
     ELSE [p EXCEPT !.db.item[p.it] = [FreeItem EXCEPT !.ref = 1, !.key = k,
                                        !.data = data, !.exptime = exptime]]
        : p \in do_item_alloc_pull(db)}

(* The entries of thread.c: the same under the item lock of the key.       *)
item_alloc(db, k, data, exptime) == do_item_alloc(db, k, data, exptime)
item_get(db, k) == do_item_get(db, k)
item_touch(db, k, exptime) == do_item_touch(db, k, exptime)
item_remove(db, i) == do_item_remove(db, i)
item_unlink(db, i) == do_item_unlink(db, i)

(* Relative times; a negative one is in the past.                          *)
realtime(db, exptime) ==
    IF exptime = 0 THEN 0 ELSE IF exptime < 0 THEN 1 ELSE db.now + exptime

-----------------------------------------------------------------------------
(* Numbers as text.                                                        *)

(* snprintf "%llu"                                                         *)
Decimal(n) == IF n < 10 THEN <<n>> ELSE <<n \div 10, n % 10>>

(* The digits at the start, up to the end or to a blank; FALSE when there  *)
(* is something else or the number needs more than 64 bits.                *)
DigitCount(s) ==
    CHOOSE n \in 0..Len(s) : /\ \A j \in 1..n : s[j] < 10
                             /\ n = Len(s) \/ s[n + 1] >= 10

Value(s) == FoldLeft(LAMBDA v, d : 10 * v + d, 0, SubSeq(s, 1, DigitCount(s)))

safe_strtoull(s) ==
    LET n == DigitCount(s)
    IN  /\ n > 0
        /\ n = Len(s) \/ s[n + 1] = Blank
        /\ Value(s) < Modulus

Padded_Zeros(s, len) == s \o [j \in 1..(len - Len(s)) |-> 0]

Padded(s, len) == s \o [j \in 1..(len - Len(s)) |-> Blank]

(* incr wraps around, decr stops at 0.                                     *)
DeltaResult(v, incr, delta) ==
    IF incr THEN (v + delta) % Modulus
    ELSE IF delta > v THEN 0 ELSE v - delta

InPlace_AnyRef(db, i, res) == Len(res) <= Len(db.item[i].data)

(* The new value overwrites the old one only when it is not longer and     *)
(* nobody else refers to the item (our reference and the hash table's).    *)
InPlace(db, i, res) == Len(res) <= Len(db.item[i].data) /\ db.item[i].ref = 2

UpdateInPlace_KeepsCas(db, i, res) ==
    [db EXCEPT !.item[i].data = Padded(res, Len(@))]

UpdateInPlace(db, i, res) ==
    [db EXCEPT !.cas_id = @ + 1, !.item[i].cas = db.cas_id + 1,
               !.item[i].data = Padded(res, Len(@))]

(* An empty value is refused without giving its reference back.            *)
do_add_delta(db0, k, incr, delta, cas) ==
    LET g   == do_item_get(db0, k)
        db  == g.db
        i   == g.it
        res == Decimal(DeltaResult(Value(db.item[i].data), incr, delta))
        Out(d, ret) == [db |-> d, ret |-> ret]
        Replaced(a) ==
            LET d == do_item_replace(a.db, i, a.it)
            IN  do_item_remove([d EXCEPT !.item[i].cas = d.item[a.it].cas], a.it)
    IN  IF i = None THEN {Out(db, "NOT_FOUND")}
        ELSE IF db.item[i].data = <<>> THEN {Out(db, "NON_NUMERIC")}
        ELSE IF cas # 0 /\ cas # db.item[i].cas
        THEN {Out(do_item_remove(db, i), "CAS_MISMATCH")}
        ELSE IF ~safe_strtoull(db.item[i].data)
        THEN {Out(do_item_remove(db, i), "NON_NUMERIC")}
        ELSE IF InPlace(db, i, res)
        THEN {Out(do_item_remove(UpdateInPlace(db, i, res), i), "OK")}
        ELSE {IF a.it = None THEN Out(do_item_remove(a.db, i), "EOM")
              ELSE Out(do_item_remove(Replaced(a), i), "OK")
                : a \in do_item_alloc(db, k, res, db.item[i].exptime)}

add_delta(db, k, incr, delta, cas) == do_add_delta(db, k, incr, delta, cas)

-----------------------------------------------------------------------------
(* The store commands.                                                     *)

(* Copying into chunks may run out of memory on the way.                   *)
_store_item_copy_chunks(data) == IF Len(data) > ChunkMax THEN BOOLEAN ELSE {TRUE}

_store_item_copy_data(comm, old, add) == IF comm = "append" THEN old \o add ELSE add \o old

CasMatches(db, i, old) == db.item[i].cas = db.item[old].cas

(* When the copy fails item_remove waits for the item lock that the caller *)
(* holds: "HUNG".                                                          *)
do_store_item(db0, i, comm) ==
    LET g   == do_item_get(db0, db0.item[i].key)
        db  == g.db
        old == g.it
        Out(d, ret) == [ret |-> ret,
                        db  |-> IF old = None THEN d ELSE do_item_remove(d, old)]
        Put(d, new) == IF old = None THEN do_item_link(d, new)
                                     ELSE do_item_replace(d, old, new)
        Combined(a) ==
            LET data == _store_item_copy_data(comm, db.item[old].data, db.item[i].data)
            IN  IF a.it = None THEN {Out(a.db, "NOT_STORED")}
                ELSE {IF copied
                      THEN Out(do_item_remove(Put([a.db EXCEPT !.item[a.it].data = data],
                                                  a.it), a.it), "STORED")
                      ELSE [db |-> a.db, ret |-> "HUNG"]
                        : copied \in _store_item_copy_chunks(data)}
    IN  IF \/ old # None /\ comm = "add"
           \/ old = None /\ comm \in {"replace", "append", "prepend"}
        THEN {Out(db, "NOT_STORED")}
        ELSE IF comm = "cas"
        THEN {IF old = None THEN Out(db, "NOT_FOUND")
              ELSE IF CasMatches(db, i, old) THEN Out(do_item_replace(db, old, i), "STORED")
              ELSE Out(db, "EXISTS")}
        ELSE IF comm \in {"append", "prepend"}
        THEN IF db.item[i].cas # 0 /\ ~CasMatches(db, i, old) THEN {Out(db, "EXISTS")}
             ELSE UNION {Combined(a) : a \in do_item_alloc(db, db.item[i].key, <<>>,
                                                           db.item[old].exptime)}
        ELSE {Out(Put(db, i), "STORED")}

store_item(db, i, comm) == do_store_item(db, i, comm)

FlushAll_SameSecond(db, exptime) ==
    [db EXCEPT !.oldest_live = db.now, !.cas_id = @ + 1,
               !.oldest_cas = db.cas_id + 1, !.flushed_at = db.cas_id + 1]

(* flush_all with and without a delay: process_command and                 *)
(* process_bin_flush share it.                                             *)
FlushAll(db, exptime) ==
    LET new_oldest == IF exptime > 0 THEN realtime(db, exptime) ELSE db.now
        live       == new_oldest - 1
    IN  IF live <= db.now
        THEN [db EXCEPT !.oldest_live = live, !.cas_id = @ + 1,
                        !.oldest_cas = db.cas_id + 1, !.flushed_at = db.cas_id + 1]
        ELSE [db EXCEPT !.oldest_live = live]
=============================================================================
