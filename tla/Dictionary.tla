----------------------------- MODULE Dictionary -----------------------------
(***************************************************************************)
(* What the associative array promises its callers: a set of stored keys   *)
(* on which every call takes effect at one instant.  Expansion of the      *)
(* table is invisible here.                                                *)
(***************************************************************************)
CONSTANTS Keys, Workers

VARIABLES stored,   \* the keys that a lookup finds
          answer    \* answer[w]: the key of w's lookup and whether it was there

dvars == <<stored, answer>>

DictInit == /\ stored = {}
            /\ answer = [w \in Workers |-> {}]

DictFind(w, k) == /\ answer' = [answer EXCEPT ![w] = {<<k, k \in stored>>}]
                  /\ UNCHANGED stored

\* "The key must not already exist to call this."
DictInsert(k) == /\ k \notin stored
                 /\ stored' = stored \cup {k}
                 /\ UNCHANGED answer

\* "The callers don't delete things they can't find."
DictDelete(k) == /\ k \in stored
                 /\ stored' = stored \ {k}
                 /\ UNCHANGED answer

\* The command ends, and its caller has the answer.
DictReturn(w) == /\ answer' = [answer EXCEPT ![w] = {}]
                 /\ UNCHANGED stored

DictNext == \/ \E w \in Workers : DictReturn(w)
            \/ \E k \in Keys : \/ \E w \in Workers : DictFind(w, k)
                               \/ DictInsert(k)
                               \/ DictDelete(k)

DictSpec == DictInit /\ [][DictNext]_dvars
=============================================================================
