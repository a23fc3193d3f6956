------------------------------- MODULE MCLru -------------------------------
EXTENDS Lru, SequencesExt

Hot == {HOT}

DumpOnly == {METADUMP}
ColdOnly == {{COLD}}

\* Every key has been stored, read once and aged: a list of COLD items.
Aged ==
    \E f \in [Keys -> Items] :
        /\ \A j, k \in Keys : f[j] = f[k] => j = k
        /\ \E s \in SetToSeqs({f[k] : k \in Keys}) :
             LET n == Len(s)
                 at(x) == CHOOSE i \in 1 .. n : s[i] = x
                 linked(x) == \E i \in 1 .. n : s[i] = x
             IN q = [heads |-> [l \in Lrus |-> IF l = COLD THEN s[1] ELSE None],
                     tails |-> [l \in Lrus |-> IF l = COLD THEN s[n] ELSE None],
                     next |-> [x \in Nodes |-> IF linked(x) /\ at(x) < n THEN s[at(x) + 1] ELSE None],
                     prev |-> [x \in Nodes |-> IF linked(x) /\ at(x) > 1 THEN s[at(x) - 1] ELSE None],
                     sizes |-> [l \in Lrus |-> IF l = COLD THEN n ELSE 0],
                     due |-> [l \in Lrus |-> {}]]
        /\ item = [x \in Items |->
                     IF \E k \in Keys : f[k] = x
                     THEN [key |-> CHOOSE k \in Keys : f[k] = x, lru |-> COLD, ref |-> 1,
                           flags |-> {"LINKED", "FETCHED"}, expired |-> FALSE]
                     ELSE Free]
        /\ table = f
        /\ held = [x \in Items |-> 0]
        /\ InitThreads

AgedSpec == Aged /\ [][Next]_vars

Symmetry == {f @@ g : f \in Permutations(Keys), g \in Permutations(Items)}
=============================================================================
