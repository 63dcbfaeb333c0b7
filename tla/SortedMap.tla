----------------------------- MODULE SortedMap -----------------------------
(* What an ordered index promises: a map from keys to data, in which an    *)
(* insertion replaces the datum of its key and changes no other key.       *)

CONSTANTS Input  \* the insertions made: pairs of a key and a datum

VARIABLE map

Init == map = {}

Put(k, v) == map' = {e \in map : e[1] # k} \cup {<<k, v>>}

Next == \E e \in Input : Put(e[1], e[2])

Spec == Init /\ [][Next]_map

=============================================================================
