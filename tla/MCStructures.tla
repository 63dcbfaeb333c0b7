---------------------------- MODULE MCStructures ---------------------------
(***************************************************************************)
(* Small instances of the two structures no other module of the program    *)
(* uses: a slotted page, on which at most six records of three sizes fit   *)
(* at one time (the fourth is empty), and a B+ tree with enough keys for   *)
(* inner nodes to split and, for two keys, a second datum that overwrites. *)
(* They share no state: a behaviour uses one while the other is new.       *)
(***************************************************************************)
EXTENDS SlottedPage, TLC

CONSTANTS empty, small, middle, large, Order

VARIABLE root

MCRecord == {empty, small, middle, large}
MCSize == empty :> 0 @@ small :> 1 @@ middle :> 5 @@ large :> 9
MCInput == {<<k, "a">> : k \in 1..12} \cup {<<k, "b">> : k \in {2, 7}}

Tree == INSTANCE BPlusTree WITH Input <- MCInput

MCInit == Init /\ Tree!Init

MCNext ==
  \/ Tree!Init /\ Next /\ UNCHANGED root
  \/ Init /\ Tree!Next /\ UNCHANGED vars

MCSpec == MCInit /\ [][MCNext]_<<vars, root>>

-----------------------------------------------------------------------------
(* The properties of BPlusTree, under names a configuration can list.      *)

\* No node holds more than Order, and every inner node has one child more
\* than keys, after any splits in one insertion, and all leaves are at one depth.
NodesAreWellFormed == Tree!NodesAreWellFormed

\* get finds each key inserted with its last datum, and no other key; range gives
\* the entries between its bounds once, in the order of the keys.
SearchesFindAll == Tree!SearchesFindAll

\* The tree implements SortedMap.
ImplementsSortedMap == Tree!ImplementsSortedMap

=============================================================================
