----------------------------- MODULE MCStorage -----------------------------
(***************************************************************************)
(* Small instances of the two parts every statement calls: a table of two  *)
(* columns, two data and two index names, and the locks of three           *)
(* transactions on two tables.  They share no state: a behaviour uses one  *)
(* while the other is new.                                                 *)
(***************************************************************************)
EXTENDS Storage, LockManager, TLC

CONSTANTS k, w, v1, v2, other, ix1, ix2, ta, tb

\* `other` is a datum of a type that neither column accepts.
MCColumn == {k, w}
MCValue == {v1, v2, other}
MCColumnType == [c \in MCColumn |-> {v1, v2}]

\* A plain table, and one with a UNIQUE NOT NULL key.
MCSchemas ==
  { [cols |-> MCColumn, notNull |-> {}, unique |-> {}],
    [cols |-> MCColumn, notNull |-> {k}, unique |-> {k}] }

\* Every well-typed row, one of a wrong type and one of a wrong arity.
MCRows ==
  [MCColumn -> {v1, v2, Null}] \cup {(k :> other @@ w :> v1), (k :> v1)}

Symmetry == Permutations({v1, v2}) \cup Permutations({ix1, ix2})

MCInit == Init /\ LockInit

MCNext ==
  \/ LockInit /\ Next /\ UNCHANGED lockVars
  \/ Init /\ LockNext /\ UNCHANGED vars

MCSpec == MCInit /\ [][MCNext]_<<vars, lockVars>>

=============================================================================
