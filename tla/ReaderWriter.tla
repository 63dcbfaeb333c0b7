---------------------------- MODULE ReaderWriter ---------------------------
(***************************************************************************)
(* What a table lock manager promises: each transaction has on each        *)
(* resource a level of access, a request that the levels of the others     *)
(* allow raises it and is answered with a grant, any other is refused and  *)
(* changes nothing, and a transaction gives up all its levels at once.     *)
(***************************************************************************)
EXTENDS Naturals

CONSTANTS Resource, Tx

VARIABLES
  level,  \* level[r][tx]: "none", "read" or "write"
  answer  \* the last answer: "granted", "refused" or "released"

Level == {"none", "read", "write"}

\* The level a request of `tx` asks for is compatible with everybody else's.
Allowed(r, tx, wanted) ==
  \A other \in Tx \ {tx} :
    /\ level[r][other] # "write"
    /\ wanted = "write" => level[r][other] = "none"

\* A transaction never asks for less than it has.
Raised(old, wanted) == IF old = "write" THEN "write" ELSE wanted

Init ==
  /\ level = [r \in Resource |-> [tx \in Tx |-> "none"]]
  /\ answer = "released"

Grant(r, tx, wanted) ==
  /\ Allowed(r, tx, wanted)
  /\ level' = [level EXCEPT ![r][tx] = Raised(@, wanted)]
  /\ answer' = "granted"

Refuse(r, tx, wanted) ==
  /\ ~Allowed(r, tx, wanted)
  /\ answer' = "refused"
  /\ UNCHANGED level

GiveUp(tx) ==
  /\ level' = [r \in Resource |-> [level[r] EXCEPT ![tx] = "none"]]
  /\ answer' = "released"

Next ==
  \/ \E r \in Resource, tx \in Tx, wanted \in {"read", "write"} :
       Grant(r, tx, wanted) \/ Refuse(r, tx, wanted)
  \/ \E tx \in Tx : GiveUp(tx)

Spec == Init /\ [][Next]_<<level, answer>>

=============================================================================
