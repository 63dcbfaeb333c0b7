------------------------------- MODULE Locks -------------------------------
(***************************************************************************)
(* The decisions of the lock manager (src/src/concurrency.rs) as operators *)
(* on one LockState, for the machine LockManager and for the engine.       *)
(* A state is [shared, excl]: `shared_holders`, and `exclusive_holder`     *)
(* with NoTx for None.  The code drops the entries nobody holds, and       *)
(* creates them again on demand: an absent entry is FreeLock.              *)
(***************************************************************************)
EXTENDS Naturals

NoTx == 0
LockMode == {"Shared", "Exclusive"}

FreeLock == [shared |-> {}, excl |-> NoTx]

\* Bug: an exclusive request looks at the exclusive holder only.
GrantsIgnoringReaders(s, tx, mode) == s.excl \in {NoTx, tx}

\* acquire answers Ok: nobody else holds the lock exclusively, and for an
\* exclusive request nobody else holds it at all.
Grants(s, tx, mode) ==
  /\ s.excl \in {NoTx, tx}
  /\ mode = "Exclusive" => s.shared \subseteq {tx}

\* Bug: a shared request of the exclusive holder downgrades its lock.
HeldDowngrading(s, tx, mode) ==
  IF mode = "Shared" THEN [shared |-> s.shared \cup {tx}, excl |-> NoTx]
                     ELSE [shared |-> s.shared \ {tx}, excl |-> tx]

\* The lock once acquire has granted it.
Held(s, tx, mode) ==
  IF mode = "Shared" THEN [s EXCEPT !.shared = @ \cup {tx}]
                     ELSE [shared |-> s.shared \ {tx}, excl |-> tx]

\* Bug: release_all forgets the locks held exclusively.
ReleasedShared(s, tx) == [s EXCEPT !.shared = @ \ {tx}]

\* What release_all leaves of one lock.
Released(s, tx) ==
  [shared |-> s.shared \ {tx}, excl |-> IF s.excl = tx THEN NoTx ELSE s.excl]

Holders(s) == s.shared \cup ({s.excl} \ {NoTx})

=============================================================================
