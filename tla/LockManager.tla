---------------------------- MODULE LockManager ----------------------------
(***************************************************************************)
(* The lock manager (src/src/concurrency.rs) with any number of            *)
(* transactions calling `acquire` and `release_all` in any order.  It      *)
(* never blocks a caller: a request that conflicts is refused at once.     *)
(***************************************************************************)
EXTENDS Locks

CONSTANTS
  Resource,  \* the names locks are taken on: the tables
  MaxTx      \* how many transactions there are

\* Their ids, the first of which is 1: NoTx is none of them.
Tx == 1..MaxTx

VARIABLES
  locks,  \* the lock of each resource
  answer  \* what the last call returned

lockVars == <<locks, answer>>

LockInit ==
  /\ locks = [r \in Resource |-> FreeLock]
  /\ answer = "released"

\* acquire
Acquire(tx, r, mode) ==
  IF Grants(locks[r], tx, mode)
  THEN /\ locks' = [locks EXCEPT ![r] = Held(@, tx, mode)]
       /\ answer' = "granted"
  ELSE /\ answer' = "refused"
       /\ UNCHANGED locks

\* release_all
ReleaseAll(tx) ==
  /\ locks' = [r \in Resource |-> Released(locks[r], tx)]
  /\ answer' = "released"

LockNext ==
  \/ \E tx \in Tx, r \in Resource, mode \in LockMode : Acquire(tx, r, mode)
  \/ \E tx \in Tx : ReleaseAll(tx)

LockSpec == LockInit /\ [][LockNext]_lockVars

-----------------------------------------------------------------------------
(* Properties.                                                             *)

LocksTypeOK ==
  /\ locks \in [Resource -> [shared : SUBSET Tx, excl : Tx \cup {NoTx}]]
  /\ answer \in {"granted", "refused", "released"}

\* While a transaction holds a resource exclusively nobody else holds it in
\* any mode (concurrency.rs:51-66, with the upgrade of a reader).
ExclusiveIsAlone ==
  \A r \in Resource : locks[r].excl # NoTx => locks[r].shared \subseteq {locks[r].excl}

LevelOf(s, tx) ==
  IF s.excl = tx THEN "write" ELSE IF tx \in s.shared THEN "read" ELSE "none"

Lowered(old, new) == new # old /\ (old = "write" \/ new = "none")

\* A transaction's lock is weakened only when it gives up all its locks.
StrictRelease ==
  \A tx \in Tx :
    (\E r \in Resource : Lowered(LevelOf(locks[r], tx), LevelOf(locks'[r], tx)))
      => \A r \in Resource : LevelOf(locks'[r], tx) = "none"

\* Strict two-phase locking: a lock is never weakened by a later request (a
\* SELECT after an UPDATE keeps the write lock), only given up, and then
\* together with every other lock of its transaction.
LocksAreKeptToTheEnd == [][StrictRelease]_lockVars

level == [r \in Resource |-> [tx \in Tx |-> LevelOf(locks[r], tx)]]

RW == INSTANCE ReaderWriter WITH level <- level, answer <- answer

\* The two sets of holders implement the levels of access of ReaderWriter:
\* no request is granted against a conflict or refused without one.
ImplementsReaderWriter == RW!Spec

=============================================================================
