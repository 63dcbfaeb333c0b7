------------------------- MODULE LockManagerProofs -------------------------
(***************************************************************************)
(* The lock manager, for every set of resources and of transactions: type  *)
(* correctness, exclusion, strict two-phase locking and the implementation *)
(* of ReaderWriter.  Exclusion makes the refinement inductive: without it  *)
(* a reader beside a writer would be invisible to the level of access.     *)
(***************************************************************************)
EXTENDS LockManager, TLAPS

LockState == [shared : SUBSET Tx, excl : Tx \cup {NoTx}]

Alone(s) == s.excl # NoTx => s.shared \subseteq {s.excl}

IInv == LocksTypeOK /\ ExclusiveIsAlone

\* No transaction has the id that stands for none.
LEMMA TxIds == NoTx \notin Tx
BY DEF NoTx, Tx

\* What a grant makes of a lock, in terms of levels of access.
LEMMA HeldLock ==
  ASSUME NEW s \in LockState, Alone(s), NEW tx \in Tx, NEW mode \in LockMode,
         Grants(s, tx, mode)
  PROVE  /\ Held(s, tx, mode) \in LockState
         /\ Alone(Held(s, tx, mode))
         /\ LevelOf(Held(s, tx, mode), tx) =
              IF mode = "Exclusive" \/ LevelOf(s, tx) = "write" THEN "write" ELSE "read"
         /\ \A other \in Tx \ {tx} : LevelOf(Held(s, tx, mode), other) = LevelOf(s, other)
<1>1. CASE mode = "Shared"
  BY <1>1, TxIds DEF LockState, Alone, Held, Grants, LevelOf
<1>2. CASE mode = "Exclusive"
  BY <1>2, TxIds DEF LockState, Alone, Held, Grants, LevelOf
<1> QED BY <1>1, <1>2 DEF LockMode

\* What release_all makes of a lock.
LEMMA ReleasedLock ==
  ASSUME NEW s \in LockState, Alone(s), NEW tx \in Tx
  PROVE  /\ Released(s, tx) \in LockState
         /\ Alone(Released(s, tx))
         /\ LevelOf(Released(s, tx), tx) = "none"
         /\ \A other \in Tx \ {tx} : LevelOf(Released(s, tx), other) = LevelOf(s, other)
BY TxIds DEF LockState, Alone, Released, LevelOf

\* A request is granted exactly when the levels of the others allow it.
LEMMA GrantsIffAllowed ==
  ASSUME LocksTypeOK, NEW r \in Resource, NEW tx \in Tx, NEW mode \in LockMode,
         ExclusiveIsAlone
  PROVE  Grants(locks[r], tx, mode)
           <=> RW!Allowed(r, tx, IF mode = "Exclusive" THEN "write" ELSE "read")
<1>1. /\ locks[r].shared \subseteq Tx
      /\ locks[r].excl \in Tx \cup {NoTx}
      /\ \A t \in Tx : level[r][t] = LevelOf(locks[r], t)
  BY DEF LocksTypeOK, level
<1> HIDE DEF level
<1>2. CASE mode = "Shared"
  BY <1>1, <1>2, TxIds DEF RW!Allowed, Grants, LevelOf
<1>3. CASE mode = "Exclusive"
  BY <1>1, <1>3, TxIds DEF RW!Allowed, Grants, LevelOf
<1> QED BY <1>2, <1>3 DEF LockMode

LEMMA InitIInv == LockInit => IInv
BY DEF LockInit, IInv, LocksTypeOK, ExclusiveIsAlone, FreeLock

LEMMA LocksAreStates ==
  ASSUME IInv
  PROVE  /\ locks \in [Resource -> LockState]
         /\ \A r \in Resource : Alone(locks[r])
BY DEF IInv, LocksTypeOK, ExclusiveIsAlone, LockState, Alone

LEMMA NextIInv == IInv /\ [LockNext]_lockVars => IInv'
<1> SUFFICES ASSUME IInv, [LockNext]_lockVars
             PROVE  /\ locks' \in [Resource -> LockState]
                    /\ \A r \in Resource : Alone(locks'[r])
                    /\ answer' \in {"granted", "refused", "released"}
  BY DEF IInv, LocksTypeOK, ExclusiveIsAlone, LockState, Alone
<1>0. locks \in [Resource -> LockState] /\ \A r \in Resource : Alone(locks[r])
  BY LocksAreStates
<1>1. ASSUME NEW tx \in Tx, NEW r \in Resource, NEW mode \in LockMode,
             Acquire(tx, r, mode), Grants(locks[r], tx, mode)
      PROVE  /\ locks' \in [Resource -> LockState]
             /\ \A q \in Resource : Alone(locks'[q])
             /\ answer' = "granted"
  <2>1. locks' = [locks EXCEPT ![r] = Held(@, tx, mode)] /\ answer' = "granted"
    BY <1>1 DEF Acquire
  <2>2. Held(locks[r], tx, mode) \in LockState /\ Alone(Held(locks[r], tx, mode))
    BY <1>0, <1>1, HeldLock
  <2> QED BY <1>0, <2>1, <2>2
<1>2. ASSUME NEW tx \in Tx, ReleaseAll(tx)
      PROVE  /\ locks' \in [Resource -> LockState]
             /\ \A q \in Resource : Alone(locks'[q])
             /\ answer' = "released"
  BY <1>0, <1>2, ReleasedLock DEF ReleaseAll
<1>3. CASE UNCHANGED lockVars
  BY <1>0, <1>3 DEF lockVars, IInv, LocksTypeOK
<1>4. ASSUME NEW tx \in Tx, NEW r \in Resource, NEW mode \in LockMode,
             Acquire(tx, r, mode), ~Grants(locks[r], tx, mode)
      PROVE  UNCHANGED locks /\ answer' = "refused"
  BY <1>4 DEF Acquire
<1> QED BY <1>0, <1>1, <1>2, <1>3, <1>4 DEF LockNext

THEOREM Inductive == LockSpec => []IInv
BY InitIInv, NextIInv, PTL DEF LockSpec

\* Type correctness of the lock manager.
THEOREM TypeCorrect == LockSpec => []LocksTypeOK
<1>1. IInv => LocksTypeOK
  BY DEF IInv
<1> QED BY <1>1, Inductive, PTL

\* A resource held exclusively is held by nobody else.
THEOREM Exclusion == LockSpec => []ExclusiveIsAlone
<1>1. IInv => ExclusiveIsAlone
  BY DEF IInv
<1> QED BY <1>1, Inductive, PTL

LEMMA AcquireKeepsLevels ==
  ASSUME IInv, NEW tx \in Tx, NEW r \in Resource, NEW mode \in LockMode,
         Acquire(tx, r, mode), NEW t \in Tx, NEW q \in Resource
  PROVE  ~Lowered(LevelOf(locks[q], t), LevelOf(locks'[q], t))
<1>0. locks \in [Resource -> LockState] /\ Alone(locks[r])
  BY LocksAreStates
<1>1. CASE Grants(locks[r], tx, mode) /\ q = r
  <2>1. locks'[q] = Held(locks[r], tx, mode)
    BY <1>0, <1>1 DEF Acquire
  <2>2. CASE t = tx
    BY <1>0, <1>1, <2>1, <2>2, HeldLock DEF Lowered
  <2>3. CASE t # tx
    BY <1>0, <1>1, <2>1, <2>3, HeldLock DEF Lowered
  <2> QED BY <2>2, <2>3
<1>2. CASE ~(Grants(locks[r], tx, mode) /\ q = r)
  BY <1>0, <1>2 DEF Acquire, Lowered
<1> QED BY <1>1, <1>2

\* Locks are only given up all together.
THEOREM StrictTwoPhase == LockSpec => LocksAreKeptToTheEnd
<1>1. IInv /\ [LockNext]_lockVars => [StrictRelease]_lockVars
  <2> SUFFICES ASSUME IInv, LockNext, NEW t \in Tx, NEW q \in Resource,
                      Lowered(LevelOf(locks[q], t), LevelOf(locks'[q], t))
               PROVE  \A p \in Resource : LevelOf(locks'[p], t) = "none"
    BY DEF StrictRelease
  <2>0. locks \in [Resource -> LockState] /\ \A r \in Resource : Alone(locks[r])
    BY LocksAreStates
  <2>1. PICK tx \in Tx : ReleaseAll(tx)
    BY AcquireKeepsLevels DEF LockNext
  <2>2. \A p \in Resource :
          /\ LevelOf(locks'[p], tx) = "none"
          /\ \A other \in Tx \ {tx} : LevelOf(locks'[p], other) = LevelOf(locks[p], other)
    BY <2>0, <2>1, ReleasedLock DEF ReleaseAll
  <2>3. t = tx
    BY <2>2 DEF Lowered
  <2> QED BY <2>2, <2>3
<1> QED BY <1>1, Inductive, PTL DEF LockSpec, LocksAreKeptToTheEnd

LEMMA InitRefines == LockInit => RW!Init
BY TxIds DEF LockInit, RW!Init, level, LevelOf, FreeLock

LEMMA GrantRefines ==
  ASSUME IInv, NEW tx \in Tx, NEW r \in Resource, NEW mode \in LockMode,
         Acquire(tx, r, mode), Grants(locks[r], tx, mode)
  PROVE  RW!Grant(r, tx, IF mode = "Exclusive" THEN "write" ELSE "read")
<1> DEFINE wanted == IF mode = "Exclusive" THEN "write" ELSE "read"
<1>0. locks \in [Resource -> LockState] /\ \A q \in Resource : Alone(locks[q])
  BY LocksAreStates
<1>1. locks' = [locks EXCEPT ![r] = Held(@, tx, mode)] /\ answer' = "granted"
  BY DEF Acquire
<1>2. RW!Allowed(r, tx, wanted)
  BY GrantsIffAllowed DEF IInv
<1>3. LevelOf(Held(locks[r], tx, mode), tx) = RW!Raised(LevelOf(locks[r], tx), wanted)
  BY <1>0, HeldLock DEF RW!Raised
<1>4. \A other \in Tx \ {tx} :
        LevelOf(Held(locks[r], tx, mode), other) = LevelOf(locks[r], other)
  BY <1>0, HeldLock
<1>5. level' = [q \in Resource |-> [t \in Tx |-> LevelOf(locks'[q], t)]]
  BY DEF level
<1>6. \A q \in Resource, t \in Tx :
        LevelOf(locks'[q], t) = IF q = r /\ t = tx THEN RW!Raised(level[r][tx], wanted)
                                ELSE level[q][t]
  BY <1>0, <1>1, <1>3, <1>4 DEF level
<1>7. level' = [level EXCEPT ![r][tx] = RW!Raised(@, wanted)]
  <2> DEFINE x == RW!Raised(level[r][tx], wanted)
             F == [q \in Resource |-> [t \in Tx |-> IF q = r /\ t = tx THEN x ELSE level[q][t]]]
  <2> HIDE DEF x, wanted
  <2>1. level' = F
    BY <1>5, <1>6 DEF x
  <2>2. \A q \in Resource : level[q] = [t \in Tx |-> level[q][t]]
    BY DEF level
  <2>3. level = [q \in Resource |-> level[q]]
    BY DEF level
  <2>4. [level[r] EXCEPT ![tx] = x] = [t \in Tx |-> IF t = tx THEN x ELSE level[r][t]]
    BY <2>2
  <2> HIDE DEF level
  <2>5. [level EXCEPT ![r] = [level[r] EXCEPT ![tx] = x]] = F
    BY <2>2, <2>3, <2>4
  <2> QED BY <2>1, <2>5 DEF x
<1> QED BY <1>1, <1>2, <1>7 DEF RW!Grant

LEMMA RefusalRefines ==
  ASSUME IInv, NEW tx \in Tx, NEW r \in Resource, NEW mode \in LockMode,
         Acquire(tx, r, mode), ~Grants(locks[r], tx, mode)
  PROVE  RW!Refuse(r, tx, IF mode = "Exclusive" THEN "write" ELSE "read")
<1>1. locks' = locks /\ answer' = "refused"
  BY DEF Acquire
<1>2. ~RW!Allowed(r, tx, IF mode = "Exclusive" THEN "write" ELSE "read")
  BY GrantsIffAllowed DEF IInv
<1> QED BY <1>1, <1>2 DEF RW!Refuse, level

LEMMA ReleaseRefines ==
  ASSUME IInv, NEW tx \in Tx, ReleaseAll(tx)
  PROVE  RW!GiveUp(tx)
<1>1. locks \in [Resource -> LockState] /\ \A q \in Resource : Alone(locks[q])
  BY LocksAreStates
<1>2. \A q \in Resource, t \in Tx :
        LevelOf(locks'[q], t) = IF t = tx THEN "none" ELSE LevelOf(locks[q], t)
  BY <1>1, ReleasedLock DEF ReleaseAll
<1>3. level' = [q \in Resource |-> [level[q] EXCEPT ![tx] = "none"]]
  BY <1>2 DEF level
<1> QED BY <1>3 DEF RW!GiveUp, ReleaseAll

\* The lock manager implements the table locks of ReaderWriter.
THEOREM Refinement == LockSpec => ImplementsReaderWriter
<1>1. LockInit => RW!Init
  BY InitRefines
<1>2. IInv /\ [LockNext]_lockVars => [RW!Next]_<<level, answer>>
  <2> SUFFICES ASSUME IInv, [LockNext]_lockVars PROVE [RW!Next]_<<level, answer>>
    OBVIOUS
  <2>1. ASSUME NEW tx \in Tx, NEW r \in Resource, NEW mode \in LockMode,
               Acquire(tx, r, mode)
        PROVE  RW!Next
    <3> DEFINE wanted == IF mode = "Exclusive" THEN "write" ELSE "read"
    <3>1. wanted \in {"read", "write"}
      OBVIOUS
    <3>2. RW!Grant(r, tx, wanted) \/ RW!Refuse(r, tx, wanted)
      BY <2>1, GrantRefines, RefusalRefines
    <3> QED BY <3>1, <3>2 DEF RW!Next
  <2>2. ASSUME NEW tx \in Tx, ReleaseAll(tx)
        PROVE  RW!Next
    BY <2>2, ReleaseRefines DEF RW!Next
  <2>3. CASE UNCHANGED lockVars
    BY <2>3 DEF lockVars, level
  <2> QED BY <2>1, <2>2, <2>3 DEF LockNext
<1> QED BY <1>1, <1>2, Inductive, PTL DEF LockSpec, ImplementsReaderWriter, RW!Spec
=============================================================================
