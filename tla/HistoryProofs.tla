---------------------------- MODULE HistoryProofs --------------------------
(***************************************************************************)
(* The invariants of EngineHistory and its refinement of SqlStore, for     *)
(* every set of tables, columns, data and statements, and every bound.     *)
(***************************************************************************)
EXTENDS EngineHistory, EngineProofs

\* Transaction ids stay below the bound of the model, and CHECKPOINT is not
\* among the statements of a database in memory.
BoundsInv ==
  /\ txn.id \in 0..MaxTx
  /\ locks \in [TableName -> [shared : SUBSET (1..MaxTx), excl : 0..MaxTx]]
  /\ nextTx \in 0..(MaxTx + 1)
  /\ call.tx \in 0..MaxTx
  /\ call.phase # "checkpoint"
  /\ leaked \subseteq 1..MaxTx

\* The transaction a running statement belongs to: ROLLBACK has taken it out
\* of the database.
Owner == IF Active THEN txn.id ELSE call.tx

\* Only ROLLBACK carries a transaction of its own.
CallInv ==
  /\ call.phase \in {"ready", "update", "delete"} => call.tx = NoTx
  /\ call.phase = "undo" => call.tx # NoTx /\ call.stmt.op = "Rollback"
  /\ Active => call.tx = NoTx
  /\ call.phase = "update" => call.stmt.op = "Update"
  /\ call.phase = "delete" => call.stmt.op = "Delete"

Rightful == ({txn.id} \cup leaked \cup (IF call.phase = "undo" THEN {call.tx} ELSE {})) \ {NoTx}

\* Whatever is still to be undone is of a table that is locked.
LockInv ==
  /\ \A t \in TableName : Holders(locks[t]) \subseteq Rightful
  /\ Active \/ call.phase = "undo" =>
       \A n \in DOMAIN Pending : locks[Pending[n].t].excl = Owner
  /\ Active /\ call.phase \in {"update", "delete"} => locks[call.stmt.t].excl = txn.id

-----------------------------------------------------------------------------
(* Statements, calls and bounds.                                           *)

\* Every step keeps the phase of the call and its statement together.
LEMMA CallInvStep ==
  ASSUME EngineInv, CallInv, [Next]_vars
  PROVE  CallInv'
<1>1. EngineType
  BY DEF EngineInv
<1>2. ASSUME NEW s \in Stmts, Start(s)
      PROVE  CallInv'
  <2>1. ASSUME NEW result \in {"ok", "error"}, Ends(s, result)
        PROVE  CallInv'
    BY <2>1, EndOf DEF CallInv
  <2>2. ASSUME NEW phase \in {"update", "delete"}, Loops(s, phase),
               s.op = IF phase = "update" THEN "Update" ELSE "Delete"
        PROVE  CallInv'
    <3>1. call'.phase = phase /\ call'.stmt = s /\ call'.tx = NoTx
      BY <2>2 DEF Loops
    <3> QED BY <2>2, <3>1 DEF CallInv
  <2>3. CASE RollbackStmt(s)
    <3>1. CASE Fails(s)
      BY <2>1, <3>1 DEF Fails
    <3>2. CASE /\ Active /\ txn' = NoTxn
               /\ call' = [phase |-> "undo", stmt |-> s, todo |-> {}, log |-> txn.undo,
                           tx |-> txn.id]
      BY <2>3, <3>2 DEF CallInv, Active, NoTxn, RollbackStmt
    <3> QED BY <2>3, <3>1, <3>2 DEF RollbackStmt
  <2>4. CASE StartUpdate(s) \/ StartDelete(s)
    BY <2>1, <2>2, <2>4 DEF StartUpdate, StartDelete, Fails
  <2>5. CASE Refused(s) \/ CreateTableStmt(s) \/ DropTableStmt(s) \/ CreateIndexStmt(s)
    BY <2>1, <2>5 DEF Refused, CreateTableStmt, DropTableStmt, CreateIndexStmt, Fails
  <2>6. CASE DropIndexStmt(s) \/ InsertStmt(s) \/ BeginStmt(s) \/ CommitStmt(s)
    BY <2>1, <2>6 DEF DropIndexStmt, InsertStmt, BeginStmt, CommitStmt, Fails
  <2>7. CASE SelectStmt(s)
    BY <2>1, <2>7 DEF SelectStmt
  <2> QED BY <1>2, <2>3, <2>4, <2>5, <2>6, <2>7 DEF Start
<1>3. CASE UpdateRow \/ DeleteOne
  <2>1. /\ call'.tx = call.tx /\ call'.stmt = call.stmt /\ txn' = txn
        /\ call'.phase \in {call.phase, "error"} /\ call.phase \in {"update", "delete"}
    BY <1>1, <1>3 DEF UpdateRow, RowUpdated, DeleteOne, EngineType
  <2> QED BY <2>1 DEF CallInv, Active
<1>4. CASE LoopDone
  <2>1. call'.phase = "ok" /\ call'.tx = NoTx
    BY <1>4, EndOf DEF LoopDone
  <2> QED BY <2>1 DEF CallInv
<1>5. CASE UndoLast \/ UndoDone
  <2>1. /\ call'.tx = call.tx /\ call'.stmt = call.stmt /\ txn' = txn
        /\ call'.phase \in {call.phase, "ok", "error"} /\ call.phase = "undo"
    BY <1>1, <1>5 DEF UndoLast, UndoDone, EngineType
  <2> QED BY <2>1 DEF CallInv, Active, EngineInv, TxnInv
<1>6. CASE Returns
  <2>1. call'.phase = "ready" /\ call'.tx = NoTx
    BY <1>6 DEF Returns, Ready
  <2> QED BY <2>1 DEF CallInv
<1>7. CASE UNCHANGED vars
  BY <1>7 DEF vars, CallInv, Active
<1> QED BY <1>2, <1>3, <1>4, <1>5, <1>6, <1>7 DEF Next, EngineNext, Starts, Continues

-----------------------------------------------------------------------------
\* A granted lock is one of the active transaction.
LEMMA BoundsOfLock ==
  ASSUME BoundsInv, NEW t, NEW mode, TakesLock(t, mode)
  PROVE  locks' \in [TableName -> [shared : SUBSET (1..MaxTx), excl : 0..MaxTx]]
<1>1. MaxTx \in Nat
  BY BoundsAssumption
<1>2. CASE ~Active
  BY <1>2 DEF TakesLock, BoundsInv
<1>3. CASE Active
  <2>1. txn.id \in 1..MaxTx /\ txn.id \in 0..MaxTx
    BY <1>1, <1>3 DEF BoundsInv, Active, NoTx
  <2>2. CASE t \in TableName
    <3>1. locks[t] \in [shared : SUBSET (1..MaxTx), excl : 0..MaxTx]
      BY <2>2 DEF BoundsInv
    <3>2. Held(locks[t], txn.id, mode) \in [shared : SUBSET (1..MaxTx), excl : 0..MaxTx]
      BY <2>1, <3>1 DEF Held
    <3> QED BY <1>3, <3>2 DEF TakesLock, BoundsInv
  <2>3. CASE t \notin TableName
    <3>1. locks' = [locks EXCEPT ![t] = Held(@, txn.id, mode)]
      BY <1>3 DEF TakesLock
    <3>2. locks' = locks
      BY <2>3, <3>1 DEF BoundsInv
    <3> QED BY <3>2 DEF BoundsInv
  <2> QED BY <2>2, <2>3
<1> QED BY <1>2, <1>3

\* release_all gives no lock to anybody.
LEMMA BoundsOfRelease ==
  ASSUME BoundsInv, NEW tx, locks' = Unlocked(tx)
  PROVE  locks' \in [TableName -> [shared : SUBSET (1..MaxTx), excl : 0..MaxTx]]
BY BoundsAssumption DEF BoundsInv, Unlocked, Released, NoTx

\* A new transaction takes an id below the bound; every other step keeps to
\* the ids there are.
LEMMA BoundsInvStep ==
  ASSUME EngineInv, CallInv, BoundsInv, [Next]_vars
  PROVE  BoundsInv'
<1> DEFINE LockType == [TableName -> [shared : SUBSET (1..MaxTx), excl : 0..MaxTx]]
<1>1. MaxTx \in Nat /\ MaxTx >= 1 /\ NoTx \in 0..MaxTx /\ EngineType
  BY BoundsAssumption DEF NoTx, EngineInv
<1>2. ASSUME NEW s \in Stmts, WithinBounds(s), Start(s), leaked' = leaked
      PROVE  BoundsInv'
  <2>1. ASSUME NEW result \in {"ok", "error"}, Ends(s, result), txn'.id = txn.id,
               locks' \in LockType, nextTx' = nextTx
        PROVE  BoundsInv'
    <3>1. call'.phase = result /\ call'.tx = NoTx
      BY <2>1, EndOf
    <3> QED BY <1>1, <1>2, <2>1, <3>1 DEF BoundsInv
  <2>2. ASSUME NEW phase \in {"update", "delete"}, Loops(s, phase), locks' \in LockType
        PROVE  BoundsInv'
    <3>1. call'.phase = phase /\ call'.tx = NoTx /\ txn' = txn /\ nextTx' = nextTx
      BY <2>2 DEF Loops
    <3> QED BY <1>1, <1>2, <2>2, <3>1 DEF BoundsInv
  <2>3. ASSUME Fails(s), locks' \in LockType
        PROVE  BoundsInv'
    BY <2>1, <2>3 DEF Fails
  <2>4. ASSUME NEW undos, Records(undos), Ends(s, "ok"), locks' \in LockType, nextTx' = nextTx
        PROVE  BoundsInv'
    <3>1. txn'.id = txn.id
      BY <1>1, <2>4 DEF Records, EngineType
    <3> QED BY <2>1, <2>4, <3>1
  <2>5. ASSUME NEW t, NEW mode, TakesLock(t, mode)
        PROVE  locks' \in LockType
    BY <2>5, BoundsOfLock
  <2>6. locks' = locks => locks' \in LockType
    BY DEF BoundsInv
  <2>7. CASE Refused(s) \/ SelectStmt(s) \/ DropTableStmt(s) \/ DropIndexStmt(s)
    BY <2>1, <2>3, <2>5, <2>6, <2>7 DEF Refused, SelectStmt, DropTableStmt, DropIndexStmt
  <2>8. CASE CreateTableStmt(s) \/ CreateIndexStmt(s) \/ InsertStmt(s)
    BY <2>3, <2>4, <2>5, <2>8 DEF CreateTableStmt, CreateIndexStmt, InsertStmt
  <2>9. CASE StartUpdate(s) \/ StartDelete(s)
    BY <2>2, <2>3, <2>5, <2>9 DEF StartUpdate, StartDelete
  <2>10. CASE BeginStmt(s)
    <3>1. CASE Fails(s) /\ UNCHANGED locks
      BY <2>3, <2>6, <3>1
    <3>2. ASSUME NEW id, id = IF nextTx = 0 THEN 1 ELSE nextTx,
                 txn' = [id |-> id, undo |-> <<>>], nextTx' = id + 1, Ends(s, "ok"),
                 UNCHANGED <<tables, locks>>
          PROVE  BoundsInv'
      <4>1. nextTx <= MaxTx
        BY <1>2, <2>10 DEF WithinBounds, BeginStmt
      <4>2. id \in 1..MaxTx /\ nextTx' \in 0..(MaxTx + 1)
        BY <1>1, <3>2, <4>1 DEF BoundsInv
      <4>3. call'.phase = "ok" /\ call'.tx = NoTx
        BY <3>2, EndOf
      <4> QED BY <1>1, <1>2, <3>2, <4>2, <4>3 DEF BoundsInv
    <3> QED BY <2>10, <3>1, <3>2 DEF BeginStmt
  <2>11. CASE CommitStmt(s)
    <3>1. CASE Fails(s) /\ UNCHANGED locks
      BY <2>3, <2>6, <3>1
    <3>2. CASE txn' = NoTxn /\ locks' = Unlocked(txn.id) /\ Ends(s, "ok") /\ nextTx' = nextTx
      <4>1. call'.phase = "ok" /\ call'.tx = NoTx
        BY <3>2, EndOf
      <4> QED BY <1>1, <1>2, <3>2, <4>1, BoundsOfRelease DEF BoundsInv, NoTxn
    <3> QED BY <2>11, <3>1, <3>2 DEF CommitStmt
  <2>12. CASE RollbackStmt(s)
    <3>1. CASE Fails(s) /\ UNCHANGED locks
      BY <2>3, <2>6, <3>1
    <3>2. CASE /\ txn' = NoTxn /\ locks' = locks /\ nextTx' = nextTx
               /\ call' = [phase |-> "undo", stmt |-> s, todo |-> {}, log |-> txn.undo,
                           tx |-> txn.id]
      BY <1>1, <1>2, <3>2 DEF BoundsInv, NoTxn
    <3> QED BY <2>12, <3>1, <3>2 DEF RollbackStmt
  <2> QED BY <1>2, <2>7, <2>8, <2>9, <2>10, <2>11, <2>12 DEF Start
<1>3. ASSUME Continues \/ Returns,
             leaked' = IF call.phase = "undo" /\ call'.phase = "error"
                       THEN leaked \cup {call.tx} ELSE leaked
      PROVE  BoundsInv'
  <2>1. leaked' \subseteq 1..MaxTx
    BY <1>1, <1>3 DEF BoundsInv, CallInv, NoTx
  <2>2. nextTx' = nextTx /\ txn'.id = txn.id
    BY <1>1, <1>3 DEF Continues, Returns, UpdateRow, RowUpdated, DeleteOne, LoopDone, Records,
                      UndoLast, UndoDone, EngineType
  <2>3. call'.phase # "checkpoint" /\ call'.tx \in {call.tx, NoTx}
    <3>1. CASE LoopDone
      BY <3>1, EndOf DEF LoopDone
    <3>2. CASE Returns
      BY <3>2 DEF Returns, Ready
    <3>3. CASE UpdateRow \/ DeleteOne \/ UndoLast \/ UndoDone
      BY <1>1, <3>3 DEF UpdateRow, RowUpdated, DeleteOne, UndoLast, UndoDone, EngineType, BoundsInv
    <3> QED BY <1>3, <3>1, <3>2, <3>3 DEF Continues
  <2>4. locks' \in LockType
    <3>1. CASE UndoDone
      BY <3>1, BoundsOfRelease DEF UndoDone
    <3>2. CASE UpdateRow \/ DeleteOne \/ LoopDone \/ UndoLast \/ Returns
      BY <3>2 DEF UpdateRow, RowUpdated, DeleteOne, LoopDone, UndoLast, Returns, BoundsInv
    <3> QED BY <1>3, <3>1, <3>2 DEF Continues
  <2> QED BY <1>1, <2>1, <2>2, <2>3, <2>4 DEF BoundsInv
<1>4. CASE UNCHANGED vars
  BY <1>4 DEF vars, BoundsInv
<1>5. ASSUME Next
      PROVE  BoundsInv'
  <2>1. leaked' = IF call.phase = "undo" /\ call'.phase = "error"
                  THEN leaked \cup {call.tx} ELSE leaked
    BY <1>5 DEF Next, Remembers
  <2>2. ASSUME NEW s \in Stmts, Start(s)
        PROVE  call.phase # "undo"
    BY <2>2 DEF Start, Begins, Refused, CreateTableStmt, DropTableStmt, CreateIndexStmt,
                DropIndexStmt, InsertStmt, SelectStmt, StartUpdate, StartDelete, BeginStmt,
                CommitStmt, RollbackStmt
  <2> QED BY <1>2, <1>3, <1>5, <2>1, <2>2 DEF Next, EngineNext, Starts
<1> QED BY <1>4, <1>5

-----------------------------------------------------------------------------
(* Locks.                                                                  *)

\* What the lock of a statement is to the transaction it runs in.
LEMMA StatementLock ==
  ASSUME EngineInv, LockInv, Begins, NEW t \in TableName, NEW mode, TakesLock(t, mode)
  PROVE  /\ \A q \in TableName : Holders(locks'[q]) \subseteq ({txn.id} \cup leaked) \ {NoTx}
         /\ Active => \A q \in TableName : locks[q].excl = txn.id => locks'[q].excl = txn.id
         /\ Active /\ mode = "Exclusive" => locks'[t].excl = txn.id
<1>1. \A q \in TableName : Holders(locks[q]) \subseteq ({txn.id} \cup leaked) \ {NoTx}
  BY DEF LockInv, Rightful, Begins
<1>2. CASE ~Active
  BY <1>1, <1>2 DEF TakesLock
<1>3. CASE Active
  <2> DEFINE new == Held(locks[t], txn.id, mode)
  <2>1. /\ locks \in [TableName -> [shared : SUBSET (Nat \ {0}), excl : Nat]]
        /\ txn.id \in Nat /\ txn.id # NoTx
    BY <1>3 DEF EngineInv, EngineType, Active
  <2>2. /\ Holders(new) \subseteq Holders(locks[t]) \cup {txn.id}
        /\ locks[t].excl = txn.id => new.excl = txn.id
        /\ mode = "Exclusive" => new.excl = txn.id
    BY <2>1 DEF Held, Holders
  <2>3. locks'[t] = new /\ \A q \in TableName : q # t => locks'[q] = locks[q]
    BY <1>3, <2>1 DEF TakesLock
  <2> HIDE DEF new
  <2>4. \A q \in TableName : Holders(locks'[q]) \subseteq ({txn.id} \cup leaked) \ {NoTx}
    <3> TAKE q \in TableName
    <3>1. CASE q = t
      <4>1. Holders(new) \subseteq (({txn.id} \cup leaked) \ {NoTx}) \cup {txn.id}
        BY <1>1, <2>2
      <4> QED BY <2>1, <2>3, <3>1, <4>1
    <3>2. CASE q # t
      BY <1>1, <2>3, <3>2
    <3> QED BY <3>1, <3>2
  <2> QED BY <2>2, <2>3, <2>4
<1> QED BY <1>2, <1>3

\* A statement that leaves the undo log alone ends, or begins its loop.
LEMMA LocksWithoutRecord ==
  ASSUME EngineInv, LockInv, Begins, NEW t \in TableName, NEW mode, TakesLock(t, mode),
         txn' = txn, leaked' = leaked,
         \/ call'.phase \in {"ok", "error"}
         \/ /\ call'.phase \in {"update", "delete"} /\ call'.log = <<>>
            /\ call'.stmt.t = t /\ mode = "Exclusive"
  PROVE  LockInv'
<1>1. /\ \A q \in TableName : Holders(locks'[q]) \subseteq ({txn.id} \cup leaked) \ {NoTx}
      /\ Active => \A q \in TableName : locks[q].excl = txn.id => locks'[q].excl = txn.id
      /\ Active /\ mode = "Exclusive" => locks'[t].excl = txn.id
  BY StatementLock
<1>2. txn.undo \in Seq(UndoRecord) /\ Pending = txn.undo
  BY PendingAtRest DEF EngineInv, EngineType, Begins
<1>3. Pending' = txn.undo
  <2>1. CASE call'.phase \in {"ok", "error"}
    BY <2>1, PendingAtRest
  <2>2. CASE call'.phase \in {"update", "delete"} /\ call'.log = <<>>
    <3>1. Pending' = txn.undo \o <<>>
      BY <2>2 DEF Pending
    <3> QED BY <1>2, <3>1, ConcatEmptySeq
  <2> QED BY <2>1, <2>2
<1>4. \A n \in DOMAIN txn.undo : txn.undo[n] \in UndoRecord /\ txn.undo[n].t \in TableName
  <2> SUFFICES ASSUME NEW n \in DOMAIN txn.undo
               PROVE  txn.undo[n] \in UndoRecord /\ txn.undo[n].t \in TableName
    OBVIOUS
  <2>1. txn.undo[n] \in UndoRecord
    BY <1>2, ElementOfSeq, LenProperties
  <2> QED BY <2>1 DEF UndoRecord
<1>5. Active' = Active /\ call'.phase # "undo"
  BY DEF Active
<1>6. \A q \in TableName : Holders(locks'[q]) \subseteq Rightful'
  BY <1>1, <1>5 DEF Rightful
<1>7. Active => \A n \in DOMAIN Pending' : locks'[Pending'[n].t].excl = Owner'
  BY <1>1, <1>2, <1>3, <1>4, <1>5 DEF LockInv, Owner
<1>8. Active /\ call'.phase \in {"update", "delete"} => locks'[call'.stmt.t].excl = txn.id
  BY <1>1
<1> QED BY <1>5, <1>6, <1>7, <1>8 DEF LockInv

\* A statement that records its change has locked the table it changed.
LEMMA LocksWithRecord ==
  ASSUME EngineInv, LockInv, Begins, NEW u \in UndoRecord, TakesLock(u.t, "Exclusive"),
         Records(<<u>>), leaked' = leaked, call'.phase = "ok"
  PROVE  LockInv'
<1>1. u.t \in TableName
  BY DEF UndoRecord
<1>2. /\ \A q \in TableName : Holders(locks'[q]) \subseteq ({txn.id} \cup leaked) \ {NoTx}
      /\ Active => \A q \in TableName : locks[q].excl = txn.id => locks'[q].excl = txn.id
      /\ Active => locks'[u.t].excl = txn.id
  BY <1>1, StatementLock
<1>3. txn.undo \in Seq(UndoRecord) /\ Pending = txn.undo /\ Pending' = txn'.undo
  BY PendingAtRest DEF EngineInv, EngineType, Begins
<1>4. txn'.id = txn.id /\ (Active => txn'.undo = Append(txn.undo, u)) /\ (Active' <=> Active)
  BY UndoRecorded DEF EngineInv, Active
<1>5. \A q \in TableName : Holders(locks'[q]) \subseteq Rightful'
  BY <1>2, <1>4 DEF Rightful
<1>6. ASSUME Active, NEW n \in DOMAIN Pending'
      PROVE  locks'[Pending'[n].t].excl = Owner'
  <2>1. /\ Len(txn.undo) \in Nat /\ DOMAIN txn.undo = 1..Len(txn.undo)
        /\ DOMAIN Pending' = 1..(Len(txn.undo) + 1)
        /\ \A m \in 1..Len(txn.undo) : Pending'[m] = txn.undo[m]
        /\ Pending'[Len(txn.undo) + 1] = u
    BY <1>3, <1>4, <1>6, AppendedLog
  <2>2. CASE n = Len(txn.undo) + 1
    BY <1>2, <1>4, <1>6, <2>1, <2>2 DEF Owner
  <2>3. CASE n \in 1..Len(txn.undo)
    <3>1. Pending'[n] = txn.undo[n] /\ txn.undo[n] \in UndoRecord
      BY <1>3, <2>1, <2>3, ElementOfSeq
    <3>2. txn.undo[n].t \in TableName
      BY <3>1 DEF UndoRecord
    <3>3. locks[txn.undo[n].t].excl = txn.id
      BY <1>3, <1>6, <2>1, <2>3 DEF LockInv, Owner
    <3> QED BY <1>2, <1>4, <1>6, <3>1, <3>2, <3>3 DEF Owner
  <2> QED BY <2>1, <2>2, <2>3
<1> QED BY <1>4, <1>5, <1>6 DEF LockInv

\* A loop or a ROLLBACK goes on: the locks stay, and so does the transaction.
LEMMA LockInvGoesOn ==
  ASSUME EngineInv, CallInv, LockInv,
         UpdateRow \/ DeleteOne \/ LoopDone \/ UndoLast \/ Returns, Remembers
  PROVE  LockInv'
<1>1. EngineType /\ CallInv /\ locks' = locks
  BY DEF EngineInv, UpdateRow, RowUpdated, DeleteOne, LoopDone, UndoLast, Returns
<1>2. txn.undo \in Seq(UndoRecord) /\ call.log \in Seq(UndoRecord)
  BY <1>1 DEF EngineType
<1>3. leaked' = IF call.phase = "undo" /\ call'.phase = "error"
                THEN leaked \cup {call.tx} ELSE leaked
  BY DEF Remembers
<1>4. ASSUME call.phase \in {"update", "delete"}, NEW r \in NextRows, NEW u \in UndoRecord,
             u.t = call.stmt.t, call' = [call EXCEPT !.todo = @ \ {r}, !.log = Append(@, u)],
             txn' = txn
      PROVE  LockInv'
  <2>1. call'.phase = call.phase /\ call'.stmt = call.stmt /\ call'.log = Append(call.log, u)
    BY <1>1, <1>4 DEF EngineType
  <2>2. Pending = txn.undo \o call.log /\ Pending' = Append(Pending, u) /\ Pending \in Seq(UndoRecord)
    <3>1. Pending = txn.undo \o call.log /\ Pending' = txn.undo \o Append(call.log, u)
      BY <1>4, <2>1 DEF Pending
    <3> QED BY <1>2, <1>4, <3>1, JoinOfAppended, ConcatProperties
  <2>3. Rightful' = Rightful /\ (Active' <=> Active) /\ (Active => Owner = txn.id /\ Owner' = txn.id)
    BY <1>3, <1>4, <2>1 DEF Rightful, Active, Owner
  <2>4. ASSUME Active, NEW n \in DOMAIN Pending'
        PROVE  locks[Pending'[n].t].excl = txn.id
    <3>1. /\ Len(Pending) \in Nat /\ DOMAIN Pending = 1..Len(Pending)
          /\ DOMAIN Pending' = 1..(Len(Pending) + 1)
          /\ \A m \in 1..Len(Pending) : Pending'[m] = Pending[m]
          /\ Pending'[Len(Pending) + 1] = u
      BY <1>4, <2>2, AppendedLog
    <3>2. CASE n = Len(Pending) + 1
      BY <1>4, <2>4, <3>1, <3>2 DEF LockInv
    <3>3. CASE n \in DOMAIN Pending
      BY <2>3, <2>4, <3>1, <3>3 DEF LockInv
    <3> QED BY <3>1, <3>2, <3>3
  <2> QED BY <1>1, <1>4, <2>1, <2>3, <2>4 DEF LockInv
<1>5. CASE UpdateRow
  <2>1. call.phase = "update"
    BY <1>5 DEF UpdateRow
  <2>2. ASSUME NEW r \in NextRows, RowUpdated(call.stmt.t, r)
        PROVE  LockInv'
    <3> DEFINE u == [op |-> "Update", t |-> call.stmt.t, r |-> r,
                     row |-> tables[call.stmt.t].rows[r]]
    <3>1. u \in UndoRecord
      BY <2>1, <2>2, InTheLoop DEF UndoRecord
    <3>2. call' = [call EXCEPT !.todo = @ \ {r}, !.log = Append(@, u)] /\ txn' = txn
      BY <2>2 DEF RowUpdated
    <3> QED BY <1>4, <2>1, <3>1, <3>2
  <2>3. CASE call' = [call EXCEPT !.phase = "error", !.todo = {}] /\ txn' = txn
    <3>1. call'.phase = "error"
      BY <1>1, <2>3 DEF EngineType
    <3>2. Pending' = txn.undo /\ Pending = txn.undo \o call.log
      BY <2>1, <2>3, <3>1, PendingAtRest DEF Pending
    <3>3. Rightful' = Rightful /\ (Active' <=> Active) /\ (Active => Owner = txn.id /\ Owner' = txn.id)
      BY <1>3, <2>1, <2>3, <3>1 DEF Rightful, Active, Owner
    <3>4. \A n \in DOMAIN Pending' : n \in DOMAIN Pending /\ Pending[n] = Pending'[n]
      <4>1. /\ Len(txn.undo) \in Nat /\ Len(call.log) \in Nat
            /\ DOMAIN Pending' = 1..Len(txn.undo)
            /\ DOMAIN Pending = 1..(Len(txn.undo) + Len(call.log))
            /\ \A n \in 1..Len(txn.undo) : Pending[n] = Pending'[n]
        BY <1>2, <3>2, JoinedLog
      <4>2. \A a, b \in Nat : 1..a \subseteq 1..(a + b)
        OBVIOUS
      <4>3. DOMAIN Pending' \subseteq DOMAIN Pending
        BY <4>1, <4>2
      <4> QED BY <4>1, <4>3
    <3> QED BY <1>1, <3>1, <3>3, <3>4 DEF LockInv
  <2> QED BY <1>5, <2>2, <2>3 DEF UpdateRow
<1>6. CASE DeleteOne
  <2>1. call.phase = "delete"
    BY <1>6 DEF DeleteOne
  <2> DEFINE u(r) == [op |-> "Delete", t |-> call.stmt.t, r |-> r,
                      row |-> tables[call.stmt.t].rows[r]]
  <2>2. PICK r \in NextRows :
          call' = [call EXCEPT !.todo = @ \ {r}, !.log = Append(@, u(r))] /\ txn' = txn
    BY <1>6 DEF DeleteOne
  <2>3. u(r) \in UndoRecord
    BY <2>1, InTheLoop DEF UndoRecord
  <2> QED BY <1>4, <2>1, <2>2, <2>3
<1>7. CASE LoopDone
  <2>1. call'.phase = "ok" /\ call.phase \in {"update", "delete"} /\ Records(call.log)
    BY <1>7, EndOf DEF LoopDone
  <2>2. txn'.id = txn.id /\ (Active => txn'.undo = Pending)
    BY <1>1, <2>1 DEF Records, Pending, EngineType
  <2>3. Rightful' = Rightful /\ (Active' <=> Active) /\ (Active => Owner = txn.id /\ Owner' = txn.id)
    BY <1>3, <2>1, <2>2 DEF Rightful, Active, Owner
  <2>4. Active => Pending' = Pending
    BY <2>1, <2>2, PendingAtRest
  <2> QED BY <1>1, <2>1, <2>3, <2>4 DEF LockInv
<1>8. CASE UndoLast
  <2>1. call.phase = "undo" /\ call.log # <<>> /\ txn' = txn /\ ~Active
    BY <1>8 DEF UndoLast, EngineInv, TxnInv
  <2>2. CASE call' = [call EXCEPT !.log = Front(@)]
    <3>1. call'.phase = "undo" /\ call'.tx = call.tx /\ call'.log = Front(call.log)
      BY <1>1, <2>1, <2>2 DEF EngineType
    <3>2. Rightful' = Rightful /\ Owner' = Owner /\ (Active' <=> Active)
      BY <1>3, <2>1, <3>1 DEF Rightful, Owner, Active
    <3>3. \A n \in DOMAIN Pending' : n \in DOMAIN Pending /\ Pending[n] = Pending'[n]
      <4>1. Pending = call.log /\ Pending' = Front(call.log)
        BY <2>1, <3>1 DEF Pending
      <4> QED BY <1>2, <2>1, <4>1, ShortenedLog
    <3> QED BY <1>1, <2>1, <3>1, <3>2, <3>3 DEF LockInv
  <2>3. CASE call' = [call EXCEPT !.phase = "error"]
    <3>1. call'.phase = "error"
      BY <1>1, <2>3 DEF EngineType
    <3>2. Rightful \subseteq Rightful' /\ ~Active'
      BY <1>3, <2>1, <3>1 DEF Rightful, Active
    <3> QED BY <1>1, <3>1, <3>2 DEF LockInv
  <2> QED BY <1>8, <2>2, <2>3 DEF UndoLast
<1>9. CASE Returns
  <2>1. call'.phase = "ready" /\ call.phase \in {"ok", "error"} /\ txn' = txn
    BY <1>9 DEF Returns, Ready
  <2>2. Rightful' = Rightful /\ (Active' <=> Active) /\ (Active => Owner = txn.id /\ Owner' = txn.id)
    BY <1>3, <2>1 DEF Rightful, Active, Owner
  <2>3. Pending' = Pending
    BY <2>1, PendingAtRest
  <2> QED BY <1>1, <2>1, <2>2, <2>3 DEF LockInv
<1> QED BY <1>5, <1>6, <1>7, <1>8, <1>9

\* The end of a transaction: nobody who ended it holds a lock any more.
LEMMA LocksGivenBack ==
  ASSUME EngineType, NEW tx, locks' = Unlocked(tx), NEW S, \A t \in TableName : Holders(locks[t]) \subseteq S
  PROVE  \A t \in TableName : Holders(locks'[t]) \subseteq S \ ({tx} \ {NoTx})
BY DEF EngineType, Unlocked, Released, Holders, NoTx

\* Every step keeps what is to be undone locked.
LEMMA LockInvStep ==
  ASSUME EngineInv, CallInv, LockInv, [Next]_vars
  PROVE  LockInv'
<1>1. EngineType /\ DOMAIN tables \subseteq TableName
  BY DEF EngineInv, SoundTables
<1>2. ASSUME NEW s \in Stmts, Start(s), leaked' = leaked
      PROVE  LockInv'
  <2>1. Begins
    BY <1>2 DEF Start, Refused, CreateTableStmt, DropTableStmt, CreateIndexStmt,
                DropIndexStmt, InsertStmt, SelectStmt, StartUpdate, StartDelete, BeginStmt,
                CommitStmt, RollbackStmt
  <2>2. ASSUME NEW result \in {"ok", "error"}, Ends(s, result), txn' = txn, locks' = locks
        PROVE  LockInv'
    <3>1. call'.phase = result /\ Rightful' = Rightful /\ Pending' = Pending
      BY <1>2, <2>1, <2>2, EndOf, PendingAtRest DEF Rightful, Begins
    <3>2. Active' = Active /\ (Active => Owner = txn.id /\ Owner' = txn.id)
      BY <2>2 DEF Active, Owner
    <3> QED BY <2>1, <2>2, <3>1, <3>2 DEF LockInv, Begins
  <2>3. ASSUME NEW result \in {"ok", "error"}, Ends(s, result), txn' = txn,
               NEW t \in TableName, NEW mode, TakesLock(t, mode)
        PROVE  LockInv'
    <3>1. call'.phase \in {"ok", "error"}
      BY <2>3, EndOf
    <3> QED BY <1>2, <2>1, <2>3, <3>1, LocksWithoutRecord
  <2>4. ASSUME NEW phase \in {"update", "delete"}, Loops(s, phase), s.t \in TableName,
               TakesLock(s.t, "Exclusive")
        PROVE  LockInv'
    <3>1. call'.phase = phase /\ call'.log = <<>> /\ call'.stmt.t = s.t /\ txn' = txn
      BY <2>4 DEF Loops
    <3> QED BY <1>2, <2>1, <2>4, <3>1, LocksWithoutRecord
  <2>5. ASSUME NEW u \in UndoRecord, Records(<<u>>), Ends(s, "ok"), TakesLock(u.t, "Exclusive")
        PROVE  LockInv'
    <3>1. call'.phase = "ok"
      BY <2>5, EndOf
    <3> QED BY <1>2, <2>1, <2>5, <3>1, LocksWithRecord
  <2>6. CASE Refused(s)
    BY <2>2, <2>6 DEF Refused, Fails
  <2>7. CASE SelectStmt(s) \/ DropTableStmt(s)
    <3>1. s.t \in TableName
      BY <2>7, StmtsAssumption DEF SelectStmt, DropTableStmt
    <3> QED BY <2>3, <2>7, <3>1 DEF SelectStmt, DropTableStmt, Fails
  <2>8. CASE DropIndexStmt(s)
    <3>1. CASE Fails(s) /\ UNCHANGED locks
      BY <2>2, <3>1 DEF Fails
    <3>2. ASSUME NEW t \in DOMAIN tables, TakesLock(t, "Exclusive"), Ends(s, "ok"), txn' = txn
          PROVE  LockInv'
      BY <1>1, <2>3, <3>2
    <3> QED BY <2>8, <3>1, <3>2 DEF DropIndexStmt
  <2>9. CASE CreateTableStmt(s)
    <3>1. s.t \in TableName /\ TakesLock(s.t, "Exclusive")
      BY <2>9, StmtsAssumption DEF CreateTableStmt
    <3>2. [op |-> "CreateTable", t |-> s.t] \in UndoRecord
      BY <3>1 DEF UndoRecord
    <3> QED BY <2>3, <2>5, <2>9, <3>1, <3>2 DEF CreateTableStmt, Fails
  <2>10. CASE CreateIndexStmt(s)
    <3>1. s.t \in TableName /\ TakesLock(s.t, "Exclusive") /\ s.op = "CreateIndex"
      BY <2>10, StmtsAssumption DEF CreateIndexStmt
    <3>2. [op |-> "CreateIndex", t |-> s.t, i |-> s.i] \in UndoRecord
      BY <3>1 DEF UndoRecord
    <3> QED BY <2>3, <2>5, <2>10, <3>1, <3>2 DEF CreateIndexStmt, Fails
  <2>11. CASE InsertStmt(s)
    <3>1. s.t \in TableName /\ TakesLock(s.t, "Exclusive")
      BY <2>11, StmtsAssumption DEF InsertStmt
    <3>2. s.t \in DOMAIN tables => [op |-> "Insert", t |-> s.t, r |-> tables[s.t].next] \in UndoRecord
      BY <3>1 DEF UndoRecord, EngineInv, SoundTables, TableInv, TableType
    <3> QED BY <2>3, <2>5, <2>11, <3>1, <3>2 DEF InsertStmt, Fails
  <2>12. CASE StartUpdate(s) \/ StartDelete(s)
    <3>1. s.t \in TableName /\ TakesLock(s.t, "Exclusive")
      BY <2>12, StmtsAssumption DEF StartUpdate, StartDelete
    <3> QED BY <2>3, <2>4, <2>12, <3>1 DEF StartUpdate, StartDelete, Fails
  <2>13. CASE BeginStmt(s)
    <3>1. CASE Fails(s) /\ UNCHANGED locks
      BY <2>2, <3>1 DEF Fails
    <3>2. ASSUME ~Active, NEW id, txn' = [id |-> id, undo |-> <<>>], Ends(s, "ok"), locks' = locks
          PROVE  LockInv'
      <4>1. call'.phase = "ok" /\ Pending' = <<>>
        BY <3>2, EndOf, PendingAtRest
      <4>2. Rightful \subseteq Rightful'
        BY <1>2, <2>1, <3>2, <4>1 DEF Rightful, Begins, Active
      <4> QED BY <3>2, <4>1, <4>2 DEF LockInv
    <3> QED BY <2>13, <3>1, <3>2 DEF BeginStmt
  <2>14. CASE CommitStmt(s)
    <3>1. CASE Fails(s) /\ UNCHANGED locks
      BY <2>2, <3>1 DEF Fails
    <3>2. CASE Active /\ txn' = NoTxn /\ locks' = Unlocked(txn.id) /\ Ends(s, "ok")
      <4>1. call'.phase = "ok" /\ ~Active'
        BY <3>2, EndOf DEF Active, NoTxn
      <4>2. \A t \in TableName : Holders(locks'[t]) \subseteq Rightful \ ({txn.id} \ {NoTx})
        BY <1>1, <3>2, LocksGivenBack DEF LockInv
      <4>3. Rightful \ ({txn.id} \ {NoTx}) \subseteq Rightful'
        BY <1>2, <2>1, <3>2, <4>1 DEF Rightful, Begins, NoTxn
      <4> QED BY <4>1, <4>2, <4>3 DEF LockInv
    <3> QED BY <2>14, <3>1, <3>2 DEF CommitStmt
  <2>15. CASE RollbackStmt(s)
    <3>1. CASE Fails(s) /\ UNCHANGED locks
      BY <2>2, <3>1 DEF Fails
    <3>2. CASE /\ Active /\ txn' = NoTxn /\ locks' = locks
               /\ call' = [phase |-> "undo", stmt |-> s, todo |-> {}, log |-> txn.undo,
                           tx |-> txn.id]
      <4>1. call'.phase = "undo" /\ call'.tx = txn.id /\ ~Active' /\ Pending' = txn.undo
        BY <3>2 DEF Active, NoTxn, Pending
      <4>2. Rightful' = Rightful /\ Owner = txn.id /\ Owner' = txn.id
        BY <1>2, <2>1, <3>2, <4>1 DEF Rightful, Begins, Owner, NoTxn, Active
      <4>3. Pending' = Pending
        BY <2>1, <4>1, PendingAtRest DEF Begins
      <4> QED BY <3>2, <4>1, <4>2, <4>3 DEF LockInv
    <3> QED BY <2>15, <3>1, <3>2 DEF RollbackStmt
  <2> QED BY <1>2, <2>6, <2>7, <2>8, <2>9, <2>10, <2>11, <2>12, <2>13, <2>14, <2>15 DEF Start
<1>3. CASE UndoDone /\ leaked' = leaked
  <2>1. /\ call.phase = "undo" /\ call'.phase = "ok" /\ txn' = txn /\ ~Active
        /\ locks' = Unlocked(call.tx)
    BY <1>1, <1>3 DEF UndoDone, EngineType, EngineInv, TxnInv
  <2>2. \A t \in TableName : Holders(locks'[t]) \subseteq Rightful \ ({call.tx} \ {NoTx})
    BY <1>1, <2>1, LocksGivenBack DEF LockInv
  <2>3. Rightful \ ({call.tx} \ {NoTx}) \subseteq Rightful' /\ ~Active'
    BY <1>3, <2>1 DEF Rightful, Active
  <2> QED BY <2>1, <2>2, <2>3 DEF LockInv
<1>4. CASE UNCHANGED vars
  BY <1>4 DEF vars, LockInv, Rightful, Pending, Active, Owner
<1>5. ASSUME Next
      PROVE  LockInv'
  <2>1. leaked' = (IF call.phase = "undo" /\ call'.phase = "error"
                   THEN leaked \cup {call.tx} ELSE leaked) /\ Remembers
    BY <1>5 DEF Next, Remembers
  <2>2. ASSUME NEW s \in Stmts, Start(s)
        PROVE  call.phase # "undo"
    BY <2>2 DEF Start, Begins, Refused, CreateTableStmt, DropTableStmt, CreateIndexStmt,
                DropIndexStmt, InsertStmt, SelectStmt, StartUpdate, StartDelete, BeginStmt,
                CommitStmt, RollbackStmt
  <2>3. UndoDone => call'.phase = "ok"
    BY <1>1 DEF UndoDone, EngineType
  <2> QED BY <1>2, <1>3, <1>5, <2>1, <2>2, <2>3, LockInvGoesOn
          DEF Next, EngineNext, Starts, Continues
<1> QED BY <1>4, <1>5

\* One table changes, under its lock.
LEMMA OneTableChanges ==
  ASSUME NEW t, (\E table : Put(t, table)) \/ tables' = Without(t), locks'[t].excl = Owner
  PROVE  ChangesAreLocked
<1>1. \A q \in TableName : q # t =>
        \/ q \notin DOMAIN tables /\ q \notin DOMAIN tables'
        \/ q \in DOMAIN tables /\ q \in DOMAIN tables' /\ tables[q] = tables'[q]
  BY DEF Put, Without
<1> QED BY <1>1 DEF ChangesAreLocked, Owner

\* Each step that changes a table of a transaction has locked it.
LEMMA StepChangesAreLocked ==
  ASSUME EngineInv, CallInv, LockInv, [Next]_vars
  PROVE  ChangesAreLocked
<1>1. EngineType /\ DOMAIN tables \subseteq TableName
  BY DEF EngineInv, SoundTables
<1>2. ASSUME tables' = tables
      PROVE  ChangesAreLocked
  BY <1>2 DEF ChangesAreLocked
<1>3. ASSUME Owner = NoTx
      PROVE  ChangesAreLocked
  BY <1>3 DEF ChangesAreLocked, Owner
<1>4. ASSUME NEW s \in Stmts, Start(s)
      PROVE  ChangesAreLocked
  <2>1. CASE Refused(s) \/ SelectStmt(s) \/ StartUpdate(s) \/ StartDelete(s)
    BY <1>2, <2>1 DEF Refused, SelectStmt, StartUpdate, StartDelete, Fails, Loops
  <2>2. CASE BeginStmt(s) \/ CommitStmt(s) \/ RollbackStmt(s)
    BY <1>2, <2>2 DEF BeginStmt, CommitStmt, RollbackStmt, Fails
  <2>3. ASSUME Begins, NEW t \in TableName, TakesLock(t, "Exclusive"),
               (\E table : Put(t, table)) \/ tables' = Without(t)
        PROVE  ChangesAreLocked
    <3>1. CASE Active
      <4>1. locks'[t].excl = txn.id
        BY <2>3, <3>1, StatementLock
      <4> QED BY <2>3, <3>1, <4>1, OneTableChanges DEF Owner
    <3>2. CASE ~Active
      BY <1>3, <2>3, <3>2 DEF CallInv, Begins, Owner
    <3> QED BY <3>1, <3>2
  <2>4. CASE CreateTableStmt(s) \/ CreateIndexStmt(s) \/ InsertStmt(s)
    <3>1. Begins /\ s.t \in TableName /\ TakesLock(s.t, "Exclusive")
      BY <2>4, StmtsAssumption DEF CreateTableStmt, CreateIndexStmt, InsertStmt
    <3> QED BY <1>2, <2>3, <2>4, <3>1 DEF CreateTableStmt, CreateIndexStmt, InsertStmt, Fails
  <2>5. CASE DropTableStmt(s)
    <3>1. Begins /\ s.t \in TableName /\ TakesLock(s.t, "Exclusive")
      BY <2>5, StmtsAssumption DEF DropTableStmt
    <3> QED BY <1>2, <2>3, <2>5, <3>1 DEF DropTableStmt, Fails
  <2>6. CASE DropIndexStmt(s)
    BY <1>1, <1>2, <2>3, <2>6 DEF DropIndexStmt, Fails
  <2> QED BY <1>4, <2>1, <2>2, <2>4, <2>5, <2>6 DEF Start
<1>5. ASSUME call.phase \in {"update", "delete"}, locks' = locks,
             \E table : Put(call.stmt.t, table)
      PROVE  ChangesAreLocked
  <2>1. CASE Active
    BY <1>5, <2>1, OneTableChanges DEF LockInv, Owner
  <2>2. CASE ~Active
    BY <1>3, <1>5, <2>2 DEF CallInv, Owner
  <2> QED BY <2>1, <2>2
<1>6. CASE UpdateRow
  BY <1>2, <1>5, <1>6 DEF UpdateRow, RowUpdated
<1>7. CASE DeleteOne
  BY <1>5, <1>7 DEF DeleteOne
<1>8. CASE UndoLast
  <2> DEFINE u == Last(call.log)
  <2>1. call.phase = "undo" /\ call.log # <<>> /\ locks' = locks
    BY <1>8 DEF UndoLast
  <2>2. CASE tables' = tables
    BY <1>2, <2>2
  <2>3. CASE Undoes(u)
    <3>1. Pending = call.log /\ call.log \in Seq(UndoRecord)
      BY <1>1, <2>1 DEF Pending, EngineType
    <3>2. Len(call.log) \in DOMAIN Pending /\ Pending[Len(call.log)] = u
      <4>1. /\ Len(call.log) \in Nat \ {0} /\ DOMAIN call.log = 1..Len(call.log)
            /\ u = call.log[Len(call.log)]
        BY <2>1, <3>1, ShortenedLog
      <4> QED BY <3>1, <4>1
    <3>3. locks'[u.t].excl = Owner
      BY <2>1, <3>2 DEF LockInv
    <3>4. (\E table : Put(u.t, table)) \/ tables' = Without(u.t)
      BY <2>3 DEF Undoes
    <3> QED BY <3>3, <3>4, OneTableChanges
  <2> QED BY <1>8, <2>2, <2>3 DEF UndoLast
<1>9. CASE LoopDone \/ UndoDone \/ Returns \/ UNCHANGED vars
  BY <1>2, <1>9 DEF LoopDone, UndoDone, Returns, vars
<1> QED BY <1>4, <1>6, <1>7, <1>8, <1>9 DEF Next, EngineNext, Starts, Continues

-----------------------------------------------------------------------------
(* The invariants of every behaviour.                                      *)

\* Initially there is nothing.
LEMMA InitInv ==
  ASSUME Init
  PROVE  EngineInv /\ CallInv /\ BoundsInv /\ LockInv
<1>1. EngineInv
  BY EmptyDatabaseInv DEF Init
<1>2. /\ call = Ready /\ txn = NoTxn /\ nextTx = 0 /\ leaked = {}
      /\ locks = [t \in TableName |-> FreeLock]
  BY DEF Init, EmptyDatabase
<1>3. CallInv
  BY <1>2 DEF CallInv, Ready, Active, NoTxn
<1>4. BoundsInv
  BY <1>2, BoundsAssumption DEF BoundsInv, Ready, NoTxn, NoTx, FreeLock
<1>5. LockInv
  BY <1>2 DEF LockInv, Ready, NoTxn, NoTx, FreeLock, Holders, Active
<1> QED BY <1>1, <1>3, <1>4, <1>5

\* A step of EngineHistory is one of the engine.
LEMMA HistoryStep ==
  ASSUME EngineInv, [Next]_vars
  PROVE  EngineInv'
BY EngineNextInv DEF Next, vars, engineVars

\* The tables are sound and every DELETE can be undone, nothing exceeds the
\* bounds of the model and whatever is still to be undone is locked: together
\* these conditions are kept by every step.
THEOREM HistoryInductive == Spec => [](EngineInv /\ CallInv /\ BoundsInv /\ LockInv)
<1>1. Init => EngineInv /\ CallInv /\ BoundsInv /\ LockInv
  BY InitInv
<1>2. EngineInv /\ CallInv /\ BoundsInv /\ LockInv /\ [Next]_vars
        => (EngineInv /\ CallInv /\ BoundsInv /\ LockInv)'
  BY HistoryStep, CallInvStep, BoundsInvStep, LockInvStep
<1> QED BY <1>1, <1>2, PTL DEF Spec

\* Tables, transaction, locks, undo log and running statement always have the
\* shape their types declare (db.rs, transaction.rs, execution.rs).
THEOREM EngineTypeCorrect == Spec => []TypeOK
<1>1. EngineInv /\ BoundsInv => TypeOK
  <2> SUFFICES ASSUME EngineInv, BoundsInv PROVE TypeOK
    OBVIOUS
  <2>1. DOMAIN tables \subseteq TableName /\ \A t \in DOMAIN tables : TableType(tables[t])
    BY DEF EngineInv, SoundTables, TableInv
  <2>2. txn \in [id : 0..MaxTx, undo : Seq(UndoRecord)]
    BY DEF EngineInv, EngineType, BoundsInv
  <2>3. call \in [phase : {"ready", "update", "delete", "undo", "ok", "error"},
                  stmt : Stmts \cup {Ready.stmt}, todo : SUBSET RowId,
                  log : Seq(UndoRecord), tx : 0..MaxTx]
    BY DEF EngineInv, EngineType, Phase, BoundsInv
  <2> QED BY <2>1, <2>2, <2>3 DEF TypeOK, BoundsInv
<1> QED BY <1>1, HistoryInductive, PTL

\* Between any two steps of any statement, every table satisfies its schema
\* and its UNIQUE constraints, and its indexes mirror its rows (execution.rs
\* changes the rows and the indexes one row at a time).
THEOREM SoundAtEveryStep == Spec => []TablesAreSound
<1>1. EngineInv => TablesAreSound
  BY DEF EngineInv, SoundTables, TableInv, TablesAreSound
<1> QED BY <1>1, HistoryInductive, PTL

\* The row a ROLLBACK puts back after a DELETE overwrites no other row
\* (insert_with_row_id, storage.rs, does not look whether the id is in use).
THEOREM UndoIntoFreeRowId == Spec => []UndoNeverOverwrites
<1>1. EngineInv => UndoNeverOverwrites
  <2> SUFFICES ASSUME EngineInv, call.phase = "undo", call.log # <<>>,
                      NEW u, u = Last(call.log), u.op = "Delete", u.t \in DOMAIN tables
               PROVE  u.r \notin DOMAIN tables[u.t].rows
    BY DEF UndoNeverOverwrites
  <2>1. Pending = call.log /\ call.log \in Seq(UndoRecord) /\ RowsAreGone(call.log, tables)
    BY DEF Pending, EngineInv, EngineType, DeletesAreFinal
  <2>2. /\ Len(call.log) \in Nat \ {0} /\ DOMAIN call.log = 1..Len(call.log)
        /\ u = call.log[Len(call.log)]
    BY <2>1, ShortenedLog
  <2>3. Len(call.log) \in DOMAIN call.log /\ ~ \E m \in DOMAIN call.log : m > Len(call.log)
    BY <2>2
  <2> QED BY <2>1, <2>2, <2>3 DEF RowsAreGone, IsDelete
<1> QED BY <1>1, HistoryInductive, PTL

\* Nobody holds a lock but the active transaction, the one being rolled back
\* and those whose ROLLBACK failed (release_all, concurrency.rs, at the end
\* of COMMIT and ROLLBACK in db.rs).
THEOREM LocksAreGivenBack == Spec => []LocksFollowTransaction
<1>1. LockInv => LocksFollowTransaction
  BY DEF LockInv, LocksFollowTransaction, Rightful
<1> QED BY <1>1, HistoryInductive, PTL

\* No statement of a transaction, and no step of its ROLLBACK, touches a
\* table that the transaction has not locked exclusively.
THEOREM WritesUnderLock == Spec => WritesAreLocked
<1>1. EngineInv /\ CallInv /\ LockInv /\ [Next]_vars => ChangesAreLocked
  BY StepChangesAreLocked
<1>2. Spec => [][ChangesAreLocked]_vars
  BY <1>1, HistoryInductive, PTL DEF Spec
<1> QED BY <1>2 DEF WritesAreLocked

-----------------------------------------------------------------------------
(* ROLLBACK.                                                               *)
(*                                                                         *)
(* That undoing the log record by record ends where the transaction began, *)
(* and that no record fails on the way, depends on every state in between, *)
(* the ones still to come included: the invariant is that there is a chain *)
(* of sound databases, one before each record, which leads from what       *)
(* clients see now back to what they saw when the transaction began.       *)

-----------------------------------------------------------------------------
(* Each step and the way back.                                             *)

\* Until it is broken, a transaction can be rolled back.
RestoreInv ==
  /\ ~broken /\ (Active \/ call.phase = "undo") => CanBeRestored(Pending, View, base)
  /\ Quiet => base = View
  /\ RollbackRestores
  /\ RollbackSucceeds

\* What the history keeps of a step.
LEMMA WhatIsRemembered ==
  ASSUME Remembers
  PROVE  /\ Quiet' => base' = View'
         /\ ~Quiet' => base' = base /\ (broken => broken')
         /\ ~Quiet' /\ ~broken' => ~broken /\ ~DropsInside /\ ~(Active /\ PartialUpdate)
BY DEF Remembers

\* A step that changes no table, begins no ROLLBACK and ends none.
LEMMA RestoreWhenUnchanged ==
  ASSUME RestoreInv, Remembers, tables' = tables, Active' <=> Active,
         Active /\ ~broken' => Pending' = Pending,
         call'.phase # "undo", call'.phase = "ok" => call'.stmt.op # "Rollback", call'.tx = NoTx
  PROVE  RestoreInv'
<1>1. View' = View
  BY DEF View
<1>2. ASSUME ~broken', Active'
      PROVE  CanBeRestored(Pending', View', base')
  <2>1. ~Quiet'
    BY <1>2 DEF Quiet, Active
  <2>2. ~broken /\ base' = base /\ Pending' = Pending
    BY <1>2, <2>1, WhatIsRemembered
  <2> QED BY <1>1, <1>2, <2>2 DEF RestoreInv
<1>3. Quiet' => base' = View'
  BY WhatIsRemembered
<1>4. RollbackRestores' /\ RollbackSucceeds'
  BY DEF RollbackRestores, RollbackSucceeds
<1> QED BY <1>2, <1>3, <1>4 DEF RestoreInv

\* A step that records the one change it makes.
LEMMA RestoreWhenRecorded ==
  ASSUME EngineInv, EngineInv', RestoreInv, Remembers, NEW u \in UndoRecord, Active' <=> Active,
         Active => Pending' = Append(Pending, u) /\ Pending \in Seq(UndoRecord),
         CanBeUndone(View', u), UndoneView(View', u) = View,
         call'.phase \notin {"undo", "error", "ready"},
         call'.phase = "ok" => call'.stmt.op # "Rollback"
  PROVE  RestoreInv'
<1>1. ~Quiet' /\ base' = base /\ (~broken' => ~broken)
  BY WhatIsRemembered DEF Quiet
<1>2. ASSUME ~broken', Active'
      PROVE  CanBeRestored(Pending', View', base')
  <2>1. CanBeRestored(Pending, View, base)
    BY <1>1, <1>2 DEF RestoreInv
  <2>2. SoundView(View')
    BY SoundTablesAreSeen DEF EngineInv
  <2> QED BY <1>1, <1>2, <2>1, <2>2, OneMoreToUndo
<1>3. RollbackRestores' /\ RollbackSucceeds'
  BY DEF RollbackRestores, RollbackSucceeds
<1> QED BY <1>1, <1>2, <1>3 DEF RestoreInv

\* A step after which there is no transaction to roll back, or a broken one.
LEMMA RestoreWhenBroken ==
  ASSUME Remembers, Active' => broken', call'.phase = "ok", call'.stmt.op # "Rollback"
  PROVE  RestoreInv'
<1>1. ~Quiet'
  BY DEF Quiet
<1> QED BY <1>1 DEF RestoreInv, RollbackRestores, RollbackSucceeds

\* The first step of a statement.
LEMMA RestoreAtStart ==
  ASSUME EngineInv, EngineInv', CallInv, CallInv', RestoreInv, Remembers, NEW s \in Stmts, Start(s)
  PROVE  RestoreInv'
<1>1. Begins /\ call.phase = "ready" /\ EngineType /\ Pending = txn.undo /\ txn.undo \in Seq(UndoRecord)
  <2>1. Begins
    BY DEF Start, Refused, CreateTableStmt, DropTableStmt, CreateIndexStmt, DropIndexStmt,
           InsertStmt, SelectStmt, StartUpdate, StartDelete, BeginStmt, CommitStmt, RollbackStmt
  <2> QED BY <2>1, PendingAtRest DEF Begins, EngineInv, EngineType
<1>2. ASSUME NEW result \in {"ok", "error"}, Ends(s, result), tables' = tables, txn' = txn,
             result = "ok" => s.op # "Rollback"
      PROVE  RestoreInv'
  <2>1. call'.phase = result /\ call'.stmt = s /\ call'.tx = NoTx /\ Pending' = Pending
    BY <1>1, <1>2, EndOf, PendingAtRest
  <2>2. Active' <=> Active
    BY <1>2 DEF Active
  <2> QED BY <1>2, <2>1, <2>2, RestoreWhenUnchanged
<1>3. ASSUME Fails(s)
      PROVE  RestoreInv'
  BY <1>2, <1>3 DEF Fails
<1>4. ASSUME NEW phase \in {"update", "delete"}, Loops(s, phase)
      PROVE  RestoreInv'
  <2>1. /\ call'.phase = phase /\ call'.stmt = s /\ call'.tx = NoTx /\ call'.log = <<>>
        /\ tables' = tables /\ txn' = txn /\ (Active' <=> Active)
    BY <1>4 DEF Loops, Active
  <2>2. Pending' = Pending
    <3>1. Pending' = txn.undo \o <<>>
      BY <2>1 DEF Pending
    <3> QED BY <1>1, <3>1, ConcatEmptySeq
  <2> QED BY <2>1, <2>2, RestoreWhenUnchanged
<1>5. ASSUME NEW u \in UndoRecord, Records(<<u>>), Ends(s, "ok"), s.op # "Rollback",
             CanBeUndone(View', u), UndoneView(View', u) = View
      PROVE  RestoreInv'
  <2>1. txn'.id = txn.id /\ (Active => txn'.undo = Append(txn.undo, u)) /\ (Active' <=> Active)
    BY <1>1, <1>5, UndoRecorded DEF Active
  <2>2. call'.phase = "ok" /\ call'.stmt = s /\ Pending' = txn'.undo
    BY <1>5, EndOf, PendingAtRest
  <2> QED BY <1>1, <1>5, <2>1, <2>2, RestoreWhenRecorded
<1>6. ASSUME Ends(s, "ok"), txn' = txn, s.op \in {"DropTable", "DropIndex"}
      PROVE  RestoreInv'
  <2>1. call'.phase = "ok" /\ call'.stmt = s
    BY <1>6, EndOf
  <2>2. Active' => broken'
    <3> SUFFICES ASSUME Active' PROVE broken'
      OBVIOUS
    <3>1. DropsInside
      BY <1>1, <1>6, <2>1 DEF DropsInside, Active
    <3>2. ~Quiet'
      BY <2>1 DEF Quiet
    <3> QED BY <3>1, <3>2 DEF Remembers
  <2> QED BY <1>6, <2>1, <2>2, RestoreWhenBroken
<1>7. CASE Refused(s) \/ SelectStmt(s)
  BY <1>2, <1>3, <1>7 DEF Refused, SelectStmt
<1>8. CASE DropTableStmt(s) \/ DropIndexStmt(s)
  BY <1>3, <1>6, <1>8 DEF DropTableStmt, DropIndexStmt
<1>9. CASE StartUpdate(s) \/ StartDelete(s)
  BY <1>3, <1>4, <1>9 DEF StartUpdate, StartDelete
<1>10. CASE CreateTableStmt(s)
  <2>1. CASE ~Fails(s)
    <3> DEFINE u == [op |-> "CreateTable", t |-> s.t]
    <3>1. /\ s.op = "CreateTable" /\ s.t \in TableName /\ s.t \notin DOMAIN tables
          /\ Put(s.t, NewTable(s.schema)) /\ Records(<<u>>) /\ Ends(s, "ok")
      BY <1>10, <2>1, StmtsAssumption DEF CreateTableStmt
    <3>2. u \in UndoRecord /\ CanBeUndone(View', u)
      BY <3>1 DEF UndoRecord, CanBeUndone
    <3>3. UndoneView(View', u) = View
      <4>1. /\ DOMAIN View' = DOMAIN View \cup {s.t} /\ s.t \notin DOMAIN View
            /\ \A q \in DOMAIN View : q # s.t => View'[q] = View[q]
        BY <3>1, SeenPut, SeenTables
      <4>2. View = [q \in DOMAIN View |-> View[q]]
        BY SeenTables
      <4>3. UndoneView(View', u) = [q \in DOMAIN View' \ {s.t} |-> View'[q]]
        BY DEF UndoneView, Dropped
      <4> QED BY <4>1, <4>2, <4>3
    <3> QED BY <1>5, <3>1, <3>2, <3>3
  <2> QED BY <1>3, <2>1
<1>11. CASE CreateIndexStmt(s)
  <2>1. CASE ~Fails(s)
    <3> DEFINE u == [op |-> "CreateIndex", t |-> s.t, i |-> s.i]
               table == CreateIndex(tables[s.t], s.i, s.c, s.unique)
    <3>1. /\ s.op = "CreateIndex" /\ s.t \in TableName /\ s.t \in DOMAIN tables
          /\ s.i \notin DOMAIN tables[s.t].idx
          /\ Put(s.t, table) /\ Records(<<u>>) /\ Ends(s, "ok")
      BY <1>11, <2>1, StmtsAssumption DEF CreateIndexStmt, CanCreateIndex
    <3>2. u \in UndoRecord
      BY <3>1 DEF UndoRecord
    <3>3. UndoneIn(TableView(table), u) = TableView(tables[s.t]) /\ s.i \in DOMAIN table.idx
      BY <3>1, IndexOfRecord
    <3> HIDE DEF table
    <3>4. CanBeUndone(View', u) /\ UndoneView(View', u) = View
      BY <3>1, <3>3, RecordOfChange
    <3> QED BY <1>5, <3>1, <3>2, <3>4
  <2> QED BY <1>3, <2>1
<1>12. CASE InsertStmt(s)
  <2>1. CASE ~Fails(s)
    <3> DEFINE r == tables[s.t].next
               u == [op |-> "Insert", t |-> s.t, r |-> r]
               table == AddRow(tables[s.t], s.row)
    <3>1. /\ s.op = "Insert" /\ s.t \in TableName /\ s.t \in DOMAIN tables
          /\ Writable(tables[s.t], s.row, NoRow)
          /\ Put(s.t, table) /\ Records(<<u>>) /\ Ends(s, "ok")
      BY <1>12, <2>1, StmtsAssumption DEF InsertStmt
    <3>2. TableInv(tables[s.t])
      BY <3>1 DEF EngineInv, SoundTables
    <3>3. r \in RowId /\ r \notin DOMAIN tables[s.t].rows
      BY <3>1, <3>2, WritableUnderNext
    <3>4. u \in UndoRecord
      BY <3>1, <3>3 DEF UndoRecord
    <3>5. UndoneIn(TableView(table), u) = TableView(tables[s.t]) /\ r \in DOMAIN table.rows
      <4>1. table = PutRow(tables[s.t], r, s.row)
        BY DEF AddRow
      <4>2. UndoneIn(TableView(PutRow(tables[s.t], r, s.row)), u) = TableView(tables[s.t])
        BY <3>2, <3>3, RowOfRecord
      <4>3. r \in DOMAIN PutRow(tables[s.t], r, s.row).rows
        BY DEF PutRow, With
      <4> QED BY <4>1, <4>2, <4>3
    <3> HIDE DEF table
    <3>6. CanBeUndone(View', u) /\ UndoneView(View', u) = View
      BY <3>1, <3>5, RecordOfChange
    <3> QED BY <1>5, <3>1, <3>4, <3>6
  <2> QED BY <1>3, <2>1
<1>13. CASE BeginStmt(s)
  <2>1. CASE ~Fails(s)
    <3>1. PICK id : ~Active /\ txn' = [id |-> id, undo |-> <<>>] /\ Ends(s, "ok") /\ tables' = tables
      BY <1>13, <2>1 DEF BeginStmt
    <3>2. /\ call'.phase = "ok" /\ call'.stmt.op # "Rollback" /\ Pending' = <<>> /\ View' = View
      BY <1>13, <3>1, EndOf, PendingAtRest DEF BeginStmt, View
    <3>3. Quiet /\ base = View /\ ~Quiet'
      BY <1>1, <3>1, <3>2 DEF Quiet, Active, RestoreInv
    <3>4. base' = base
      BY <3>3, WhatIsRemembered
    <3>5. SoundView(View)
      BY SoundTablesAreSeen DEF EngineInv
    <3>6. CanBeRestored(Pending', View', base')
      BY <3>2, <3>3, <3>4, <3>5, NothingToUndo
    <3> QED BY <3>2, <3>3, <3>6 DEF RestoreInv, RollbackRestores, RollbackSucceeds
  <2> QED BY <1>3, <2>1
<1>14. CASE CommitStmt(s)
  <2>1. CASE ~Fails(s)
    <3>1. txn' = NoTxn /\ Ends(s, "ok") /\ s.op # "Rollback"
      BY <1>14, <2>1 DEF CommitStmt
    <3>2. call'.phase = "ok" /\ call'.stmt = s /\ ~Active'
      BY <3>1, EndOf DEF Active, NoTxn
    <3> QED BY <3>1, <3>2, RestoreWhenBroken
  <2> QED BY <1>3, <2>1
<1>15. CASE RollbackStmt(s)
  <2>1. CASE ~Fails(s)
    <3>1. /\ Active /\ tables' = tables
          /\ call' = [phase |-> "undo", stmt |-> s, todo |-> {}, log |-> txn.undo,
                      tx |-> txn.id]
      BY <1>15, <2>1 DEF RollbackStmt
    <3>2. call'.phase = "undo" /\ Pending' = Pending /\ View' = View
      BY <1>1, <3>1 DEF Pending, View
    <3>3. ~Quiet' /\ base' = base /\ (~broken' => ~broken)
      BY <3>2, WhatIsRemembered DEF Quiet
    <3> QED BY <3>1, <3>2, <3>3 DEF RestoreInv, RollbackRestores, RollbackSucceeds
  <2> QED BY <1>3, <2>1
<1> QED BY <1>7, <1>8, <1>9, <1>10, <1>11, <1>12, <1>13, <1>14, <1>15 DEF Start

\* A row is updated or deleted.
LEMMA RestoreInTheLoop ==
  ASSUME EngineInv, EngineInv', CallInv, CallInv', RestoreInv, Remembers, UpdateRow \/ DeleteOne
  PROVE  RestoreInv'
<1>1. EngineType /\ txn.undo \in Seq(UndoRecord) /\ call.log \in Seq(UndoRecord)
  BY DEF EngineInv, EngineType
<1> DEFINE t == call.stmt.t
<1>2. ASSUME call.phase \in {"update", "delete"}, NEW r \in NextRows, NEW u \in UndoRecord,
             u.op # "CreateTable", u.t = t, NEW table, Put(t, table),
             UndoneIn(TableView(table), u) = TableView(tables[t]),
             u.op # "CreateIndex", u.op = "Update" => u.r \in DOMAIN table.rows,
             u.op # "Insert",
             call' = [call EXCEPT !.todo = @ \ {r}, !.log = Append(@, u)], txn' = txn
      PROVE  RestoreInv'
  <2>1. t \in DOMAIN tables /\ Pending = txn.undo \o call.log /\ Pending \in Seq(UndoRecord)
    BY <1>2, InTheLoop
  <2>2. /\ call'.phase = call.phase /\ call'.log = Append(call.log, u)
        /\ (Active' <=> Active)
    BY <1>1, <1>2 DEF EngineType, Active
  <2>3. Pending' = Append(Pending, u)
    <3>1. Pending' = txn.undo \o Append(call.log, u)
      BY <1>2, <2>2 DEF Pending
    <3> QED BY <1>1, <1>2, <2>1, <3>1, JoinOfAppended
  <2>4. CanBeUndone(View', u) /\ UndoneView(View', u) = View
    BY <1>2, <2>1, RecordOfChange
  <2> QED BY <1>2, <2>1, <2>2, <2>3, <2>4, RestoreWhenRecorded
<1>3. CASE UpdateRow
  <2>1. call.phase = "update"
    BY <1>3 DEF UpdateRow
  <2>2. ASSUME NEW r \in NextRows, RowUpdated(t, r)
        PROVE  RestoreInv'
    <3> DEFINE u == [op |-> "Update", t |-> t, r |-> r, row |-> tables[t].rows[r]]
               table == ReplaceRow(tables[t], r, Assigned(r))
    <3>1. u \in UndoRecord /\ TableInv(tables[t]) /\ r \in DOMAIN tables[t].rows
      BY <2>1, <2>2, InTheLoop DEF UndoRecord
    <3>2. /\ Put(t, table) /\ txn' = txn
          /\ call' = [call EXCEPT !.todo = @ \ {r}, !.log = Append(@, u)]
      BY <2>2 DEF RowUpdated
    <3>3. UndoneIn(TableView(table), u) = TableView(tables[t])
      BY <3>1, RowOfRecord
    <3>4. r \in DOMAIN table.rows
      BY <3>1 DEF ReplaceRow, With
    <3> HIDE DEF table
    <3> QED BY <1>2, <2>1, <2>2, <3>1, <3>2, <3>3, <3>4
  <2>3. CASE call' = [call EXCEPT !.phase = "error", !.todo = {}] /\ tables' = tables /\ txn' = txn
    <3>1. call'.phase = "error" /\ call'.tx = NoTx /\ (Active' <=> Active)
      BY <1>1, <2>1, <2>3 DEF EngineType, CallInv, Active
    <3>2. ASSUME Active, ~broken'
          PROVE  Pending' = Pending
      <4>1. ~PartialUpdate
        BY <3>1, <3>2, WhatIsRemembered DEF Quiet
      <4>2. call.log = <<>>
        BY <2>1, <3>1, <4>1 DEF PartialUpdate
      <4>3. Pending' = txn.undo /\ Pending = txn.undo \o <<>>
        BY <2>1, <2>3, <3>1, <4>2, PendingAtRest DEF Pending
      <4> QED BY <1>1, <4>3, ConcatEmptySeq
    <3> QED BY <2>3, <3>1, <3>2, RestoreWhenUnchanged
  <2> QED BY <1>3, <2>2, <2>3 DEF UpdateRow
<1>4. CASE DeleteOne
  <2> DEFINE u(r) == [op |-> "Delete", t |-> t, r |-> r, row |-> tables[t].rows[r]]
  <2>1. call.phase = "delete"
    BY <1>4 DEF DeleteOne
  <2>2. PICK r \in NextRows :
          /\ Put(t, DeleteRow(tables[t], r)) /\ txn' = txn
          /\ call' = [call EXCEPT !.todo = @ \ {r}, !.log = Append(@, u(r))]
    BY <1>4 DEF DeleteOne
  <2> DEFINE table == DeleteRow(tables[t], r)
  <2>3. u(r) \in UndoRecord /\ TableInv(tables[t]) /\ r \in DOMAIN tables[t].rows
    BY <2>1, InTheLoop DEF UndoRecord
  <2>4. UndoneIn(TableView(table), u(r)) = TableView(tables[t])
    BY <2>3, RowOfRecord
  <2>5. Put(t, table)
    BY <2>2
  <2>6. u(r).t = t /\ u(r).op = "Delete"
    OBVIOUS
  <2> HIDE DEF table, u
  <2> QED BY <1>2, <2>1, <2>2, <2>3, <2>4, <2>5, <2>6
<1> QED BY <1>3, <1>4

\* The other steps.
LEMMA RestoreLater ==
  ASSUME EngineInv, EngineInv', CallInv, CallInv', RestoreInv, Remembers,
         LoopDone \/ UndoLast \/ UndoDone \/ Returns
  PROVE  RestoreInv'
<1>1. EngineType /\ call.log \in Seq(UndoRecord)
  BY DEF EngineInv, EngineType
<1>2. CASE LoopDone
  <2>1. /\ call.phase \in {"update", "delete"} /\ call'.phase = "ok" /\ call'.stmt = call.stmt
        /\ call'.tx = NoTx /\ Records(call.log) /\ tables' = tables
    BY <1>2, EndOf DEF LoopDone
  <2>2. call'.stmt.op # "Rollback"
    BY <2>1 DEF CallInv
  <2>3. (Active' <=> Active) /\ (Active => Pending' = Pending)
    <3>1. txn'.id = txn.id /\ (Active => txn'.undo = Pending)
      BY <1>1, <2>1 DEF Records, Pending, EngineType
    <3>2. Pending' = txn'.undo
      BY <2>1, PendingAtRest
    <3> QED BY <3>1, <3>2 DEF Active
  <2> QED BY <2>1, <2>2, <2>3, RestoreWhenUnchanged
<1>3. CASE UndoLast
  <2> DEFINE u == Last(call.log)
  <2>1. call.phase = "undo" /\ call.log # <<>> /\ txn' = txn /\ ~Active /\ ~Active'
    BY <1>3 DEF UndoLast, EngineInv, TxnInv, Active
  <2>2. Pending = call.log /\ u \in UndoRecord
    BY <1>1, <2>1, ShortenedLog DEF Pending
  <2>3. ~broken => /\ CanBeUndone(View, u) /\ SoundView(UndoneView(View, u))
                   /\ CanBeRestored(Front(call.log), UndoneView(View, u), base)
    BY <1>1, <2>1, <2>2, OneLessToUndo DEF RestoreInv
  <2>4. CASE CanUndo(u) /\ Undoes(u) /\ call' = [call EXCEPT !.log = Front(@)]
    <3>1. call'.phase = "undo" /\ call'.log = Front(call.log) /\ Pending' = Front(call.log)
      BY <1>1, <2>1, <2>4 DEF EngineType, Pending
    <3>2. View' = UndoneView(View, u)
      BY <2>2, <2>4, SeenUndo
    <3>3. ~Quiet' /\ base' = base /\ (~broken' => ~broken)
      BY <3>1, WhatIsRemembered DEF Quiet
    <3> QED BY <2>3, <3>1, <3>2, <3>3 DEF RestoreInv, RollbackRestores, RollbackSucceeds
  <2>5. CASE ~CanUndo(u) /\ call' = [call EXCEPT !.phase = "error"]
    <3>1. call'.phase = "error" /\ ~Quiet'
      BY <1>1, <2>5 DEF EngineType, Quiet
    <3>2. broken
      BY <2>2, <2>3, <2>5, SeenCanUndo
    <3>3. broken'
      BY <3>1, <3>2, WhatIsRemembered
    <3> QED BY <3>1, <3>3 DEF RestoreInv, RollbackRestores, RollbackSucceeds
  <2> QED BY <1>3, <2>4, <2>5 DEF UndoLast
<1>4. CASE UndoDone
  <2>1. /\ call.phase = "undo" /\ call.log = <<>> /\ call'.phase = "ok" /\ tables' = tables
        /\ ~Active /\ ~Active'
    BY <1>1, <1>4 DEF UndoDone, EngineType, EngineInv, TxnInv, Active
  <2>2. ~Quiet' /\ base' = base /\ (~broken' => ~broken) /\ View' = View
    BY <2>1, WhatIsRemembered DEF Quiet, View
  <2>3. ~broken => View = base
    <3>1. Pending = <<>>
      BY <2>1 DEF Pending
    <3> QED BY <2>1, <3>1, NothingToUndo DEF RestoreInv
  <2> QED BY <2>1, <2>2, <2>3 DEF RestoreInv, RollbackRestores, RollbackSucceeds
<1>5. CASE Returns
  <2>1. /\ call.phase \in {"ok", "error"} /\ call'.phase = "ready" /\ call'.tx = NoTx
        /\ txn' = txn /\ tables' = tables /\ (Active' <=> Active)
    BY <1>5 DEF Returns, Ready, Active
  <2>2. Pending' = Pending
    BY <2>1, PendingAtRest
  <2> QED BY <2>1, <2>2, RestoreWhenUnchanged
<1> QED BY <1>2, <1>3, <1>4, <1>5

\* Every step leaves a way back.
LEMMA RestoreInvStep ==
  ASSUME EngineInv, EngineInv', CallInv, CallInv', RestoreInv, [Next]_vars
  PROVE  RestoreInv'
<1>1. CASE Next
  BY <1>1, RestoreAtStart, RestoreInTheLoop, RestoreLater
     DEF Next, EngineNext, Starts, Continues
<1>2. CASE UNCHANGED vars
  BY <1>2 DEF vars, RestoreInv, Active, Pending, View, Quiet, RollbackRestores, RollbackSucceeds
<1> QED BY <1>1, <1>2

\* An unbroken transaction can be rolled back at every moment of its life.
LEMMA AlwaysRestorable == Spec => []RestoreInv
<1>1. Init => RestoreInv
  <2> SUFFICES ASSUME Init PROVE RestoreInv
    OBVIOUS
  <2>1. base = View /\ call.phase = "ready" /\ txn = NoTxn
    BY DEF Init, EmptyDatabase, Ready
  <2> QED BY <2>1 DEF RestoreInv, RollbackRestores, RollbackSucceeds, Active, NoTxn
<1>2. /\ EngineInv /\ CallInv /\ BoundsInv /\ LockInv
      /\ (EngineInv /\ CallInv /\ BoundsInv /\ LockInv)'
      /\ RestoreInv /\ [Next]_vars
      => RestoreInv'
  BY RestoreInvStep
<1> QED BY <1>1, <1>2, HistoryInductive, PTL DEF Spec

\* ROLLBACK of a transaction in which no table or index was dropped and no
\* UPDATE failed half way ends with exactly the tables, rows, row ids and
\* indexes the transaction began with (Transaction::rollback through
\* apply_undo, db.rs and execution.rs).
THEOREM RollbackIsExact == Spec => []RollbackRestores
<1>1. RestoreInv => RollbackRestores
  BY DEF RestoreInv
<1> QED BY <1>1, AlwaysRestorable, PTL

\* ... and never stops half way: no undo record fails to apply.
THEOREM RollbackNeverFails == Spec => []RollbackSucceeds
<1>1. RestoreInv => RollbackSucceeds
  BY DEF RestoreInv
<1> QED BY <1>1, AlwaysRestorable, PTL

-----------------------------------------------------------------------------
(* The refinement of SqlStore: what clients see between two statements     *)
(* changes as if each statement took place at once.                        *)

\* How far the running loop has got from what the statement began with.
LoopSeen == LoopSeenFrom(before)

\* Between statements nothing is kept from the past, and without a
\* transaction nothing is broken.
StoreInv ==
  /\ call.phase = "ready" => before = View
  /\ Quiet => base = View /\ ~broken
  /\ call.phase \in {"update", "delete"} => LoopSeen

\* The store speaks of tables as the engine does.
LEMMA StoreSpeaksAlike ==
  /\ \A x : Store!Sound(x) <=> Sound(x)
  /\ \A x, where : Store!Chosen(x, where) = Chosen(x, where)
  /\ \A x, rs, set : Store!Assign(x, rs, set) = Assign(x, rs, set)
<1>1. \A x : Store!Sound(x) <=> Sound(x)
  BY DEF Store!Sound, Sound, Store!RowFits, RowFits, Store!ValueFits, ValueFits, Store!Range, Range,
         Store!Datum, Datum
<1>2. \A x, where : Store!Chosen(x, where) = Chosen(x, where)
  BY DEF Store!Chosen, Chosen
<1>3. \A x, rs, set : Store!Assign(x, rs, set) = Assign(x, rs, set)
  BY DEF Store!Assign, Assign
<1> QED BY <1>1, <1>2, <1>3

-----------------------------------------------------------------------------
(* The invariant of the refinement.                                        *)

\* Every step keeps the invariant.
LEMMA StoreInvStep ==
  ASSUME EngineInv, EngineInv', StoreInv, [Next]_vars
  PROVE  StoreInv'
<1>1. ASSUME Next
      PROVE  /\ call'.phase = "ready" => before' = View'
             /\ Quiet' => base' = View' /\ ~broken'
  BY <1>1 DEF Next, Remembers
<1>2. EngineType
  BY DEF EngineInv
<1>3. ASSUME NEW s \in Stmts, Start(s), Remembers, call'.phase \in {"update", "delete"}
      PROVE  LoopSeen'
  <2>1. ASSUME NEW result \in {"ok", "error"}, Ends(s, result)
        PROVE  FALSE
    BY <1>3, <2>1, EndOf
  <2>2. ~Fails(s)
    BY <2>1 DEF Fails
  <2> PICK b : b = View
    OBVIOUS
  <2>9. Begins => b = before'
    BY <1>3 DEF Begins, StoreInv, Remembers
  <2>10. LoopSeenFrom(b)' /\ Begins => LoopSeen'
    BY <2>9 DEF LoopSeen, LoopSeenFrom
  <2>3. CASE StartUpdate(s)
    BY <2>2, <2>3, <2>10, LoopBegins DEF StartUpdate
  <2>4. CASE StartDelete(s)
    BY <2>2, <2>4, <2>10, LoopBegins DEF StartDelete
  <2>5. CASE Refused(s) \/ CreateTableStmt(s) \/ DropTableStmt(s) \/ CreateIndexStmt(s)
    BY <2>1, <2>2, <2>5 DEF Refused, CreateTableStmt, DropTableStmt, CreateIndexStmt
  <2>6. CASE DropIndexStmt(s) \/ InsertStmt(s) \/ BeginStmt(s) \/ CommitStmt(s)
    BY <2>1, <2>2, <2>6 DEF DropIndexStmt, InsertStmt, BeginStmt, CommitStmt
  <2>7. CASE SelectStmt(s)
    BY <2>1, <2>7 DEF SelectStmt
  <2>8. CASE RollbackStmt(s)
    BY <1>3, <2>2, <2>8 DEF RollbackStmt
  <2> QED BY <1>3, <2>3, <2>4, <2>5, <2>6, <2>7, <2>8 DEF Start
<1>4. ASSUME UpdateRow, Remembers, call'.phase \in {"update", "delete"}
      PROVE  LoopSeen'
  <2> DEFINE t == call.stmt.t
             u(r) == [op |-> "Update", t |-> t, r |-> r, row |-> tables[t].rows[r]]
             table(r) == ReplaceRow(tables[t], r, Assigned(r))
  <2>1. call.phase = "update" /\ LoopSeen
    BY <1>4 DEF UpdateRow, StoreInv
  <2>2. PICK r \in NextRows : RowUpdated(t, r)
    BY <1>2, <1>4 DEF UpdateRow, EngineType
  <2>3. /\ Put(t, table(r))
        /\ call' = [call EXCEPT !.todo = @ \ {r}, !.log = Append(@, u(r))]
    BY <2>2 DEF RowUpdated
  <2>4. u(r) \in UndoRecord
    BY <2>1, InTheLoop DEF UndoRecord
  <2>5. Assigned(r) = AssignedRow(tables[t].rows[r], call.stmt.set)
    BY DEF Assigned, AssignedRow
  <2>6. TableView(table(r)) =
          WithRows(TableView(tables[t]),
                   [tables[t].rows EXCEPT ![r] = AssignedRow(tables[t].rows[r], call.stmt.set)])
    BY <2>5, SeenReplaceRow
  <2> HIDE DEF table, u
  <2> PICK b : b = before
    OBVIOUS
  <2>7. LoopSeenFrom(b)
    BY <2>1 DEF LoopSeen, LoopSeenFrom
  <2>8. LoopSeenFrom(b)'
    BY <2>1, <2>3, <2>4, <2>6, <2>7, LoopGoesOn
  <2>9. b = before'
    BY <1>4 DEF Remembers
  <2> QED BY <2>8, <2>9 DEF LoopSeen, LoopSeenFrom
<1>5. ASSUME DeleteOne, Remembers, call'.phase \in {"update", "delete"}
      PROVE  LoopSeen'
  <2> DEFINE t == call.stmt.t
             u(r) == [op |-> "Delete", t |-> t, r |-> r, row |-> tables[t].rows[r]]
             table(r) == DeleteRow(tables[t], r)
  <2>1. call.phase = "delete" /\ LoopSeen
    BY <1>5 DEF DeleteOne, StoreInv
  <2>2. PICK r \in NextRows :
          /\ Put(t, table(r))
          /\ call' = [call EXCEPT !.todo = @ \ {r}, !.log = Append(@, u(r))]
    BY <1>5 DEF DeleteOne
  <2>3. u(r) \in UndoRecord
    BY <2>1, InTheLoop DEF UndoRecord
  <2>4. TableView(table(r)) = WithRows(TableView(tables[t]), Dropped(tables[t].rows, r))
    BY SeenDeleteRow
  <2> HIDE DEF table, u
  <2> PICK b : b = before
    OBVIOUS
  <2>5. LoopSeenFrom(b)
    BY <2>1 DEF LoopSeen, LoopSeenFrom
  <2>6. LoopSeenFrom(b)'
    BY <2>1, <2>2, <2>3, <2>4, <2>5, LoopGoesOn
  <2>7. b = before'
    BY <1>5 DEF Remembers
  <2> QED BY <2>6, <2>7 DEF LoopSeen, LoopSeenFrom
<1>6. ASSUME LoopDone \/ UndoLast \/ UndoDone \/ Returns
      PROVE  call'.phase \notin {"update", "delete"}
  <2>1. CASE LoopDone
    BY <2>1, EndOf DEF LoopDone
  <2>2. CASE UndoLast \/ UndoDone \/ Returns
    BY <1>2, <2>2 DEF UndoLast, UndoDone, Returns, Ready, EngineType
  <2> QED BY <1>6, <2>1, <2>2
<1>7. CASE Next
  BY <1>1, <1>3, <1>4, <1>5, <1>6, <1>7 DEF StoreInv, Next, EngineNext, Starts, Continues
<1>8. CASE UNCHANGED vars
  <2>1. /\ tables' = tables /\ txn' = txn /\ call' = call /\ base' = base
        /\ before' = before /\ broken' = broken
    BY <1>8 DEF vars
  <2>2. View' = View /\ (Quiet' <=> Quiet)
    BY <2>1 DEF View, Quiet
  <2>3. ASSUME LoopSeen
        PROVE  LoopSeen'
    <3> DEFINE was == before[call.stmt.t]
               done == Chosen(was, call.stmt.where) \ call.todo
    <3>1. SeenAfter(was, done)' = SeenAfter(was, done)
      BY <2>1 DEF SeenAfter, Chosen
    <3>2. \A t, clause : Resolves(t, clause)' <=> Resolves(t, clause)
      BY <2>1 DEF Resolves
    <3>3. Chosen(was, call.stmt.where)' = Chosen(was, call.stmt.where)
      BY <2>1 DEF Chosen
    <3> QED BY <2>1, <2>2, <2>3, <3>1, <3>2, <3>3 DEF LoopSeen, LoopSeenFrom
  <2> QED BY <2>1, <2>2, <2>3 DEF StoreInv
<1> QED BY <1>7, <1>8

-----------------------------------------------------------------------------
(* Every step of the engine is a step of the store, or none.               *)

Saved == IF Open THEN base ELSE Shown
Spoilt == Open /\ broken

\* What becomes of a transaction: it is lost when a table or an index is
\* dropped in it, or an UPDATE fails half way.
LEMMA HistoryIsSeen ==
  ASSUME Remembers
  PROVE  /\ ~(~Open /\ Open' /\ base # Shown') => Saved' = IF Open /\ Open' THEN Saved ELSE Shown'
         /\ Open' => ~Quiet' /\ base' = base
         /\ (Open' <=> Open) /\ ~DropsInside /\ ~(Active /\ PartialUpdate) => (Spoilt' <=> Spoilt)
         /\ (Open' <=> Open) /\ (DropsInside \/ (Active /\ PartialUpdate)) => (Spoilt' <=> Open)
<1>1. Open' => ~Quiet'
  BY DEF Open, Quiet, Active
<1>2. Open' => base' = base
  BY <1>1 DEF Remembers
<1>3. Saved' = IF Open' THEN base' ELSE Shown'
  BY DEF Saved
<1>4. ~(~Open /\ Open' /\ base # Shown') => Saved' = IF Open /\ Open' THEN Saved ELSE Shown'
  BY <1>2, <1>3 DEF Saved
<1>5. Open' => (broken' <=> broken \/ DropsInside \/ (Active /\ PartialUpdate))
  BY <1>1 DEF Remembers
<1>6. DropsInside \/ (Active /\ PartialUpdate) => Open
  BY DEF DropsInside, Open
<1>7. /\ (Open' <=> Open) /\ ~DropsInside /\ ~(Active /\ PartialUpdate) => (Spoilt' <=> Spoilt)
      /\ (Open' <=> Open) /\ (DropsInside \/ (Active /\ PartialUpdate)) => (Spoilt' <=> Open)
  BY <1>5, <1>6 DEF Spoilt
<1> QED BY <1>1, <1>2, <1>4, <1>7

\* Clients see nothing of the step.
LEMMA NothingSeen ==
  ASSUME Remembers, Shown' = Shown, Open' <=> Open, ~DropsInside, ~(Active /\ PartialUpdate)
  PROVE  UNCHANGED <<Shown, Saved, Open, Spoilt>>
<1>1. Saved' = Saved
  BY HistoryIsSeen DEF Saved
<1>2. Spoilt' = Spoilt
  BY HistoryIsSeen DEF Spoilt
<1>3. Open' = Open
  BY DEF Open
<1> QED BY <1>1, <1>2, <1>3

\* A table is added or replaced, as the store says it.
LEMMA ViewBecomes ==
  ASSUME EngineInv', NEW t, NEW table, Put(t, table), Shown = View, Shown' = View'
  PROVE  Store!Becomes(t, TableView(table))
<1>1. /\ DOMAIN View' = DOMAIN View \cup {t} /\ View'[t] = TableView(table)
      /\ \A q \in DOMAIN View : q # t => View'[q] = View[q]
  BY SeenPut
<1>2. View' = [q \in DOMAIN View' |-> View'[q]]
  BY SeenTables
<1>3. Store!Sound(TableView(table))
  <2>1. TableInv(table)
    BY DEF Put, EngineInv, SoundTables
  <2> QED BY <2>1, SoundIsSeen, StoreSpeaksAlike
<1>4. Shown' = [n \in DOMAIN Shown \cup {t} |-> IF n = t THEN TableView(table) ELSE Shown[n]]
  BY <1>1, <1>2
<1> QED BY <1>3, <1>4 DEF Store!Becomes

\* The table of a loop has changed, as the store says it.
LEMMA LoopBecomes ==
  ASSUME EngineInv, LoopSeen, call.phase \in {"update", "delete"}, Shown' = View
  PROVE  Store!Becomes(call.stmt.t, View[call.stmt.t])
<1> DEFINE t == call.stmt.t
<1>1. t \in DOMAIN tables /\ DOMAIN before = DOMAIN tables
      /\ \A q \in DOMAIN tables : q # t => before[q] = View[q]
  BY DEF EngineInv, LoopInv, LoopSeen, LoopSeenFrom
<1>2. View = [q \in DOMAIN tables |-> View[q]] /\ View[t] = TableView(tables[t])
  BY <1>1, SeenTables
<1>3. Store!Sound(View[t])
  BY <1>1, <1>2, SoundIsSeen, StoreSpeaksAlike DEF EngineInv, SoundTables
<1>4. Shown = before
  BY DEF Shown
<1>5. View = [n \in DOMAIN before \cup {t} |-> IF n = t THEN View[t] ELSE before[n]]
  BY <1>1, <1>2
<1> QED BY <1>3, <1>4, <1>5 DEF Store!Becomes

\* A statement takes place.
LEMMA TakesPlace ==
  ASSUME Remembers, NEW s \in Stmts, Open' <=> Open,
         \/ /\ Store!CreatesTable(s) \/ Store!CreatesIndex(s) \/ Store!Inserts(s)
               \/ Store!Updates(s) \/ Store!Deletes(s)
            /\ ~DropsInside /\ ~(Active /\ PartialUpdate)
         \/ /\ Store!UpdatesPartly(s) \/ Store!DropsTable(s) \/ Store!DropsIndex(s)
            /\ Active => DropsInside \/ PartialUpdate
            /\ call.phase # "undo"
  PROVE  Store!Next
<1>1. Open' = Open
  BY DEF Open
<1>2. (IF Open THEN base ELSE Shown)' = IF Open /\ Open' THEN IF Open THEN base ELSE Shown ELSE Shown'
  BY HistoryIsSeen DEF Saved
<1>3. CASE /\ Store!CreatesTable(s) \/ Store!CreatesIndex(s) \/ Store!Inserts(s)
              \/ Store!Updates(s) \/ Store!Deletes(s)
           /\ ~DropsInside /\ ~(Active /\ PartialUpdate)
  <2>1. (Open /\ broken)' = (Open /\ broken)
    BY <1>3, HistoryIsSeen DEF Spoilt
  <2>2. Store!Changes(s)
    BY <1>1, <1>3, <2>1 DEF Store!Changes
  <2> QED BY <1>2, <2>2 DEF Store!Next
<1>4. CASE /\ Store!UpdatesPartly(s) \/ Store!DropsTable(s) \/ Store!DropsIndex(s)
           /\ Active => DropsInside \/ PartialUpdate
           /\ call.phase # "undo"
  <2>1. (Open /\ broken)' = Open
    <3>1. CASE Active
      <4>1. Spoilt' <=> Open
        BY <1>4, <3>1, HistoryIsSeen
      <4> QED BY <4>1 DEF Spoilt, Open
    <3>2. CASE ~Active
      BY <1>4, <3>2 DEF Open
    <3> QED BY <3>1, <3>2
  <2>2. Store!Changes(s)
    BY <1>1, <1>4, <2>1 DEF Store!Changes
  <2> QED BY <1>2, <2>2 DEF Store!Next
<1> QED BY <1>3, <1>4

\* One field of a record of a table is replaced.
LEMMA ExceptIsWith ==
  ASSUME NEW x, IsSeen(x), NEW y
  PROVE  [x EXCEPT !.rows = y] = WithRows(x, y) /\ [x EXCEPT !.idx = y] = WithIdx(x, y)
<1>1. x = [schema |-> x.schema, rows |-> x.rows, idx |-> x.idx]
  BY DEF IsSeen, WithRows
<1>2. [x EXCEPT !.rows = y] = WithRows(x, y)
  BY <1>1 DEF WithRows
<1>3. [x EXCEPT !.idx = y] = WithIdx(x, y)
  BY <1>1 DEF WithIdx
<1> QED BY <1>2, <1>3

\* CREATE TABLE, CREATE INDEX, DROP INDEX and INSERT change one table.
LEMMA SeenCreates ==
  ASSUME EngineInv, EngineInv', NEW s \in Stmts, Shown = View, Shown' = View'
  PROVE  /\ /\ s.op = "CreateTable" /\ s.t \notin DOMAIN tables
            /\ Put(s.t, NewTable(s.schema))
            => Store!CreatesTable(s)
         /\ /\ s.op = "CreateIndex" /\ s.t \in DOMAIN tables
            /\ CanCreateIndex(tables[s.t], s.i, s.c, s.unique)
            /\ Put(s.t, CreateIndex(tables[s.t], s.i, s.c, s.unique))
            => Store!CreatesIndex(s)
         /\ /\ s.op = "Insert" /\ s.t \in DOMAIN tables
            /\ Writable(tables[s.t], s.row, NoRow)
            /\ Put(s.t, AddRow(tables[s.t], s.row))
            => Store!Inserts(s)
<1>1. DOMAIN Shown = DOMAIN tables /\ \A t \in DOMAIN tables : Shown[t] = TableView(tables[t])
  BY SeenTables
<1>2. ASSUME NEW t \in DOMAIN tables
      PROVE  /\ IsSeen(TableView(tables[t])) /\ TableInv(tables[t])
             /\ TableView(tables[t]).rows = tables[t].rows
             /\ TableView(tables[t]).schema = tables[t].schema
             /\ DOMAIN TableView(tables[t]).idx = DOMAIN tables[t].idx
  <2>1. TableInv(tables[t])
    BY DEF EngineInv, SoundTables
  <2>2. DOMAIN TableView(tables[t]).idx = DOMAIN tables[t].idx
    BY DEF TableView
  <2> QED BY <2>1, <2>2, ViewIsSeen DEF TableInv, TableType
<1>3. ASSUME s.op = "CreateTable", s.t \notin DOMAIN tables, Put(s.t, NewTable(s.schema))
      PROVE  Store!CreatesTable(s)
  <2>1. TableView(NewTable(s.schema)) =
          [schema |-> s.schema, rows |-> [r \in {} |-> 0], idx |-> [i \in {} |-> 0]]
    BY DEF TableView, NewTable
  <2>2. Store!Becomes(s.t, TableView(NewTable(s.schema)))
    BY <1>3, ViewBecomes
  <2> QED BY <1>1, <1>3, <2>1, <2>2 DEF Store!CreatesTable
<1>4. ASSUME s.op = "CreateIndex", s.t \in DOMAIN tables,
             CanCreateIndex(tables[s.t], s.i, s.c, s.unique),
             Put(s.t, CreateIndex(tables[s.t], s.i, s.c, s.unique))
      PROVE  Store!CreatesIndex(s)
  <2> DEFINE x == TableView(tables[s.t])
             idx == Added(x.idx, s.i, <<s.c, s.unique>>)
  <2>1. Store!Becomes(s.t, WithIdx(x, idx))
    <3>1. Store!Becomes(s.t, TableView(CreateIndex(tables[s.t], s.i, s.c, s.unique)))
      BY <1>4, ViewBecomes
    <3> QED BY <3>1, SeenCreateIndex
  <2>2. /\ Shown[s.t] = x /\ s.t \in DOMAIN Shown /\ IsSeen(x)
        /\ s.c \in x.schema.cols /\ s.i \notin DOMAIN x.idx
    BY <1>1, <1>2, <1>4 DEF CanCreateIndex
  <2> HIDE DEF x
  <2>3. idx = [i \in DOMAIN x.idx \cup {s.i} |-> IF i = s.i THEN <<s.c, s.unique>> ELSE x.idx[i]]
    BY DEF Added
  <2> HIDE DEF idx
  <2>4. [x EXCEPT !.idx = idx] = WithIdx(x, idx)
    BY <2>2, ExceptIsWith
  <2> QED BY <1>4, <2>1, <2>2, <2>3, <2>4 DEF Store!CreatesIndex, Store!Names
<1>5. ASSUME s.op = "Insert", s.t \in DOMAIN tables, Writable(tables[s.t], s.row, NoRow),
             Put(s.t, AddRow(tables[s.t], s.row))
      PROVE  Store!Inserts(s)
  <2> DEFINE x == TableView(tables[s.t])
             r == tables[s.t].next
             rows == Added(x.rows, r, s.row)
  <2>1. Store!Becomes(s.t, WithRows(x, rows))
    <3>1. Store!Becomes(s.t, TableView(PutRow(tables[s.t], r, s.row)))
      BY <1>5, ViewBecomes DEF AddRow
    <3> QED BY <1>2, <1>5, <3>1, SeenPutRow
  <2>2. /\ Shown[s.t] = x /\ s.t \in DOMAIN Shown /\ IsSeen(x) /\ r \notin DOMAIN x.rows
    BY <1>1, <1>2, <1>5, WritableUnderNext
  <2> HIDE DEF x, r
  <2>3. rows = [q \in DOMAIN x.rows \cup {r} |-> IF q = r THEN s.row ELSE x.rows[q]]
    BY DEF Added
  <2>4. r \in DOMAIN rows
    BY DEF Added
  <2> HIDE DEF rows
  <2>5. [x EXCEPT !.rows = rows] = WithRows(x, rows)
    BY <2>2, ExceptIsWith
  <2>6. s.t \in DOMAIN Shown' /\ Shown'[s.t].rows = rows
    BY <2>1, <2>2 DEF Store!Becomes, WithRows
  <2> QED BY <1>5, <2>1, <2>2, <2>3, <2>4, <2>5, <2>6 DEF Store!Inserts
<1> QED BY <1>3, <1>4, <1>5

\* DROP TABLE and DROP INDEX take one table or one index away.
LEMMA SeenDrops ==
  ASSUME EngineInv, EngineInv', NEW s \in Stmts, Shown = View, Shown' = View'
  PROVE  /\ s.op = "DropTable" /\ s.t \in DOMAIN tables /\ tables' = Without(s.t)
              => Store!DropsTable(s)
         /\ \A t \in DOMAIN tables :
              /\ s.op = "DropIndex" /\ s.i \in DOMAIN tables[t].idx
              /\ Put(t, DropIndex(tables[t], s.i))
              => Store!DropsIndex(s)
<1>1. DOMAIN Shown = DOMAIN tables /\ \A t \in DOMAIN tables : Shown[t] = TableView(tables[t])
  BY SeenTables
<1>2. ASSUME s.op = "DropTable", s.t \in DOMAIN tables, tables' = Without(s.t)
      PROVE  Store!DropsTable(s)
  <2>1. View' = [t \in DOMAIN tables \ {s.t} |-> TableView(tables[t])]
    BY <1>2, SeenTables DEF Without
  <2>2. View' = Store!Restrict(Shown, DOMAIN Shown \ {s.t})
    BY <1>1, <2>1 DEF Store!Restrict
  <2> QED BY <1>1, <1>2, <2>2 DEF Store!DropsTable
<1>3. ASSUME NEW t \in DOMAIN tables, s.op = "DropIndex", s.i \in DOMAIN tables[t].idx,
             Put(t, DropIndex(tables[t], s.i))
      PROVE  Store!DropsIndex(s)
  <2> DEFINE x == TableView(tables[t])
             idx == Dropped(x.idx, s.i)
  <2>1. Store!Becomes(t, WithIdx(x, idx))
    <3>1. Store!Becomes(t, TableView(DropIndex(tables[t], s.i)))
      BY <1>3, ViewBecomes
    <3> QED BY <3>1, SeenDropIndex
  <2>2. Shown[t] = x /\ t \in DOMAIN Shown /\ IsSeen(x) /\ s.i \in DOMAIN x.idx
    <3>1. TableInv(tables[t])
      BY DEF EngineInv, SoundTables
    <3>2. DOMAIN x.idx = DOMAIN tables[t].idx
      BY DEF TableView
    <3> QED BY <1>1, <1>3, <3>1, <3>2, ViewIsSeen DEF TableInv, TableType
  <2> HIDE DEF x
  <2>3. idx = Store!Restrict(x.idx, DOMAIN x.idx \ {s.i})
    BY DEF Dropped, Store!Restrict
  <2> HIDE DEF idx
  <2>4. [x EXCEPT !.idx = idx] = WithIdx(x, idx)
    BY <2>2, ExceptIsWith
  <2>5. [x EXCEPT !.idx = Store!Restrict(@, DOMAIN @ \ {s.i})] = WithIdx(x, idx)
    BY <2>3, <2>4
  <2>6. t \in {n \in DOMAIN Shown : s.i \in DOMAIN Shown[n].idx}
    BY <2>2
  <2>7. Store!Becomes(t, [Shown[t] EXCEPT !.idx = Store!Restrict(@, DOMAIN @ \ {s.i})])
    BY <2>1, <2>2, <2>5
  <2> QED BY <1>3, <2>6, <2>7 DEF Store!DropsIndex
<1> QED BY <1>2, <1>3

\* The first step of a statement: all of it, or nothing that is seen.
LEMMA StoreAtStart ==
  ASSUME EngineInv, EngineInv', CallInv, CallInv', StoreInv, Remembers, NEW s \in Stmts, Start(s)
  PROVE  Store!Next \/ UNCHANGED <<Shown, Saved, Open, Spoilt>>
<1>1. call.phase = "ready" /\ Shown = View /\ before = View /\ (Open <=> Active)
  <2>1. Begins
    BY DEF Start, Refused, CreateTableStmt, DropTableStmt, CreateIndexStmt, DropIndexStmt,
           InsertStmt, SelectStmt, StartUpdate, StartDelete, BeginStmt, CommitStmt, RollbackStmt
  <2> QED BY <2>1 DEF Begins, Shown, Open, StoreInv
<1>2. ~PartialUpdate
  BY <1>1 DEF PartialUpdate
<1>3. ASSUME NEW result \in {"ok", "error"}, Ends(s, result)
      PROVE  /\ Shown' = View' /\ (Open' <=> Active') /\ call'.phase = result
             /\ result = "error" \/ s.op \notin {"DropTable", "DropIndex"} => ~DropsInside
             /\ result = "ok" /\ s.op \in {"DropTable", "DropIndex"} => (Active => DropsInside)
  <2>1. call'.phase = result /\ call'.stmt = s
    BY <1>3, EndOf
  <2> QED BY <1>1, <2>1 DEF Shown, Open, DropsInside
<1>4. ASSUME NEW result \in {"ok", "error"}, Ends(s, result), tables' = tables, txn' = txn,
             result = "ok" => s.op \notin {"DropTable", "DropIndex"}
      PROVE  UNCHANGED <<Shown, Saved, Open, Spoilt>>
  <2>1. View' = View /\ (Active' <=> Active)
    BY <1>4 DEF View, Active
  <2>2. ~DropsInside /\ Shown' = View' /\ (Open' <=> Active')
    BY <1>3, <1>4
  <2> QED BY <1>1, <1>2, <2>1, <2>2, NothingSeen
<1>5. ASSUME Fails(s)
      PROVE  UNCHANGED <<Shown, Saved, Open, Spoilt>>
  BY <1>4, <1>5 DEF Fails
<1>6. ASSUME NEW phase \in {"update", "delete"}, Loops(s, phase)
      PROVE  UNCHANGED <<Shown, Saved, Open, Spoilt>>
  <2>1. call'.phase = phase /\ txn' = txn
    BY <1>6 DEF Loops
  <2>2. before' = before
    BY <2>1 DEF Remembers
  <2>3. Shown' = Shown /\ (Open' <=> Open) /\ ~DropsInside
    BY <1>1, <2>1, <2>2 DEF Shown, Open, Active, DropsInside
  <2> QED BY <1>2, <2>3, NothingSeen
<1>7. CASE Refused(s) \/ SelectStmt(s)
  BY <1>4, <1>5, <1>7 DEF Refused, SelectStmt
<1>8. CASE StartUpdate(s) \/ StartDelete(s)
  BY <1>5, <1>6, <1>8 DEF StartUpdate, StartDelete
<1>9. ASSUME Ends(s, "ok"), NEW u, Records(<<u>>) \/ txn' = txn
      PROVE  Open' <=> Open
  <2>1. Active' <=> Active
    BY <1>9 DEF Records, Active, EngineInv, EngineType
  <2> QED BY <1>1, <1>3, <1>9, <2>1
<1>10. CASE (CreateTableStmt(s) \/ CreateIndexStmt(s) \/ InsertStmt(s)) /\ ~Fails(s)
  <2>1. PICK u : Records(<<u>>)
    BY <1>10 DEF CreateTableStmt, CreateIndexStmt, InsertStmt
  <2>2. Ends(s, "ok") /\ s.op \notin {"DropTable", "DropIndex"}
    BY <1>10 DEF CreateTableStmt, CreateIndexStmt, InsertStmt
  <2>3. Shown' = View' /\ ~DropsInside /\ (Open' <=> Open)
    BY <1>3, <1>9, <2>1, <2>2
  <2>4. Store!CreatesTable(s) \/ Store!CreatesIndex(s) \/ Store!Inserts(s)
    BY <1>1, <1>10, <2>3, SeenCreates DEF CreateTableStmt, CreateIndexStmt, InsertStmt
  <2> QED BY <1>2, <2>3, <2>4, TakesPlace
<1>11. CASE (DropTableStmt(s) \/ DropIndexStmt(s)) /\ ~Fails(s)
  <2>1. Ends(s, "ok") /\ s.op \in {"DropTable", "DropIndex"} /\ txn' = txn
    BY <1>11 DEF DropTableStmt, DropIndexStmt
  <2>2. Shown' = View' /\ (Active => DropsInside) /\ (Open' <=> Open)
    BY <1>3, <1>9, <2>1
  <2>3. Store!DropsTable(s) \/ Store!DropsIndex(s)
    BY <1>1, <1>11, <2>2, SeenDrops DEF DropTableStmt, DropIndexStmt
  <2> QED BY <1>1, <2>2, <2>3, TakesPlace
<1>12. CASE BeginStmt(s) /\ ~Fails(s)
  <2>1. /\ ~Active /\ Ends(s, "ok") /\ tables' = tables /\ s.op = "Begin"
        /\ txn'.id = IF nextTx = 0 THEN 1 ELSE nextTx
    BY <1>12 DEF BeginStmt
  <2>2. Active'
    BY <2>1 DEF Active, NoTx, EngineInv, EngineType
  <2>3. Shown' = Shown /\ ~Open /\ Open' /\ ~DropsInside
    <3>1. View' = View
      BY <2>1 DEF View
    <3> QED BY <1>1, <1>3, <2>1, <2>2, <3>1
  <2>4. base = View /\ ~broken
    BY <1>1, <2>1 DEF StoreInv, Quiet, Active
  <2>5. Saved' = Shown'
    BY <1>1, <2>3, <2>4, HistoryIsSeen
  <2>6. ~Spoilt /\ ~Spoilt'
    <3>1. broken' <=> broken
      BY <1>2, <2>3, HistoryIsSeen, <2>4 DEF Remembers
    <3> QED BY <2>4, <3>1 DEF Spoilt
  <2>7. Store!Begins
    BY <2>3, <2>6 DEF Store!Begins, Spoilt
  <2> QED BY <2>3, <2>5, <2>7 DEF Store!Next, Saved
<1>13. CASE CommitStmt(s) /\ ~Fails(s)
  <2>1. Active /\ Ends(s, "ok") /\ tables' = tables /\ txn' = NoTxn
    BY <1>13 DEF CommitStmt
  <2>2. Shown' = Shown /\ Open /\ ~Open'
    <3>1. View' = View /\ ~Active'
      BY <2>1 DEF View, Active, NoTxn
    <3> QED BY <1>1, <1>3, <2>1, <3>1
  <2>3. Store!Commits
    BY <2>2 DEF Store!Commits
  <2>4. Saved' = Shown'
    BY <2>2 DEF Saved
  <2> QED BY <2>2, <2>3, <2>4 DEF Store!Next, Saved
<1>14. CASE RollbackStmt(s) /\ ~Fails(s)
  <2>1. Active /\ call'.phase = "undo"
    BY <1>14 DEF RollbackStmt
  <2>2. before' = before
    BY <2>1 DEF Remembers
  <2>3. Shown' = Shown /\ (Open' <=> Open) /\ ~DropsInside
    BY <1>1, <2>1, <2>2 DEF Shown, Open, DropsInside
  <2> QED BY <1>2, <2>3, NothingSeen
<1> QED BY <1>5, <1>7, <1>8, <1>10, <1>11, <1>12, <1>13, <1>14 DEF Start

\* The statement of a running loop, and its table as the store has it.
LEMMA LoopNames ==
  ASSUME EngineInv, CallInv, LoopSeen, call.phase \in {"update", "delete"}
  PROVE  /\ call.stmt \in Stmts /\ Shown = before
         /\ call.phase = "update" => call.stmt.op = "Update"
         /\ call.phase = "delete" => call.stmt.op = "Delete"
         /\ Store!Names(call.stmt, DOMAIN call.stmt.where)
         /\ call.phase = "update" =>
              Store!Names(call.stmt, DOMAIN call.stmt.set \cup DOMAIN call.stmt.where)
<1> DEFINE t == call.stmt.t
           was == before[t]
<1>1. call.stmt \in Stmts /\ Shown = before
  BY DEF EngineInv, EngineType, CallInv, Ready, Shown
<1>2. t \in DOMAIN tables /\ t \in DOMAIN before
  BY DEF EngineInv, LoopInv, LoopSeen, LoopSeenFrom
<1>3. was.schema = tables[t].schema
  <2>1. View[t].schema = was.schema
    BY DEF LoopSeen, LoopSeenFrom, SeenAfter, WithRows
  <2>2. View[t] = TableView(tables[t])
    BY <1>2, SeenTables
  <2> QED BY <2>1, <2>2 DEF TableView
<1>4. /\ DOMAIN call.stmt.where \subseteq was.schema.cols
      /\ call.phase = "update" => DOMAIN call.stmt.set \subseteq was.schema.cols
  BY <1>3 DEF LoopSeen, LoopSeenFrom, Resolves
<1> QED BY <1>1, <1>2, <1>4 DEF Store!Names, CallInv

\* One row more is not seen.  An UPDATE that stops has changed some of its rows.
LEMMA StoreInTheLoop ==
  ASSUME EngineInv, EngineInv', CallInv, StoreInv, Remembers, UpdateRow \/ DeleteOne
  PROVE  Store!Next \/ UNCHANGED <<Shown, Saved, Open, Spoilt>>
<1> DEFINE s == call.stmt
           t == s.t
           was == before[t]
           chosen == Chosen(was, s.where)
           done == chosen \ call.todo
<1>1. /\ EngineType /\ call.phase \in {"update", "delete"} /\ LoopSeen /\ Shown = before
      /\ txn' = txn
  <2>1. call.phase \in {"update", "delete"} /\ txn' = txn
    BY DEF UpdateRow, RowUpdated, DeleteOne
  <2> QED BY <2>1, LoopNames DEF EngineInv, StoreInv
<1>2. ~DropsInside
  BY <1>1 DEF DropsInside
<1>3. ASSUME call'.phase = call.phase
      PROVE  UNCHANGED <<Shown, Saved, Open, Spoilt>>
  <2>1. before' = before
    BY <1>1, <1>3 DEF Remembers
  <2>2. Shown' = Shown /\ (Open' <=> Open) /\ ~PartialUpdate
    BY <1>1, <1>3, <2>1 DEF Shown, Open, Active, PartialUpdate
  <2> QED BY <1>2, <2>2, NothingSeen
<1>4. CASE DeleteOne \/ \E r \in NextRows : RowUpdated(t, r)
  <2>1. call'.phase = call.phase
    BY <1>1, <1>4 DEF DeleteOne, RowUpdated, EngineType
  <2> QED BY <1>3, <2>1
<1>5. ASSUME UpdateRow, NEW r \in NextRows, ~Writable(tables[t], Assigned(r), r),
             call' = [call EXCEPT !.phase = "error", !.todo = {}], tables' = tables
      PROVE  Store!Next \/ UNCHANGED <<Shown, Saved, Open, Spoilt>>
  <2>1. call.phase = "update" /\ call'.phase = "error"
    BY <1>1, <1>5 DEF UpdateRow, EngineType
  <2>2. Shown' = View /\ (Open' <=> Open)
    BY <1>1, <1>5, <2>1 DEF Shown, View, Open, Active
  <2>3. CASE call.log = <<>>
    <3>1. before = View /\ ~PartialUpdate
      BY <1>1, <2>3 DEF LoopSeen, LoopSeenFrom, PartialUpdate
    <3> QED BY <1>1, <1>2, <2>2, <3>1, NothingSeen
  <2>4. CASE call.log # <<>>
    <3>1. PartialUpdate
      BY <2>1, <2>4 DEF PartialUpdate
    <3>2. /\ s \in Stmts /\ s.op = "Update"
          /\ Store!Names(s, DOMAIN s.set \cup DOMAIN s.where)
      BY <1>1, <2>1, LoopNames
    <3>3. ~Sound(Assign(was, chosen, s.set))
      BY <1>1, <1>5, <2>1, ClashIsFinal DEF LoopSeen
    <3>4. Store!Becomes(t, View[t])
      BY <1>1, <2>2, LoopBecomes
    <3>5. View[t] = Assign(was, done, s.set)
      <4>1. View[t] = WithRows(was, AssignedRows(was.rows, done, s.set)) /\ IsSeen(was)
        BY <1>1, <2>1 DEF LoopSeen, LoopSeenFrom, SeenAfter
      <4> HIDE DEF was, done
      <4> QED BY <4>1, AssignIsSeen
    <3>6. done \in SUBSET chosen
      OBVIOUS
    <3>7. Store!UpdatesPartly(s)
      <4>1. Store!Becomes(t, Store!Assign(Shown[t], done, s.set))
        BY <1>1, <3>4, <3>5, StoreSpeaksAlike
      <4>2. done \in SUBSET Store!Chosen(Shown[t], s.where)
        BY <1>1, <3>6, StoreSpeaksAlike
      <4>3. ~Store!Sound(Store!Assign(Shown[t], Store!Chosen(Shown[t], s.where), s.set))
        BY <1>1, <3>3, StoreSpeaksAlike
      <4> HIDE DEF done
      <4> QED BY <3>2, <4>1, <4>2, <4>3 DEF Store!UpdatesPartly
    <3> QED BY <2>1, <2>2, <3>1, <3>2, <3>7, TakesPlace
  <2> QED BY <2>3, <2>4
<1> QED BY <1>4, <1>5 DEF UpdateRow

\* UPDATE and DELETE take place when they end, on all their rows.
LEMMA StoreAfterLoop ==
  ASSUME EngineInv, EngineInv', CallInv, StoreInv, Remembers, LoopDone
  PROVE  Store!Next
<1> DEFINE s == call.stmt
           t == s.t
           was == before[t]
           chosen == Chosen(was, s.where)
<1>1. /\ EngineType /\ call.phase \in {"update", "delete"} /\ LoopSeen /\ call.todo = {}
      /\ Records(call.log) /\ Ends(s, "ok") /\ tables' = tables
  BY DEF LoopDone, EngineInv, StoreInv
<1>2. /\ s \in Stmts /\ Shown = before /\ Store!Names(s, DOMAIN s.where)
      /\ call.phase = "update" =>
           s.op = "Update" /\ Store!Names(s, DOMAIN s.set \cup DOMAIN s.where)
      /\ call.phase = "delete" => s.op = "Delete"
  BY <1>1, LoopNames
<1>3. Shown' = View /\ (Open' <=> Open) /\ ~DropsInside /\ ~PartialUpdate
  <2>1. call'.phase = "ok"
    BY <1>1, EndOf
  <2>2. txn'.id = txn.id
    BY <1>1 DEF Records, EngineType
  <2> QED BY <1>1, <2>1, <2>2 DEF Shown, View, Open, Active, DropsInside, PartialUpdate
<1>4. Store!Becomes(t, View[t])
  BY <1>1, <1>3, LoopBecomes
<1>5. View[t] = SeenAfter(was, chosen) /\ IsSeen(was)
  <2>1. chosen \ call.todo = chosen
    BY <1>1
  <2> QED BY <1>1, <2>1 DEF LoopSeen, LoopSeenFrom
<1> HIDE DEF chosen
<1>6. CASE call.phase = "update"
  <2>1. View[t] = Assign(was, chosen, s.set)
    BY <1>5, <1>6, AssignIsSeen DEF SeenAfter
  <2>2. Store!Updates(s)
    BY <1>2, <1>4, <1>6, <2>1, StoreSpeaksAlike DEF Store!Updates, chosen
  <2> QED BY <1>2, <1>3, <2>2, TakesPlace
<1>7. CASE call.phase = "delete"
  <2>1. View[t] = [was EXCEPT !.rows = Store!Restrict(@, DOMAIN @ \ chosen)]
    <3>1. [was EXCEPT !.rows = Restrict(@, DOMAIN @ \ chosen)] = WithRows(was, KeptRows(was.rows, chosen))
      BY <1>5, KeptIsSeen
    <3>2. Store!Restrict(was.rows, DOMAIN was.rows \ chosen) = Restrict(was.rows, DOMAIN was.rows \ chosen)
      BY DEF Store!Restrict, Restrict
    <3> QED BY <1>5, <1>7, <3>1, <3>2 DEF SeenAfter
  <2>2. Store!Deletes(s)
    BY <1>2, <1>4, <1>7, <2>1, StoreSpeaksAlike DEF Store!Deletes, chosen
  <2> QED BY <1>2, <1>3, <2>2, TakesPlace
<1> QED BY <1>1, <1>6, <1>7

\* A ROLLBACK takes place when it ends, all of it unless the transaction was
\* broken.
LEMMA StoreLater ==
  ASSUME EngineInv, EngineInv', CallInv, CallInv', StoreInv, RestoreInv', Remembers,
         UndoLast \/ UndoDone \/ Returns
  PROVE  Store!Next \/ UNCHANGED <<Shown, Saved, Open, Spoilt>>
<1>1. EngineType
  BY DEF EngineInv
<1>2. CASE Returns
  <2>1. /\ call.phase \in {"ok", "error"} /\ call'.phase = "ready" /\ tables' = tables /\ txn' = txn
    BY <1>2 DEF Returns, Ready
  <2>2. Shown' = Shown /\ (Open' <=> Open) /\ ~DropsInside /\ ~PartialUpdate
    BY <2>1 DEF Shown, View, Open, Active, DropsInside, PartialUpdate
  <2> QED BY <2>2, NothingSeen
<1>3. ASSUME UndoLast, call'.phase = "undo"
      PROVE  UNCHANGED <<Shown, Saved, Open, Spoilt>>
  <2>1. call.phase = "undo" /\ txn' = txn
    BY <1>3 DEF UndoLast
  <2>2. before' = before
    BY <1>3 DEF Remembers
  <2>3. Shown' = Shown /\ (Open' <=> Open) /\ ~DropsInside /\ ~PartialUpdate
    BY <1>3, <2>1, <2>2 DEF Shown, Open, DropsInside, PartialUpdate
  <2> QED BY <2>3, NothingSeen
<1>4. ASSUME call.phase = "undo", ~Active', call'.phase \in {"ok", "error"}, call'.tx # NoTx,
             call'.stmt.op = "Rollback"
      PROVE  Store!Next
  <2>1. Open /\ ~Open' /\ Shown' = View'
    BY <1>4 DEF Open, Shown
  <2>2. ~broken => View' = base
    <3>1. ~Quiet' /\ base' = base
      BY <1>4 DEF Quiet, Remembers
    <3>2. ~broken => ~broken'
      BY <1>4 DEF Remembers, DropsInside, PartialUpdate
    <3>3. ~broken' => call'.phase = "ok"
      BY <1>4 DEF RestoreInv, RollbackSucceeds
    <3> QED BY <1>4, <3>1, <3>2, <3>3 DEF RestoreInv, RollbackRestores
  <2>3. \A t \in DOMAIN Shown' : Store!Sound(Shown'[t])
    BY <2>1, SoundTablesAreSeen, StoreSpeaksAlike DEF SoundView, EngineInv
  <2>4. Store!RollsBack
    BY <2>1, <2>2, <2>3 DEF Store!RollsBack
  <2> QED BY <2>1, <2>4 DEF Store!Next
<1>5. CASE (UndoLast /\ call'.phase # "undo") \/ UndoDone
  <2>1. /\ call.phase = "undo" /\ txn' = txn /\ call'.phase \in {"ok", "error"}
        /\ call'.stmt = call.stmt /\ call'.tx = call.tx
    BY <1>1, <1>5 DEF UndoLast, UndoDone, EngineType
  <2>2. ~Active' /\ call'.tx # NoTx /\ call'.stmt.op = "Rollback"
    BY <2>1 DEF Active, CallInv, EngineInv, TxnInv
  <2> QED BY <1>4, <2>1, <2>2
<1> QED BY <1>2, <1>3, <1>5

\* Every step of the engine is one of the store, or cannot be seen.
LEMMA StoreStep ==
  ASSUME EngineInv, EngineInv', CallInv, CallInv', StoreInv, RestoreInv', [Next]_vars
  PROVE  [Store!Next]_<<Shown, IF Open THEN base ELSE Shown, Open, Open /\ broken>>
<1>1. CASE Next
  <2>1. Store!Next \/ UNCHANGED <<Shown, Saved, Open, Spoilt>>
    BY <1>1, StoreAtStart, StoreInTheLoop, StoreAfterLoop, StoreLater
       DEF Next, EngineNext, Starts, Continues
  <2> QED BY <2>1 DEF Saved, Spoilt
<1>2. CASE UNCHANGED vars
  BY <1>2 DEF vars, Shown, Open, Active, View
<1> QED BY <1>1, <1>2

\* The engine implements the store in which every statement takes place at
\* once (Database::execute with execute_statement, execution.rs): an UPDATE
\* that checks and writes row by row succeeds exactly when the rows it ends
\* with are sound together, a DELETE removes exactly the rows it chose, and
\* ROLLBACK is one step back to what BEGIN saw.
THEOREM EngineIsStore == Spec => ImplementsStore
<1>1. Init => Store!Init /\ StoreInv
  <2> SUFFICES ASSUME Init PROVE Store!Init /\ StoreInv
    OBVIOUS
  <2>1. /\ View = [t \in {} |-> 0] /\ base = View /\ before = View /\ ~broken
        /\ call.phase = "ready" /\ txn.id = NoTx
    BY DEF Init, EmptyDatabase, View, NoTxn, Ready
  <2>2. Shown = View /\ ~Open
    BY <2>1 DEF Shown, Open, Active
  <2> QED BY <2>1, <2>2 DEF Store!Init, StoreInv
<1> DEFINE Inv == EngineInv /\ CallInv /\ BoundsInv /\ LockInv
<1>2. Inv /\ Inv' /\ StoreInv /\ [Next]_vars => StoreInv'
  BY StoreInvStep
<1>3. Inv /\ Inv' /\ StoreInv /\ RestoreInv' /\ [Next]_vars
        => [Store!Next]_<<Shown, IF Open THEN base ELSE Shown, Open, Open /\ broken>>
  BY StoreStep
<1> QED BY <1>1, <1>2, <1>3, HistoryInductive, AlwaysRestorable, PTL
        DEF Spec, ImplementsStore, Store!Spec

\* An UPDATE that is refused at one of its rows (replace_row at
\* execution.rs:304) would have left its table unsound.
THEOREM RefusalsAreRight == Spec => RefusedUpdatesClash
<1> DEFINE Inv == EngineInv /\ CallInv /\ BoundsInv /\ LockInv
           was == before[call.stmt.t]
           Clashes == ~Sound(Assign(was, Chosen(was, call.stmt.where), call.stmt.set))
<1>1. Init => StoreInv
  <2> SUFFICES ASSUME Init PROVE StoreInv
    OBVIOUS
  <2> QED BY DEF Init, EmptyDatabase, Ready, StoreInv
<1>2. Inv /\ Inv' /\ StoreInv /\ [Next]_vars => StoreInv'
  BY StoreInvStep
<1>3. Inv /\ StoreInv /\ [Next]_vars
        => [call.phase = "update" /\ call'.phase = "error" => Clashes]_vars
  <2> SUFFICES ASSUME Inv, StoreInv, Next, call.phase = "update", call'.phase = "error"
               PROVE  Clashes
    OBVIOUS
  <2>1. LoopSeen /\ EngineType
    BY DEF StoreInv, EngineInv
  <2>2. PICK r \in NextRows : ~Writable(tables[call.stmt.t], Assigned(r), r)
    <3>1. UpdateRow
      <4>1. ~Starts
        BY DEF Starts, Start, Begins, Refused, CreateTableStmt, DropTableStmt, CreateIndexStmt,
           DropIndexStmt, InsertStmt, SelectStmt, StartUpdate, StartDelete, BeginStmt,
           CommitStmt, RollbackStmt
      <4>2. ~LoopDone
        BY EndOf DEF LoopDone
      <4> QED BY <4>1, <4>2 DEF Next, EngineNext, Continues, Returns, DeleteOne, UndoLast, UndoDone
    <3>2. \A r : RowUpdated(call.stmt.t, r) => call'.phase = "update"
      BY <2>1 DEF RowUpdated, EngineType
    <3> QED BY <3>1, <3>2 DEF UpdateRow
  <2> QED BY <2>1, <2>2, ClashIsFinal DEF LoopSeen
<1> QED BY <1>1, <1>2, <1>3, HistoryInductive, PTL DEF Spec, RefusedUpdatesClash

=============================================================================
