------------------------- MODULE SlottedPageProofs -------------------------
(***************************************************************************)
(* The slots of a page, for every page size, overhead and set of records.  *)
(* That an empty slot exists whenever fewer records are live than ever     *)
(* were follows from counting the live slots, so SlotsArePeak is inductive *)
(* with the type invariant.  The budget is a count of bytes: what a call   *)
(* adds to the bytes taken is counted, not the sum of all sizes.           *)
(***************************************************************************)
EXTENDS SlottedPage, FiniteSetTheorems, TLAPS

IInv == TypeOK /\ SlotsArePeak

\* The live slots are some of the slots, so there are no more of them.
LEMMA LiveCount ==
  ASSUME slots \in Seq(Record \cup {NoRecord})
  PROVE  /\ IsFiniteSet(Live) /\ Cardinality(Live) \in Nat
         /\ Cardinality(Live) <= Len(slots)
<1>1. Live \subseteq 1..Len(slots)
  BY DEF Live
<1>2. Len(slots) \in Nat /\ 0 \in Int /\ 1 \in Int
  OBVIOUS
<1>3. /\ IsFiniteSet(1..Len(slots))
      /\ Cardinality(1..Len(slots)) = IF 1 > Len(slots) THEN 0 ELSE Len(slots) - 1 + 1
  BY <1>2, FS_Interval
<1>4. Cardinality(1..Len(slots)) = Len(slots)
  BY <1>2, <1>3
<1>5. /\ IsFiniteSet(Live) /\ Cardinality(Live) <= Cardinality(1..Len(slots))
  BY <1>1, <1>3, FS_Subset
<1> QED BY <1>4, <1>5, FS_CardinalityType

LEMMA InitIInv == Init => IInv
BY DEF Init, IInv, TypeOK, SlotsArePeak

\* A call that makes no new slot leaves the peak as it was.
LEMMA SameSlots ==
  ASSUME IInv, slots' \in Seq(Record \cup {NoRecord}), Len(slots') = Len(slots),
         answer' \in Nat, Remembers
  PROVE  IInv'
<1>1. Cardinality(Live)' \in Nat /\ Cardinality(Live)' <= Len(slots')
  <2>1. (slots \in Seq(Record \cup {NoRecord}) =>
           /\ Cardinality(Live) \in Nat /\ Cardinality(Live) <= Len(slots))'
    BY LiveCount, PTL
  <2> QED BY <2>1
<1>2. peak' = peak
  BY <1>1 DEF IInv, TypeOK, SlotsArePeak, Remembers
<1> QED BY <1>2 DEF IInv, TypeOK, SlotsArePeak

LEMMA InsertStep ==
  ASSUME IInv, NEW rec \in Record, Insert(rec)
  PROVE  IInv'
<1> USE DEF IInv, TypeOK
<1>1. Remembers
  BY DEF Insert
<1>2. ASSUME NEW s \in DOMAIN slots, slots' = [slots EXCEPT ![s] = rec], answer' = s
      PROVE  IInv'
  <2>1. slots' \in Seq(Record \cup {NoRecord}) /\ Len(slots') = Len(slots) /\ answer' \in Nat
    BY <1>2
  <2> QED BY <2>1, <1>1, SameSlots
<1>3. CASE /\ Live = DOMAIN slots
           /\ slots' = Append(slots, rec) /\ answer' = Len(slots) + 1
  <2>1. /\ slots' \in Seq(Record \cup {NoRecord}) /\ answer' \in Nat
        /\ Len(slots) \in Nat /\ Len(slots') = Len(slots) + 1
    BY <1>3
  <2>2. Live' = 1..(Len(slots) + 1)
    <3>1. ASSUME NEW s \in 1..(Len(slots) + 1)
          PROVE  slots'[s] # NoRecord
      <4>1. CASE s \in DOMAIN slots
        <5>1. slots'[s] = slots[s] /\ s \in Live
          BY <4>1, <1>3
        <5> QED BY <5>1 DEF Live
      <4>2. CASE s = Len(slots) + 1
        BY <4>2, <1>3, NoRecordAssumption
      <4> QED BY <4>1, <4>2
    <3>2. DOMAIN slots' = 1..(Len(slots) + 1)
      BY <1>3
    <3> QED BY <3>1, <3>2 DEF Live
  <2>3. Cardinality(Live') = Len(slots) + 1
    <3>1. Cardinality(1..(Len(slots) + 1)) =
            IF 1 > Len(slots) + 1 THEN 0 ELSE (Len(slots) + 1) - 1 + 1
      BY <2>1, FS_Interval
    <3> QED BY <3>1, <2>1, <2>2
  <2>4. peak' = Len(slots) + 1
    BY <1>1, <2>1, <2>3 DEF SlotsArePeak, Remembers
  <2> QED BY <2>1, <2>4 DEF SlotsArePeak
<1>4. CASE answer' = 0 /\ UNCHANGED slots
  BY <1>1, <1>4, SameSlots
<1> QED BY <1>2, <1>3, <1>4 DEF Insert

LEMMA DeleteStep ==
  ASSUME IInv, NEW s \in SlotId, Delete(s)
  PROVE  IInv'
<1> USE DEF IInv, TypeOK
<1>1. Remembers /\ s \in Nat
  BY SlotIdAssumption DEF Delete
<1>2. CASE s \in DOMAIN slots /\ slots' = [slots EXCEPT ![s] = NoRecord] /\ answer' = s
  <2>1. slots' \in Seq(Record \cup {NoRecord}) /\ Len(slots') = Len(slots) /\ answer' \in Nat
    BY <1>1, <1>2
  <2> QED BY <2>1, <1>1, SameSlots
<1>3. CASE answer' = 0 /\ UNCHANGED slots
  BY <1>1, <1>3, SameSlots
<1> QED BY <1>2, <1>3 DEF Delete

LEMMA NextIInv == IInv /\ [Next]_vars => IInv'
<1> SUFFICES ASSUME IInv, [Next]_vars PROVE IInv'
  OBVIOUS
<1>1. CASE \E rec \in Record : Insert(rec)
  BY <1>1, InsertStep
<1>2. CASE \E s \in SlotId : Delete(s)
  BY <1>2, DeleteStep
<1>3. CASE UNCHANGED vars
  BY <1>3 DEF IInv, TypeOK, SlotsArePeak, vars
<1> QED BY <1>1, <1>2, <1>3 DEF Next

LEMMA SpecIInv == Spec => []IInv
BY InitIInv, NextIInv, PTL DEF Spec

\* Slots are records or empty, answers slot numbers (pager.rs:18-21).
THEOREM PageTypeCorrect == Spec => []TypeOK
<1>1. IInv => TypeOK
  BY DEF IInv
<1> QED BY <1>1, SpecIInv, PTL

\* A page never makes a slot while it has an empty one, so it has as many
\* slots as it ever had records at one time (pager.rs:37-48).
THEOREM SlotsAreReused == Spec => []SlotsArePeak
<1>1. IInv => SlotsArePeak
  BY DEF IInv
<1> QED BY <1>1, SpecIInv, PTL

\* No call moves, overwrites or frees a record but the delete of its own
\* handle (pager.rs:26-61).
THEOREM HandlesAreStable == Spec => HandlesStay
<1>1. ASSUME TypeOK, [Next]_vars, NEW s \in Live
      PROVE  /\ s \in DOMAIN slots'
             /\ slots'[s] # slots[s] =>
                  /\ slots'[s] = NoRecord /\ answer' = s
                  /\ \A q \in DOMAIN slots \ {s} : slots'[q] = slots[q]
  <2> USE <1>1 DEF TypeOK, Live
  <2>1. ASSUME NEW rec \in Record, Insert(rec)
        PROVE  s \in DOMAIN slots' /\ slots'[s] = slots[s]
    BY <2>1 DEF Insert
  <2>2. ASSUME NEW d \in SlotId, Delete(d)
        PROVE  /\ s \in DOMAIN slots'
               /\ slots'[s] # slots[s] =>
                    /\ slots'[s] = NoRecord /\ answer' = s
                    /\ \A q \in DOMAIN slots \ {s} : slots'[q] = slots[q]
    BY <2>2 DEF Delete
  <2>3. CASE UNCHANGED vars
    BY <2>3 DEF vars
  <2> QED BY <2>1, <2>2, <2>3 DEF Next
<1>2. TypeOK /\ [Next]_vars =>
        [\A s \in Live :
           /\ s \in DOMAIN slots'
           /\ slots'[s] # slots[s] =>
                /\ slots'[s] = NoRecord /\ answer' = s
                /\ \A q \in DOMAIN slots \ {s} : slots'[q] = slots[q]]_vars
  BY <1>1
<1> QED BY <1>2, PageTypeCorrect, PTL DEF Spec, HandlesStay

-----------------------------------------------------------------------------
(* The budget of bytes.                                                    *)

\* The bytes that are taken can be counted, and the page has them.
BudgetInv == TypeOK /\ IsFiniteSet(TakenBytes) /\ NeverOverfull

\* The bytes from `a` to `b` of one slot, counted.
LEMMA BytesOfSlot ==
  ASSUME NEW s, NEW a \in Nat, NEW b \in Nat, a <= b
  PROVE  /\ IsFiniteSet({s} \X ((a + 1)..b))
         /\ Cardinality({s} \X ((a + 1)..b)) = b - a
<1>1. IsFiniteSet({s}) /\ Cardinality({s}) = 1
  BY FS_Singleton
<1>2. /\ IsFiniteSet((a + 1)..b)
      /\ Cardinality((a + 1)..b) = IF a + 1 > b THEN 0 ELSE b - (a + 1) + 1
  BY FS_Interval
<1>3. Cardinality((a + 1)..b) = b - a
  BY <1>2
<1>4. /\ IsFiniteSet({s} \X ((a + 1)..b))
      /\ Cardinality({s} \X ((a + 1)..b)) = Cardinality({s}) * Cardinality((a + 1)..b)
  BY <1>1, <1>2, FS_Product
<1> QED BY <1>1, <1>3, <1>4

\* A call that takes no bytes but those from `a` to `b` of one slot, for which
\* there is room, does not overfill the page.
LEMMA RoomForBytes ==
  ASSUME BudgetInv, TypeOK', NEW s, NEW a \in Nat, NEW b \in Nat, a <= b,
         TakenBytes' \subseteq TakenBytes \cup ({s} \X ((a + 1)..b)),
         PageSize - Used >= b - a
  PROVE  BudgetInv'
<1> DEFINE more == {s} \X ((a + 1)..b)
           both == TakenBytes \cup more
<1>1. IsFiniteSet(more) /\ Cardinality(more) = b - a
  BY BytesOfSlot
<1>2. IsFiniteSet(TakenBytes) /\ Used <= PageSize /\ Used \in Nat /\ Used = Cardinality(TakenBytes)
  BY FS_CardinalityType DEF BudgetInv, NeverOverfull, Used
<1> HIDE DEF more
<1>3. /\ IsFiniteSet(both)
      /\ Cardinality(both) = Used + Cardinality(more) - Cardinality(TakenBytes \cap more)
  BY <1>1, <1>2, FS_Union
<1>4. Cardinality(TakenBytes \cap more) \in Nat
  BY <1>1, <1>2, FS_Intersection, FS_CardinalityType
<1>5. TakenBytes' \in SUBSET both
  BY DEF more
<1> HIDE DEF both
<1>6. IsFiniteSet(TakenBytes') /\ Cardinality(TakenBytes') <= Cardinality(both)
  BY <1>3, <1>5, FS_Subset
<1>7. Cardinality(TakenBytes') \in Nat /\ Used' = Cardinality(TakenBytes')
  BY <1>6, FS_CardinalityType DEF Used
<1>8. Used' <= PageSize
  BY <1>1, <1>2, <1>3, <1>4, <1>6, <1>7, OverheadAssumption
<1> QED BY <1>6, <1>8 DEF BudgetInv, NeverOverfull

\* The bytes of the slots after one of them has changed.
LEMMA BytesOfOthers ==
  ASSUME NEW s, NEW extra,
         \A q \in DOMAIN slots' \ {s} : q \in DOMAIN slots /\ slots'[q] = slots[q],
         s \in DOMAIN slots' => Bytes(s)' \subseteq TakenBytes \cup extra
  PROVE  TakenBytes' \subseteq TakenBytes \cup extra
<1> SUFFICES ASSUME NEW q \in DOMAIN slots', NEW x \in Bytes(q)'
             PROVE  x \in TakenBytes \cup extra
  BY DEF TakenBytes
<1>1. CASE q = s
  BY <1>1
<1>2. CASE q # s
  <2>1. q \in DOMAIN slots /\ Bytes(q)' = Bytes(q)
    BY <1>2 DEF Bytes
  <2> QED BY <2>1 DEF TakenBytes
<1> QED BY <1>1, <1>2

\* insert: an empty slot has its overhead already, a new one is given it.
LEMMA InsertBudget ==
  ASSUME BudgetInv, TypeOK', NEW rec \in Record, Insert(rec)
  PROVE  BudgetInv'
<1> DEFINE full == SlotOverhead + Size[rec]
<1>1. /\ SlotOverhead \in Nat /\ PageSize \in Nat /\ Size[rec] \in Nat /\ full \in Nat
      /\ SlotOverhead <= full /\ full - SlotOverhead = Size[rec] /\ full - 0 = full /\ 0 <= full
      /\ rec # NoRecord
  BY OverheadAssumption, SizeAssumption, NoRecordAssumption
<1>2. slots \in Seq(Record \cup {NoRecord}) /\ Used \in Nat
  BY FS_CardinalityType DEF BudgetInv, TypeOK, Used
<1>3. Fits(rec) => PageSize - Used >= full /\ PageSize - Used >= Size[rec]
  BY <1>1, <1>2 DEF Fits
<1>4. ASSUME NEW s \in DOMAIN slots, Fits(rec), slots[s] = NoRecord, slots' = [slots EXCEPT ![s] = rec]
      PROVE  BudgetInv'
  <2> DEFINE extra == {s} \X ((SlotOverhead + 1)..full)
  <2>1. /\ DOMAIN slots' = DOMAIN slots /\ slots'[s] = rec
        /\ \A q \in DOMAIN slots \ {s} : slots'[q] = slots[q]
    BY <1>4
  <2>2. Bytes(s)' = {s} \X (1..full)
    BY <1>1, <2>1 DEF Bytes
  <2>3. Bytes(s) = {s} \X (1..SlotOverhead)
    BY <1>1, <1>4 DEF Bytes
  <2>4. 1..full \subseteq (1..SlotOverhead) \cup ((SlotOverhead + 1)..full)
    BY <1>1
  <2>5. Bytes(s) \subseteq TakenBytes
    BY DEF TakenBytes
  <2>6. Bytes(s)' \subseteq TakenBytes \cup extra
    BY <2>2, <2>3, <2>4, <2>5
  <2>7. TakenBytes' \subseteq TakenBytes \cup extra
    BY <2>1, <2>6, BytesOfOthers
  <2> QED BY <1>1, <1>3, <1>4, <2>7, RoomForBytes
<1>5. ASSUME Fits(rec), slots' = Append(slots, rec)
      PROVE  BudgetInv'
  <2> SUFFICES ASSUME NEW s \in Nat, s = Len(slots) + 1
               PROVE  BudgetInv'
    BY <1>2
  <2> DEFINE extra == {s} \X ((0 + 1)..full)
  <2>1. /\ slots'[s] = rec
        /\ \A q \in DOMAIN slots' \ {s} : q \in DOMAIN slots /\ slots'[q] = slots[q]
    BY <1>2, <1>5
  <2>2. Bytes(s)' = extra
    <3>1. 0 + 1 = 1
      OBVIOUS
    <3>2. Bytes(s)' = {s} \X (1..full)
      BY <1>1, <2>1 DEF Bytes
    <3> QED BY <3>1, <3>2
  <2>3. Bytes(s)' \subseteq TakenBytes \cup extra
    BY <2>2
  <2> HIDE DEF extra
  <2>4. TakenBytes' \subseteq TakenBytes \cup extra
    BY <2>1, <2>3, BytesOfOthers
  <2> QED BY <1>1, <1>3, <1>5, <2>4, RoomForBytes DEF extra
<1>6. ASSUME slots' = slots
      PROVE  BudgetInv'
  <2>1. TakenBytes' = TakenBytes
    BY <1>6 DEF TakenBytes, Bytes
  <2> QED BY <2>1 DEF BudgetInv, NeverOverfull, Used
<1> QED BY <1>4, <1>5, <1>6 DEF Insert

\* delete: the slot keeps its overhead.
LEMMA DeleteBudget ==
  ASSUME BudgetInv, TypeOK', NEW s \in SlotId, Delete(s)
  PROVE  BudgetInv'
<1>1. SlotOverhead \in Nat /\ PageSize \in Nat /\ Size \in [Record -> Nat]
  BY OverheadAssumption, SizeAssumption
<1>2. slots \in Seq(Record \cup {NoRecord})
  BY DEF BudgetInv, TypeOK
<1>3. CASE s \in DOMAIN slots /\ slots' = [slots EXCEPT ![s] = NoRecord]
  <2>1. /\ DOMAIN slots' = DOMAIN slots /\ slots'[s] = NoRecord
        /\ \A q \in DOMAIN slots \ {s} : slots'[q] = slots[q]
    BY <1>3
  <2>2. Bytes(s)' = {s} \X (1..SlotOverhead)
    BY <1>1, <2>1 DEF Bytes
  <2>3. Bytes(s)' \subseteq Bytes(s)
    <3>1. CASE slots[s] = NoRecord
      BY <1>1, <2>2, <3>1 DEF Bytes
    <3>2. CASE slots[s] # NoRecord
      <4>1. slots[s] \in Record
        BY <1>2, <1>3, <3>2
      <4>2. Size[slots[s]] \in Nat
        BY <1>1, <4>1
      <4>3. 1..SlotOverhead \subseteq 1..(SlotOverhead + Size[slots[s]])
        BY <1>1, <4>2
      <4> QED BY <2>2, <3>2, <4>3 DEF Bytes
    <3> QED BY <3>1, <3>2
  <2>4. Bytes(s)' \subseteq TakenBytes \cup {}
    BY <1>3, <2>3 DEF TakenBytes
  <2>5. TakenBytes' \subseteq TakenBytes
    BY <2>1, <2>4, BytesOfOthers
  <2>6. /\ IsFiniteSet(TakenBytes') /\ Cardinality(TakenBytes') <= Cardinality(TakenBytes)
    BY <2>5, FS_Subset DEF BudgetInv
  <2>7. Cardinality(TakenBytes') \in Nat /\ Cardinality(TakenBytes) \in Nat
    BY <2>6, FS_CardinalityType DEF BudgetInv
  <2> QED BY <1>1, <2>6, <2>7 DEF BudgetInv, NeverOverfull, Used
<1>4. CASE slots' = slots
  <2>1. TakenBytes' = TakenBytes
    BY <1>4 DEF TakenBytes, Bytes
  <2> QED BY <2>1 DEF BudgetInv, NeverOverfull, Used
<1> QED BY <1>3, <1>4 DEF Delete

\* The slots never take more bytes than the page has, whatever is inserted,
\* deleted and inserted again: free_space (pager.rs:71) never saturates.
THEOREM PageNeverOverfull == Spec => []NeverOverfull
<1>1. Init => BudgetInv
  <2> SUFFICES ASSUME Init PROVE BudgetInv
    OBVIOUS
  <2>1. TypeOK
    BY InitIInv DEF IInv
  <2>2. TakenBytes = {}
    BY DEF Init, TakenBytes
  <2>3. IsFiniteSet({}) /\ Cardinality({}) = 0
    BY FS_EmptySet
  <2> QED BY <2>1, <2>2, <2>3, OverheadAssumption DEF BudgetInv, NeverOverfull, Used
<1>2. BudgetInv /\ TypeOK' /\ [Next]_vars => BudgetInv'
  <2> SUFFICES ASSUME BudgetInv, TypeOK', [Next]_vars PROVE BudgetInv'
    OBVIOUS
  <2>1. CASE \E rec \in Record : Insert(rec)
    BY <2>1, InsertBudget
  <2>2. CASE \E s \in SlotId : Delete(s)
    BY <2>2, DeleteBudget
  <2>3. CASE UNCHANGED vars
    <3>1. TakenBytes' = TakenBytes
      BY <2>3 DEF vars, TakenBytes, Bytes
    <3> QED BY <3>1 DEF BudgetInv, NeverOverfull, Used
  <2> QED BY <2>1, <2>2, <2>3 DEF Next
<1>3. BudgetInv => NeverOverfull
  BY DEF BudgetInv
<1> QED BY <1>1, <1>2, <1>3, PageTypeCorrect, PTL DEF Spec

=============================================================================
