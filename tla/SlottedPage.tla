---------------------------- MODULE SlottedPage ----------------------------
(***************************************************************************)
(* A slotted page (src/src/pager.rs): records of different sizes in        *)
(* numbered slots, under a budget of bytes.  A slot number, once given     *)
(* out, is the handle of its record until the record is deleted.           *)
(***************************************************************************)
EXTENDS Integers, Sequences, FiniteSets

CONSTANTS
  PageSize,      \* PAGE_SIZE
  SlotOverhead,  \* SLOT_OVERHEAD
  Record,        \* the records callers insert
  Size,          \* the length in bytes of each record
  NoRecord,      \* the None of an empty slot
  SlotId         \* the slot numbers callers use, from 1

ASSUME SizeAssumption == Size \in [Record -> Nat]
ASSUME OverheadAssumption == SlotOverhead \in Nat /\ PageSize \in Nat
ASSUME NoRecordAssumption == NoRecord \notin Record
ASSUME SlotIdAssumption == SlotId \subseteq Nat \ {0}

VARIABLES
  slots,   \* the record in each slot
  answer,  \* of the last call: the slot it returned, or 0 for an error
  peak     \* history: the most records there ever were at one time

vars == <<slots, answer, peak>>

Live == {s \in DOMAIN slots : slots[s] # NoRecord}

\* The bytes a slot takes: an empty slot still costs its overhead.
Bytes(s) ==
  {s} \X (1..(SlotOverhead + (IF slots[s] = NoRecord THEN 0 ELSE Size[slots[s]])))

TakenBytes == UNION {Bytes(s) : s \in DOMAIN slots}

\* used_space: what the slots take together.
Used == Cardinality(TakenBytes)

\* Bug: the overhead of the slot is not counted.
FitsBare(rec) == Size[rec] > 0 /\ PageSize - Used >= Size[rec]

\* The record is not empty, and free_space is enough for it and a slot: also
\* when it goes to an empty slot, whose overhead is counted already.
Fits(rec) == Size[rec] > 0 /\ PageSize - Used >= Size[rec] + SlotOverhead

Init == slots = <<>> /\ answer = 0 /\ peak = 0

Remembers == peak' = IF Cardinality(Live') > peak THEN Cardinality(Live') ELSE peak

\* Bug: the search for an empty slot also takes one that has a record.
InsertOver(rec) ==
  /\ \/ /\ Fits(rec)
        /\ \/ \E s \in DOMAIN slots :
                slots' = [slots EXCEPT ![s] = rec] /\ answer' = s
           \/ slots = <<>> /\ slots' = <<rec>> /\ answer' = 1
     \/ ~Fits(rec) /\ answer' = 0 /\ UNCHANGED slots
  /\ Remembers

\* Bug: a record always gets a new slot.
InsertAtEnd(rec) ==
  /\ \/ Fits(rec) /\ slots' = Append(slots, rec) /\ answer' = Len(slots')
     \/ ~Fits(rec) /\ answer' = 0 /\ UNCHANGED slots
  /\ Remembers

Insert(rec) ==
  /\ \/ /\ Fits(rec)
        /\ \/ \E s \in DOMAIN slots :
                /\ slots[s] = NoRecord
                /\ \A q \in 1..(s - 1) : slots[q] # NoRecord
                /\ slots' = [slots EXCEPT ![s] = rec]
                /\ answer' = s
           \/ /\ Live = DOMAIN slots
              /\ slots' = Append(slots, rec)
              /\ answer' = Len(slots) + 1
     \/ ~Fits(rec) /\ answer' = 0 /\ UNCHANGED slots
  /\ Remembers

\* Bug: a deleted slot keeps a link to the slot of the last call.
DeleteLinking(s) ==
  /\ \/ s \in DOMAIN slots /\ slots' = [slots EXCEPT ![s] = answer] /\ answer' = s
     \/ s \notin DOMAIN slots /\ answer' = 0 /\ UNCHANGED slots
  /\ Remembers

\* delete: an empty slot can be deleted again.
Delete(s) ==
  /\ \/ s \in DOMAIN slots /\ slots' = [slots EXCEPT ![s] = NoRecord] /\ answer' = s
     \/ s \notin DOMAIN slots /\ answer' = 0 /\ UNCHANGED slots
  /\ Remembers

Next == (\E rec \in Record : Insert(rec)) \/ (\E s \in SlotId : Delete(s))

Spec == Init /\ [][Next]_vars

-----------------------------------------------------------------------------
(* Properties.                                                             *)

TypeOK ==
  /\ slots \in Seq(Record \cup {NoRecord})
  /\ answer \in Nat /\ peak \in Nat

\* Whatever is inserted, deleted and inserted again, the page never holds
\* more bytes than it has, so that free_space (pager.rs:71) never saturates.
NeverOverfull == Used <= PageSize

\* The page has exactly as many slots as it ever had records at one time: an
\* empty slot is reused before a new one is made (pager.rs:37), so the bytes
\* lost to the overhead of empty slots are bounded by the peak.
SlotsArePeak == Len(slots) = peak

\* A slot with a record changes only when it is deleted, and then alone:
\* a handle given out by insert stays the handle of its record (get), and is
\* not given out a second time while the record is there.
HandlesStay ==
  [][\A s \in Live :
       /\ s \in DOMAIN slots'
       /\ slots'[s] # slots[s] =>
            /\ slots'[s] = NoRecord /\ answer' = s
            /\ \A q \in DOMAIN slots \ {s} : slots'[q] = slots[q]]_vars

=============================================================================
