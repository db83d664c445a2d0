----------------------------- MODULE PageProofs -----------------------------
(***************************************************************************)
(* Proofs, for every page geometry that PageAssumption allows, that the   *)
(* slotted page of src/storage/page.hpp keeps its layout sound             *)
(* (RecordsInPage) and its free_space equal to the gap between slot        *)
(* directory and record region (FreeSpaceIsGap), as long as no caller      *)
(* passes a length within sizeof(SlotEntry) of 2^16 (NoWrap).  NoWrap     *)
(* holds for every length the code can pass: the only caller, apply_insert *)
(* (page_manager.cpp:616), passes a WAL payload, and read_from caps a      *)
(* record at 64 KiB with a 32-byte header, so a payload is at most 65504.  *)
(*                                                                         *)
(* RecordsInPage is not inductive: insert_record's guard reads free_space  *)
(* and data_start, not the slots, so the step needs FreeSpaceIsGap and     *)
(* that data_start lies below every live record; and disjointness of the  *)
(* new record from the others needs that records were placed in           *)
(* descending order (Ordered), each one below the one before.              *)
(***************************************************************************)
EXTENDS Page, TLAPS

\* Every step below reasons about the page geometry.
USE PageAssumption

\* No length passed to insert_record or update_record wraps length + 4.
NoWrap == Lens \subseteq 1 .. (Word - SlotSize - 1)

\* A slot directory entry: two uint16_t fields.
SlotEntry == [offset : U16, length : U16]

PageTypeOK ==
  /\ slots \in Seq(SlotEntry)
  /\ free_space \in U16
  /\ data_start \in U16

\* slot_directory_end() without the uint16_t truncation.
DirEnd == HeaderSize + Len(slots) * SlotSize

\* get_record succeeds on a slot holding entry e.
LiveEntry(e) == ~IsEmpty(e) /\ ~IsDeleted(e)

\* Every live record lies between data_start and the end of the page.
InPage ==
  \A i \in LiveSlots : /\ data_start <= slots[i].offset
                       /\ slots[i].offset + slots[i].length <= PageSize

\* Live records lie in slot order from the top of the page downwards.
Ordered ==
  \A i, j \in LiveSlots :
    i < j => slots[j].offset + slots[j].length <= slots[i].offset

IInv ==
  /\ PageTypeOK
  /\ FreeSpaceIsGap
  /\ DirEnd <= data_start
  /\ data_start <= PageSize
  /\ InPage
  /\ Ordered

-----------------------------------------------------------------------------
(* Arithmetic and record facts the steps keep needing.                     *)

\* uint16_t arithmetic is the identity on values that fit.
LEMMA WrapId ==
  ASSUME NEW n \in 0 .. (Word - 1)
  PROVE  Wrap(n) = n
BY DEF Wrap

\* The slot directory's end grows by one entry when a slot is appended.
LEMMA DirEndAppend ==
  ASSUME NEW k \in Nat
  PROVE  HeaderSize + (k + 1) * SlotSize = HeaderSize + k * SlotSize + SlotSize
OBVIOUS

LEMMA DirEndNat ==
  ASSUME NEW k \in Nat
  PROVE  HeaderSize + k * SlotSize \in Nat
OBVIOUS

LEMMA SlotFields ==
  ASSUME NEW e \in SlotEntry
  PROVE  e.offset \in U16 /\ e.length \in U16
BY DEF SlotEntry

LEMMA MakeSlot ==
  ASSUME NEW a \in U16, NEW b \in U16
  PROVE  [offset |-> a, length |-> b] \in SlotEntry
BY DEF SlotEntry

LEMMA ShrinkSlot ==
  ASSUME NEW e \in SlotEntry, NEW b \in U16
  PROVE  [e EXCEPT !.length = b] = [offset |-> e.offset, length |-> b]
BY DEF SlotEntry

\* Replacing one entry of the directory keeps its length and the others.
LEMMA SetSlot ==
  ASSUME NEW s \in Seq(SlotEntry), NEW i \in 1 .. Len(s), NEW e \in SlotEntry
  PROVE  /\ [s EXCEPT ![i] = e] \in Seq(SlotEntry)
         /\ Len([s EXCEPT ![i] = e]) = Len(s)
         /\ [s EXCEPT ![i] = e][i] = e
         /\ \A k \in 1 .. Len(s) : k # i => [s EXCEPT ![i] = e][k] = s[k]
OBVIOUS

LEMMA LiveSlotsIs ==
  LiveSlots = {k \in 1 .. Len(slots) : LiveEntry(slots[k])}
BY DEF LiveSlots, Live, HasSlot, LiveEntry

\* An empty page: no slots, the whole area below the header is free.
THEOREM InitIInv == Init => IInv
<1> SUFFICES ASSUME Init PROVE IInv
  OBVIOUS
<1>1. LiveSlots = {}
  BY DEF Init, LiveSlots
<1>2. DirEnd = HeaderSize
  BY DEF Init, DirEnd
<1>3. PageTypeOK /\ FreeSpaceIsGap
  BY <1>2 DEF Init, PageTypeOK, FreeSpaceIsGap, U16, DirEnd
<1>. QED
  BY <1>1, <1>2, <1>3 DEF Init, IInv, InPage, Ordered
-----------------------------------------------------------------------------
(* insert_record: with NoWrap, length + 4 does not wrap; the guard         *)
(* free_space >= length + 4 and FreeSpaceIsGap then keep data_start -      *)
(* length above the directory, so no uint16_t value wraps and the new      *)
(* record goes just below data_start, under every live record.             *)
LEMMA InsertIInv ==
  ASSUME IInv, NoWrap, NEW len \in Lens, insert_record(len)
  PROVE  IInv'
<1> DEFINE L == Len(slots)
           D == data_start
           rec == [offset |-> D - len, length |-> len]
<1>1. /\ slots \in Seq(SlotEntry)
      /\ L \in Nat
      /\ D \in 0 .. PageSize
      /\ len \in 1 .. (Word - SlotSize - 1)
      /\ DirEnd \in Nat
      /\ DirEnd <= D
      /\ free_space = D - DirEnd
  <2>1. PageTypeOK /\ FreeSpaceIsGap /\ DirEnd <= D /\ D <= PageSize
    BY DEF IInv
  <2>2. len \in 1 .. (Word - SlotSize - 1)
    BY DEF NoWrap
  <2>. QED
    BY <2>1, <2>2, DirEndNat DEF PageTypeOK, FreeSpaceIsGap, DirEnd, U16
<1>2. Wrap(len + SlotSize) = len + SlotSize
  BY <1>1, WrapId
<1>3. free_space >= len + SlotSize
  BY <1>2 DEF insert_record
<1>4. D - len >= DirEnd + SlotSize
  BY <1>1, <1>3
<1>5. /\ Wrap(D - len) = D - len
      /\ SlotDirEnd = DirEnd
      /\ Wrap(SlotDirEnd + SlotSize) = DirEnd + SlotSize
      /\ Wrap(free_space - (len + SlotSize)) = free_space - (len + SlotSize)
  BY <1>1, <1>4, WrapId DEF SlotDirEnd, DirEnd
<1>6. /\ slots' = Append(slots, rec)
      /\ data_start' = D - len
      /\ free_space' = free_space - (len + SlotSize)
  BY <1>2, <1>5 DEF insert_record
<1>7. rec \in SlotEntry /\ rec.offset = D - len /\ rec.length = len
  BY <1>1, <1>4, MakeSlot DEF U16
<1>8. /\ slots' \in Seq(SlotEntry)
      /\ Len(slots') = L + 1
      /\ \A i \in 1 .. L : slots'[i] = slots[i]
      /\ slots'[L + 1] = rec
  BY <1>1, <1>6, <1>7
<1>9. DirEnd' = DirEnd + SlotSize
  BY <1>1, <1>8, DirEndAppend DEF DirEnd
<1>10. LiveSlots' = LiveSlots \cup {L + 1}
  <2>1. LiveSlots' = {k \in 1 .. Len(slots') : LiveEntry(slots'[k])}
    BY DEF LiveSlots, Live, HasSlot, LiveEntry
  <2>2. LiveEntry(rec)
    BY <1>1, <1>7 DEF LiveEntry, IsEmpty, IsDeleted, DELETED
  <2>. QED
    BY <1>1, <1>8, <2>1, <2>2, LiveSlotsIs
<1>11. PageTypeOK'
  BY <1>1, <1>4, <1>6, <1>8 DEF PageTypeOK, U16
<1>12. FreeSpaceIsGap'
  <2>1. FreeSpaceIsGap' = (free_space' = data_start' - DirEnd')
    BY DEF FreeSpaceIsGap, DirEnd
  <2>2. free_space' = data_start' - DirEnd'
    BY <1>1, <1>6, <1>9
  <2>. QED
    BY <2>1, <2>2
<1>13. InPage'
  <2> SUFFICES ASSUME NEW k \in LiveSlots'
               PROVE  /\ data_start' <= slots'[k].offset
                      /\ slots'[k].offset + slots'[k].length <= PageSize
    BY DEF InPage
  <2>1. CASE k = L + 1
    BY <2>1, <1>1, <1>6, <1>7, <1>8
  <2>2. CASE k \in LiveSlots
    <3>1. k \in 1 .. L /\ slots'[k] = slots[k]
      BY <2>2, <1>8 DEF LiveSlots
    <3>2. slots[k].offset \in U16 /\ slots[k].length \in U16
      BY <3>1, <1>1, SlotFields
    <3>3. InPage
      BY DEF IInv
    <3>4. data_start <= slots[k].offset
          /\ slots[k].offset + slots[k].length <= PageSize
      BY <2>2, <3>3 DEF InPage
    <3>. QED
      BY <3>1, <3>2, <3>4, <1>1, <1>6 DEF U16
  <2>. QED
    BY <2>1, <2>2, <1>10
<1>14. Ordered'
  <2> SUFFICES ASSUME NEW i \in LiveSlots', NEW j \in LiveSlots', i < j
               PROVE  slots'[j].offset + slots'[j].length <= slots'[i].offset
    BY DEF Ordered
  <2>1. i \in LiveSlots /\ i \in 1 .. L /\ slots'[i] = slots[i]
    BY <1>1, <1>8, <1>10 DEF LiveSlots
  <2>2. InPage /\ Ordered
    BY DEF IInv
  <2>3. slots[i].offset \in U16 /\ slots[i].length \in U16
    BY <2>1, <1>1, SlotFields
  <2>4. CASE j = L + 1
    <3>1. data_start <= slots[i].offset
      BY <2>1, <2>2 DEF InPage
    <3>. QED
      BY <2>1, <2>3, <2>4, <3>1, <1>1, <1>7, <1>8 DEF U16
  <2>5. CASE j \in LiveSlots
    <3>1. j \in 1 .. L /\ slots'[j] = slots[j]
      BY <2>5, <1>8 DEF LiveSlots
    <3>. QED
      BY <2>1, <2>2, <2>5, <3>1 DEF Ordered
  <2>. QED
    BY <2>4, <2>5, <1>10
<1>15. DirEnd' <= data_start' /\ data_start' <= PageSize
  BY <1>1, <1>4, <1>6, <1>9
<1>. QED
  BY <1>11, <1>12, <1>13, <1>14, <1>15 DEF IInv

(* delete_record turns a live slot into a deleted one and moves no bytes:  *)
(* the live records are the old ones minus that slot.                      *)
LEMMA DeleteIInv ==
  ASSUME IInv, NEW i \in 1 .. Len(slots), delete_record(i)
  PROVE  IInv'
<1> DEFINE del == [offset |-> DELETED, length |-> 0]
<1>1. /\ PageTypeOK /\ FreeSpaceIsGap /\ DirEnd <= data_start
      /\ data_start <= PageSize /\ InPage /\ Ordered
  BY DEF IInv
<1>2. del \in SlotEntry /\ ~LiveEntry(del)
  BY MakeSlot DEF DELETED, U16, LiveEntry, IsDeleted
<1>3. /\ slots' = [slots EXCEPT ![i] = del]
      /\ UNCHANGED <<free_space, data_start>>
  BY DEF delete_record
<1>4. /\ slots' \in Seq(SlotEntry)
      /\ Len(slots') = Len(slots)
      /\ slots'[i] = del
      /\ \A k \in 1 .. Len(slots) : k # i => slots'[k] = slots[k]
  BY <1>1, <1>2, <1>3, SetSlot DEF PageTypeOK
<1>5. LiveSlots' = LiveSlots \ {i}
  <2>1. LiveSlots' = {k \in 1 .. Len(slots') : LiveEntry(slots'[k])}
    BY DEF LiveSlots, Live, HasSlot, LiveEntry
  <2>. QED
    BY <1>2, <1>4, <2>1, LiveSlotsIs
<1>6. (PageTypeOK /\ FreeSpaceIsGap /\ DirEnd <= data_start
       /\ data_start <= PageSize)'
  BY <1>1, <1>3, <1>4 DEF PageTypeOK, FreeSpaceIsGap, DirEnd
<1>7. \A k \in LiveSlots' : k \in LiveSlots /\ slots'[k] = slots[k]
  BY <1>4, <1>5 DEF LiveSlots
<1>8. InPage' /\ Ordered'
  BY <1>1, <1>3, <1>7 DEF InPage, Ordered
<1>. QED
  BY <1>6, <1>8 DEF IInv

(* update_record shrinks a live record in place: its start stays, its end  *)
(* moves down, so it stays inside its old extent.                          *)
LEMMA UpdateIInv ==
  ASSUME IInv, NEW i \in 1 .. Len(slots), NEW len \in Lens,
         update_record(i, len)
  PROVE  IInv'
<1> DEFINE e == [offset |-> slots[i].offset, length |-> len]
<1>1. /\ PageTypeOK /\ FreeSpaceIsGap /\ DirEnd <= data_start
      /\ data_start <= PageSize /\ InPage /\ Ordered
  BY DEF IInv
<1>2. /\ slots[i] \in SlotEntry
      /\ slots[i].offset \in U16 /\ slots[i].length \in U16
      /\ len \in U16 /\ len >= 1
  BY <1>1, SlotFields DEF PageTypeOK, U16
<1>3. /\ slots' = [slots EXCEPT ![i] = e]
      /\ UNCHANGED <<free_space, data_start>>
      /\ i \in LiveSlots
      /\ len <= slots[i].length
  BY <1>2, ShrinkSlot DEF update_record, LiveSlots
<1>4. e \in SlotEntry /\ LiveEntry(e)
  <2>1. LiveEntry(slots[i])
    BY <1>3, LiveSlotsIs
  <2>. QED
    BY <1>2, <2>1, MakeSlot DEF LiveEntry, IsEmpty, IsDeleted
<1>5. /\ slots' \in Seq(SlotEntry)
      /\ Len(slots') = Len(slots)
      /\ slots'[i] = e
      /\ \A k \in 1 .. Len(slots) : k # i => slots'[k] = slots[k]
  BY <1>1, <1>3, <1>4, SetSlot DEF PageTypeOK
<1>6. LiveSlots' = LiveSlots
  <2>1. LiveSlots' = {k \in 1 .. Len(slots') : LiveEntry(slots'[k])}
    BY DEF LiveSlots, Live, HasSlot, LiveEntry
  <2>. QED
    BY <1>3, <1>4, <1>5, <2>1, LiveSlotsIs
<1>7. (PageTypeOK /\ FreeSpaceIsGap /\ DirEnd <= data_start
       /\ data_start <= PageSize)'
  BY <1>1, <1>3, <1>5 DEF PageTypeOK, FreeSpaceIsGap, DirEnd
<1>8. \A k \in LiveSlots :
        /\ slots[k].offset \in U16 /\ slots[k].length \in U16
        /\ slots'[k].offset = slots[k].offset
        /\ slots'[k].length \in U16
        /\ slots'[k].length <= slots[k].length
  <2> SUFFICES ASSUME NEW k \in LiveSlots
               PROVE  /\ slots[k].offset \in U16 /\ slots[k].length \in U16
                      /\ slots'[k].offset = slots[k].offset
                      /\ slots'[k].length \in U16
                      /\ slots'[k].length <= slots[k].length
    OBVIOUS
  <2>1. k \in 1 .. Len(slots)
    BY DEF LiveSlots
  <2>2. slots[k].offset \in U16 /\ slots[k].length \in U16
    BY <1>1, <2>1, SlotFields DEF PageTypeOK
  <2>3. CASE k = i
    <3>1. slots'[k] = e
      BY <1>5, <2>3
    <3>. QED
      BY <1>2, <1>3, <2>2, <2>3, <3>1
  <2>4. CASE k # i
    <3>1. slots'[k] = slots[k]
      BY <1>5, <2>1, <2>4
    <3>. QED
      BY <2>2, <3>1 DEF U16
  <2>. QED
    BY <2>3, <2>4
<1>9. InPage'
  <2>1. SUFFICES ASSUME NEW k \in LiveSlots
                 PROVE  /\ data_start' <= slots'[k].offset
                        /\ slots'[k].offset + slots'[k].length <= PageSize
    BY <1>6 DEF InPage
  <2>2. /\ data_start <= slots[k].offset
        /\ slots[k].offset + slots[k].length <= PageSize
    BY <1>1 DEF InPage
  <2>3. /\ slots[k].offset \in U16 /\ slots[k].length \in U16
        /\ slots'[k].offset = slots[k].offset
        /\ slots'[k].length \in U16
        /\ slots'[k].length <= slots[k].length
    BY <1>8
  <2>4. data_start' = data_start
    BY <1>3
  <2>5. /\ slots[k].offset \in Int /\ slots[k].length \in Int
        /\ slots'[k].length \in Int /\ PageSize \in Int
    BY <2>3, PageAssumption DEF U16
  <2>. QED
    BY <2>2, <2>3, <2>4, <2>5
<1>10. Ordered'
  <2>1. SUFFICES ASSUME NEW a \in LiveSlots, NEW b \in LiveSlots, a < b
                 PROVE  slots'[b].offset + slots'[b].length <= slots'[a].offset
    BY <1>6 DEF Ordered
  <2>2. slots[b].offset + slots[b].length <= slots[a].offset
    BY <1>1, <2>1 DEF Ordered
  <2>3. /\ slots[a].offset \in U16 /\ slots[b].offset \in U16
        /\ slots[b].length \in U16 /\ slots'[b].length \in U16
        /\ slots'[a].offset = slots[a].offset
        /\ slots'[b].offset = slots[b].offset
        /\ slots'[b].length <= slots[b].length
    BY <1>8
  <2>4. /\ slots[a].offset \in Int /\ slots[b].offset \in Int
        /\ slots[b].length \in Int /\ slots'[b].length \in Int
    BY <2>3 DEF U16
  <2>5. \A ao, bo, bl, nl \in Int : bo + bl <= ao /\ nl <= bl => bo + nl <= ao
    OBVIOUS
  <2>. QED
    BY <2>2, <2>3, <2>4, <2>5, Zenon
<1>. QED
  BY <1>7, <1>9, <1>10 DEF IInv
-----------------------------------------------------------------------------
\* IInv is inductive when no length wraps.
THEOREM NextIInv ==
  ASSUME NoWrap
  PROVE  IInv /\ [Next]_pageVars => IInv'
<1> SUFFICES ASSUME IInv, [Next]_pageVars PROVE IInv'
  OBVIOUS
<1>1. CASE UNCHANGED pageVars
  BY <1>1 DEF pageVars, IInv, PageTypeOK, FreeSpaceIsGap, DirEnd, InPage,
              Ordered, LiveSlots, Live, HasSlot, IsEmpty, IsDeleted
<1>2. ASSUME NEW len \in Lens, insert_record(len) PROVE IInv'
  BY <1>2, InsertIInv
<1>3. ASSUME NEW i \in 1 .. Len(slots), delete_record(i) PROVE IInv'
  BY <1>3, DeleteIInv
<1>4. ASSUME NEW i \in 1 .. Len(slots), NEW len \in Lens,
             update_record(i, len)
      PROVE IInv'
  BY <1>4, UpdateIInv
<1>. QED
  BY <1>1, <1>2, <1>3, <1>4 DEF Next

\* IInv implies the layout property; Ordered gives disjointness.
LEMMA IInvRecordsInPage == IInv => RecordsInPage
<1> SUFFICES ASSUME IInv, NEW i \in LiveSlots PROVE
      /\ HeaderSize + Len(slots) * SlotSize <= slots[i].offset
      /\ data_start <= slots[i].offset
      /\ slots[i].offset + slots[i].length <= PageSize
      /\ \A j \in LiveSlots :
           i # j => \/ slots[i].offset + slots[i].length <= slots[j].offset
                    \/ slots[j].offset + slots[j].length <= slots[i].offset
  BY DEF RecordsInPage
<1>1. /\ PageTypeOK /\ DirEnd <= data_start /\ InPage /\ Ordered
  BY DEF IInv
<1>2. /\ DirEnd \in Nat
      /\ i \in 1 .. Len(slots)
      /\ slots[i].offset \in U16 /\ slots[i].length \in U16
  BY <1>1, DirEndNat, SlotFields DEF PageTypeOK, DirEnd, LiveSlots
<1>3. data_start <= slots[i].offset
      /\ slots[i].offset + slots[i].length <= PageSize
  BY <1>1 DEF InPage
<1>4. ASSUME NEW j \in LiveSlots, i # j
      PROVE  \/ slots[i].offset + slots[i].length <= slots[j].offset
             \/ slots[j].offset + slots[j].length <= slots[i].offset
  <2>1. j \in 1 .. Len(slots)
    BY DEF LiveSlots
  <2>2. i < j \/ j < i
    BY <1>2, <1>4, <2>1
  <2>. QED
    BY <1>1, <2>2 DEF Ordered
<1>5. data_start \in U16
  BY <1>1 DEF PageTypeOK
<1>6. DirEnd <= slots[i].offset
  BY <1>1, <1>2, <1>3, <1>5 DEF U16
<1>. QED
  BY <1>3, <1>4, <1>6 DEF DirEnd

(* For every page geometry and every caller whose lengths leave room for a *)
(* slot entry below 2^16, insert_record, delete_record and update_record   *)
(* keep every live record inside the page, above the slot directory, and   *)
(* disjoint from every other live record (spec 4.4).                       *)
THEOREM RecordsInPageHolds ==
  ASSUME NoWrap
  PROVE  Spec => []RecordsInPage
<1>1. IInv /\ [Next]_pageVars => IInv'
  BY NextIInv
<1>. QED
  BY <1>1, InitIInv, IInvRecordsInPage, PTL DEF Spec

(* Under the same hypothesis free_space always equals data_start minus the *)
(* end of the slot directory: insert_record charges exactly length + 4,    *)
(* and delete and update move neither boundary.                            *)
THEOREM FreeSpaceIsGapHolds ==
  ASSUME NoWrap
  PROVE  Spec => []FreeSpaceIsGap
<1>1. IInv /\ [Next]_pageVars => IInv'
  BY NextIInv
<1>2. IInv => FreeSpaceIsGap
  BY DEF IInv
<1>. QED
  BY <1>1, <1>2, InitIInv, PTL DEF Spec
=============================================================================
