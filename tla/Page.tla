-------------------------------- MODULE Page --------------------------------
(***************************************************************************)
(* The slotted page of src/storage/page.hpp and the Page member functions  *)
(* in src/storage/page_manager.cpp (init, get_slot, get_record,            *)
(* insert_record, delete_record, update_record).                           *)
(*                                                                         *)
(* The header fields slot_count, free_space and data_start and the slot    *)
(* entries' offset and length are uint16_t, and insert_record computes     *)
(* length + sizeof(SlotEntry) and data_start - length in uint16_t.  The    *)
(* model keeps that arithmetic modulo Word.  To make the wrap-around       *)
(* reachable on a small page the sizes are constants: the code has        *)
(* Word = 2^16, PageSize = 8192, HeaderSize = 24, SlotSize = 4.            *)
(*                                                                         *)
(* The record bytes themselves are left out: where they go is kept         *)
(* exactly (offset and length), which is what the layout properties are    *)
(* about.  The DIRTY flag is set by every mutation and read by nothing in  *)
(* the page, and is left out too.                                          *)
(***************************************************************************)
EXTENDS Integers, Sequences

CONSTANTS
  Word,        \* 2^16: the range of uint16_t
  PageSize,    \* PAGE_SIZE
  HeaderSize,  \* sizeof(PageHeader)
  SlotSize,    \* sizeof(SlotEntry)
  Lens         \* the record lengths callers pass

ASSUME PageAssumption ==
  /\ Word \in Nat /\ PageSize \in Nat /\ HeaderSize \in Nat
  /\ SlotSize \in Nat \ {0}
  /\ HeaderSize + SlotSize <= PageSize /\ PageSize < Word
  /\ Lens \subseteq 1 .. (Word - 1)

VARIABLES
  slots,        \* the slot directory: Seq([offset, length]); slot_count = Len
  free_space,   \* header().free_space
  data_start    \* header().data_start

pageVars == <<slots, free_space, data_start>>

U16 == 0 .. (Word - 1)
Wrap(n) == n % Word                       \* uint16_t arithmetic
DELETED == Word - 1                        \* SlotEntry::mark_deleted: 0xFFFF

\* slot_directory_end()
SlotDirEnd == Wrap(HeaderSize + Len(slots) * SlotSize)

\* get_slot(i) /= nullptr, and get_record(i) succeeds
HasSlot(i) == i \in 1 .. Len(slots)
IsEmpty(s) == s.offset = 0 /\ s.length = 0
IsDeleted(s) == s.offset = DELETED
Live(i) == HasSlot(i) /\ ~IsEmpty(slots[i]) /\ ~IsDeleted(slots[i])

-----------------------------------------------------------------------------
\* Page::init: an empty page.
Init ==
  /\ slots = << >>
  /\ free_space = PageSize - HeaderSize
  /\ data_start = PageSize

(* Mutants: the record placed one byte too high; free_space charged for  *)
(* the record but not for its slot entry.                                 *)
insert_recordOffByOne(len) ==
  LET record_offset == Wrap(data_start - len + 1)
  IN  /\ free_space >= Wrap(len + SlotSize)
      /\ record_offset >= Wrap(SlotDirEnd + SlotSize)
      /\ slots' = Append(slots, [offset |-> record_offset, length |-> len])
      /\ data_start' = record_offset
      /\ free_space' = Wrap(free_space - Wrap(len + SlotSize))

insert_recordNoSlotCharge(len) ==
  LET record_offset == Wrap(data_start - len)
  IN  /\ free_space >= Wrap(len + SlotSize)
      /\ record_offset >= Wrap(SlotDirEnd + SlotSize)
      /\ slots' = Append(slots, [offset |-> record_offset, length |-> len])
      /\ data_start' = record_offset
      /\ free_space' = Wrap(free_space - len)

(* insert_record: fail if free_space < length + 4 (uint16_t) or if the new *)
(* record's offset data_start - length (uint16_t) falls below the extended *)
(* slot directory; else place the record below data_start and append a     *)
(* slot.                                                                    *)
insert_record(len) ==
  LET required_space == Wrap(len + SlotSize)
      record_offset  == Wrap(data_start - len)
      slot_dir_end   == Wrap(SlotDirEnd + SlotSize)
  IN  /\ free_space >= required_space
      /\ record_offset >= slot_dir_end
      /\ slots' = Append(slots, [offset |-> record_offset, length |-> len])
      /\ data_start' = record_offset
      /\ free_space' = Wrap(free_space - required_space)

\* delete_record: mark_deleted sets offset 0xFFFF and length 0; the space
\* is not reclaimed.
delete_record(i) ==
  /\ Live(i)
  /\ slots' = [slots EXCEPT ![i] = [offset |-> DELETED, length |-> 0]]
  /\ UNCHANGED <<free_space, data_start>>

\* update_record: in place, only if the new data fits; the slot shrinks.
update_record(i, len) ==
  /\ Live(i)
  /\ len <= slots[i].length
  /\ slots' = [slots EXCEPT ![i].length = len]
  /\ UNCHANGED <<free_space, data_start>>

Next ==
  \/ \E len \in Lens : insert_record(len)
  \/ \E i \in 1 .. Len(slots) : delete_record(i)
  \/ \E i \in 1 .. Len(slots), len \in Lens : update_record(i, len)

Spec == Init /\ [][Next]_pageVars

-----------------------------------------------------------------------------
LiveSlots == {i \in 1 .. Len(slots) : Live(i)}

(* The page's layout is sound (spec 4.4: "record region and directory do   *)
(* not overlap"): every live record lies inside the page, above the slot   *)
(* directory and at or above data_start, and no two live records share a   *)
(* byte.  insert_record's capacity checks are what keep it.                 *)
RecordsInPage ==
  \A i \in LiveSlots :
    /\ HeaderSize + Len(slots) * SlotSize <= slots[i].offset
    /\ data_start <= slots[i].offset
    /\ slots[i].offset + slots[i].length <= PageSize
    /\ \A j \in LiveSlots :
         i # j => \/ slots[i].offset + slots[i].length <= slots[j].offset
                  \/ slots[j].offset + slots[j].length <= slots[i].offset

(* free_space is the algebraic gap between the slot directory and the      *)
(* record region (spec 3: "free_space equals the algebraic gap").           *)
FreeSpaceIsGap ==
  free_space = data_start - (HeaderSize + Len(slots) * SlotSize)

=============================================================================
