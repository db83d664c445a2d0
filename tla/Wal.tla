-------------------------------- MODULE Wal --------------------------------
(***************************************************************************)
(* The write-ahead log of src/storage/wal.cpp (src/unnamed/part_005), as   *)
(* operators on the log file: what append adds, what read_from yields and  *)
(* what read_header makes of current_lsn_ when the file is reopened.       *)
(*                                                                         *)
(* The file after its 24-byte header is a sequence of entries.  An entry   *)
(* is a whole record [lsn, type, page, slot, val], or the torn remains of  *)
(* a record whose write a crash cut short: [type |-> "TORN", lsn |-> n]    *)
(* when its 32-byte header reached the file (so its lsn is readable) and   *)
(* lsn |-> 0 when not even the header did.  The CRC is not modelled        *)
(* bit by bit: a torn or corrupted record fails its length, short-read or  *)
(* CRC check, and a reader that meets one stops there.                     *)
(***************************************************************************)
EXTENDS Integers, Sequences

CONSTANTS MaxLsn   \* the largest LSN the model hands out

ASSUME WalAssumption == MaxLsn \in Nat \ {0}

RecordTypes == {"INSERT", "UPDATE", "DELETE", "CHECKPOINT"}
IsTorn(e) == e.type = "TORN"

\* Wal::append: the record, stamped with current_lsn_, at the end of the file.
AppendOn(file, lsn, rec) == Append(file, [rec EXCEPT !.lsn = lsn])

\* A write cut short by a crash leaves the torn remains of the record.
TornOn(file, lsn, headerWritten) ==
  Append(file, [type |-> "TORN", lsn |-> IF headerWritten THEN lsn ELSE 0])

(* The entries read_from can get through: it stops at the first entry that *)
(* fails the length, short-read or CRC check.                               *)
ReadableLen(file) ==
  IF \E i \in 1 .. Len(file) : IsTorn(file[i])
  THEN (CHOOSE i \in 1 .. Len(file) :
          IsTorn(file[i]) /\ \A j \in 1 .. i - 1 : ~IsTorn(file[j])) - 1
  ELSE Len(file)

Readable(file) == SubSeq(file, 1, ReadableLen(file))

\* read_from(start_lsn): the readable records with lsn >= start_lsn.
ReadFrom(file, start) == SelectSeq(Readable(file), LAMBDA e : e.lsn >= start)

(* Mutants of read_header: current_lsn_ starting at 0 instead of 1, and   *)
(* current_lsn_ = rec_header.lsn without the + 1.                          *)
ReadHeaderLsnsFromZero(file) ==
  LET n    == ReadableLen(file)
      last == IF n = 0 THEN 0 ELSE file[n].lsn + 1
  IN  IF n = Len(file) THEN {last}
      ELSE IF n + 1 = Len(file)
           THEN {IF file[n + 1].lsn # 0 THEN file[n + 1].lsn + 1 ELSE last}
           ELSE 1 .. MaxLsn + 1

ReadHeaderLsnsNoIncrement(file) ==
  LET n    == ReadableLen(file)
      last == IF n = 0 THEN 1 ELSE file[n].lsn
  IN  IF n = Len(file) THEN {last}
      ELSE IF n + 1 = Len(file)
           THEN {IF file[n + 1].lsn # 0 THEN file[n + 1].lsn ELSE last}
           ELSE 1 .. MaxLsn + 1

(* read_header: current_lsn_ starts at 1 and becomes lsn + 1 for every     *)
(* record header the scan can read, skipping each payload by its length.  *)
(* A torn entry that is last ends the scan (a header read falls short) or  *)
(* contributes its lsn (header there, payload short).  A torn entry with   *)
(* entries after it sends the scan off by the torn length: the headers it *)
(* reads next are bytes of other records, so current_lsn_ ends up at any  *)
(* value.  The result is the set of values current_lsn_ may end up with.   *)
ReadHeaderLsns(file) ==
  LET n    == ReadableLen(file)
      last == IF n = 0 THEN 1 ELSE file[n].lsn + 1
  IN  IF n = Len(file) THEN {last}
      ELSE IF n + 1 = Len(file)
           THEN {IF file[n + 1].lsn # 0 THEN file[n + 1].lsn + 1 ELSE last}
           ELSE 1 .. MaxLsn + 1
=============================================================================
