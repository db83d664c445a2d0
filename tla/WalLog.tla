------------------------------- MODULE WalLog -------------------------------
(***************************************************************************)
(* The WAL on its own across crashes and restarts.  A writer appends       *)
(* records with append() followed by sync() (spec 4.7: "append + fsync"),  *)
(* CheckpointManager::checkpoint appends a CHECKPOINT record the same way, *)
(* the process may crash between calls or while append's write is under   *)
(* way, and a restart constructs a new Wal and opens it.                   *)
(*                                                                         *)
(* The crash is a process crash: what sync() flushed to the operating      *)
(* system survives.  Wal::sync flushes the fstream and does not fsync, so  *)
(* nothing survives a power loss; that is not modelled.                    *)
(***************************************************************************)
EXTENDS Wal

CONSTANTS
  MaxTears,     \* how many appends a crash may cut short in a behaviour
  MaxEntries    \* how many entries the file may grow to

ASSUME WalLogAssumption == MaxTears \in Nat /\ MaxEntries \in Nat

VARIABLES
  wal_file,     \* the entries in the file
  current_lsn,  \* Wal::current_lsn_ of the running process
  up,           \* whether the process is running
  acked,        \* ghost: the LSNs append returned, whose sync also returned
  tears         \* appends cut short so far

walVars == <<wal_file, current_lsn, up, acked, tears>>

Rec(type) == [lsn |-> 0, type |-> type, page |-> 0, slot |-> 0, val |-> 0]

-----------------------------------------------------------------------------
\* The first open creates the file and writes its header (first_lsn = 1).
Init ==
  /\ wal_file = << >>
  /\ current_lsn = 1
  /\ up = TRUE
  /\ acked = {}
  /\ tears = 0

(* append + sync of a data record, or of the CHECKPOINT record that        *)
(* Wal::checkpoint builds; append returns current_lsn_++.                  *)
AppendSync(type) ==
  /\ up
  /\ current_lsn <= MaxLsn /\ Len(wal_file) < MaxEntries
  /\ wal_file' = AppendOn(wal_file, current_lsn, Rec(type))
  /\ current_lsn' = current_lsn + 1
  /\ acked' = acked \cup {current_lsn}
  /\ UNCHANGED <<up, tears>>

(* The process dies between two calls: the running process's memory is    *)
(* gone, the file stays.                                                    *)
Crash ==
  /\ up
  /\ up' = FALSE
  /\ UNCHANGED <<wal_file, current_lsn, acked, tears>>

(* The process dies inside append, while the stream's buffer is being      *)
(* written out: part of the record reaches the file.                       *)
CrashInAppend ==
  /\ up
  /\ tears < MaxTears
  /\ current_lsn <= MaxLsn /\ Len(wal_file) < MaxEntries
  /\ \E headerWritten \in BOOLEAN :
       wal_file' = TornOn(wal_file, current_lsn, headerWritten)
  /\ up' = FALSE
  /\ tears' = tears + 1
  /\ UNCHANGED <<current_lsn, acked>>

(* Restart: Wal::open finds the file, read_header validates the file       *)
(* header and recomputes current_lsn_, and the write position is the end   *)
(* of the file.                                                             *)
open ==
  /\ ~up
  /\ \E lsn \in ReadHeaderLsns(wal_file) : current_lsn' = lsn
  /\ up' = TRUE
  /\ UNCHANGED <<wal_file, acked, tears>>

Next ==
  \/ \E type \in {"INSERT", "CHECKPOINT"} : AppendSync(type)
  \/ Crash
  \/ CrashInAppend
  \/ open

Spec == Init /\ [][Next]_walVars

-----------------------------------------------------------------------------
(* Every entry is a record or torn remains, and current_lsn_ is a          *)
(* positive LSN.                                                            *)
TypeOK ==
  /\ \A i \in 1 .. Len(wal_file) :
       wal_file[i].type \in RecordTypes \cup {"TORN"}
  /\ current_lsn \in 1 .. MaxLsn + 1
  /\ acked \subseteq 1 .. MaxLsn

(* LSN monotonicity (spec 5 and 8.5): the records a reader sees carry      *)
(* strictly increasing LSNs, across any number of restarts, each of which  *)
(* recomputes current_lsn_ from the file.                                   *)
ReadableLsnsIncrease ==
  LET r == Readable(wal_file)
  IN  \A i \in 1 .. Len(r) - 1 : r[i].lsn < r[i + 1].lsn

(* Durability of the log (spec 4.7): a record whose append and sync have   *)
(* returned is found by read_from(1), which is what recovery reads.        *)
AckedReadable ==
  \A l \in acked : \E i \in 1 .. Len(Readable(wal_file)) :
                      Readable(wal_file)[i].lsn = l
=============================================================================
