------------------------------ MODULE WalProofs ------------------------------
(***************************************************************************)
(* Proofs, for every MaxLsn, MaxTears and MaxEntries, that the WAL of     *)
(* src/storage/wal.cpp hands readers records with strictly increasing     *)
(* LSNs (ReadableLsnsIncrease) across any number of crashes, torn appends *)
(* and reopenings.                                                         *)
(*                                                                         *)
(* The invariant is not inductive: append stamps a record with            *)
(* current_lsn_, so the step needs that current_lsn_ exceeds every LSN    *)
(* already in the file (Fresh).  That holds only while the readable       *)
(* prefix is the whole file: after a torn entry with others behind it,    *)
(* read_header may set current_lsn_ to anything, but the records appended *)
(* then lie behind the torn entry, where no reader reaches them.          *)
(***************************************************************************)
EXTENDS WalLog, SequenceTheorems, WellFoundedInduction, TLAPS

\* Every step below reasons about LSNs up to MaxLsn.
USE WalAssumption

\* What the file can hold: whole records and the torn remains of one.
Entry ==
  [lsn : 0 .. MaxLsn, type : RecordTypes, page : {0}, slot : {0}, val : {0}]
    \cup [type : {"TORN"}, lsn : 0 .. MaxLsn]

WTypeOK ==
  /\ wal_file \in Seq(Entry)
  /\ current_lsn \in 1 .. MaxLsn + 1
  /\ up \in BOOLEAN
  /\ acked \subseteq 1 .. MaxLsn
  /\ tears \in Nat

\* Readable records, any two of them, are in increasing LSN order.
Increasing ==
  \A i, j \in 1 .. ReadableLen(wal_file) :
    i < j => wal_file[i].lsn < wal_file[j].lsn

\* While the process runs on a file with no torn entry, current_lsn_ is
\* above every LSN in the file.
Fresh ==
  up /\ ReadableLen(wal_file) = Len(wal_file) =>
    \A i \in 1 .. Len(wal_file) : wal_file[i].lsn < current_lsn

IInv == WTypeOK /\ Increasing /\ Fresh

-----------------------------------------------------------------------------
(* What read_from can get through.  ReadableLen picks the first torn      *)
(* entry with CHOOSE; the lemmas below say which index that is, and what  *)
(* an append does to it.                                                   *)

\* A file with a torn entry has a first one.
LEMMA LeastTorn ==
  ASSUME NEW f \in Seq(Entry), \E i \in 1 .. Len(f) : IsTorn(f[i])
  PROVE  \E i \in 1 .. Len(f) : IsTorn(f[i]) /\ \A j \in 1 .. i - 1 : ~IsTorn(f[j])
<1> DEFINE T == {i \in 1 .. Len(f) : IsTorn(f[i])}
<1>1. T \subseteq Nat /\ T # {}
  OBVIOUS
<1>2. PICK x \in T : \A y \in T : ~(<<y, x>> \in OpToRel(<, Nat))
  BY <1>1, WFMin, NatLessThanWellFounded, Zenon
<1>3. \A y \in T : ~(y < x)
  <2>1. SUFFICES ASSUME NEW y \in T, y < x PROVE FALSE
    OBVIOUS
  <2>2. <<y, x>> \in OpToRel(<, Nat)
    BY <2>1 DEF OpToRel
  <2>. QED
    BY <1>2, <2>2, Zenon
<1>. QED
  BY <1>3

\* n is the readable length when the first n entries are whole and the
\* next one, if any, is torn.
LEMMA RLUnique ==
  ASSUME NEW f \in Seq(Entry), NEW n \in 0 .. Len(f),
         \A j \in 1 .. n : ~IsTorn(f[j]),
         n < Len(f) => IsTorn(f[n + 1])
  PROVE  ReadableLen(f) = n
<1>1. CASE n = Len(f)
  <2>1. ~\E i \in 1 .. Len(f) : IsTorn(f[i])
    BY <1>1
  <2>. QED
    BY <1>1, <2>1 DEF ReadableLen
<1>2. CASE n < Len(f)
  <2>1. \E i \in 1 .. Len(f) : IsTorn(f[i])
    BY <1>2
  <2>2. \A i \in 1 .. Len(f) :
          (IsTorn(f[i]) /\ \A j \in 1 .. i - 1 : ~IsTorn(f[j])) <=> i = n + 1
    BY <1>2
  <2>3. (CHOOSE i \in 1 .. Len(f) :
           IsTorn(f[i]) /\ \A j \in 1 .. i - 1 : ~IsTorn(f[j])) = n + 1
    BY <1>2, <2>2
  <2>4. ReadableLen(f) = (CHOOSE i \in 1 .. Len(f) :
           IsTorn(f[i]) /\ \A j \in 1 .. i - 1 : ~IsTorn(f[j])) - 1
    BY <2>1, Zenon DEF ReadableLen
  <2>5. ASSUME NEW c, c = n + 1, ReadableLen(f) = c - 1
        PROVE  ReadableLen(f) = n
    BY <2>5
  <2>. QED
    BY <2>3, <2>4, <2>5, Zenon
<1>. QED
  BY <1>1, <1>2

\* The readable length: the entries before it are whole, the one after it
\* is torn.
LEMMA RLChar ==
  ASSUME NEW f \in Seq(Entry)
  PROVE  /\ ReadableLen(f) \in 0 .. Len(f)
         /\ \A j \in 1 .. ReadableLen(f) : ~IsTorn(f[j])
         /\ ReadableLen(f) < Len(f) => IsTorn(f[ReadableLen(f) + 1])
<1>1. CASE \E i \in 1 .. Len(f) : IsTorn(f[i])
  <2>1. PICK i \in 1 .. Len(f) :
          IsTorn(f[i]) /\ \A j \in 1 .. i - 1 : ~IsTorn(f[j])
    BY <1>1, LeastTorn
  <2>2. ReadableLen(f) = i - 1
    BY <2>1, RLUnique
  <2>. QED
    BY <2>1, <2>2
<1>2. CASE ~\E i \in 1 .. Len(f) : IsTorn(f[i])
  <2>1. ReadableLen(f) = Len(f)
    BY <1>2 DEF ReadableLen
  <2>. QED
    BY <1>2, <2>1
<1>. QED
  BY <1>1, <1>2

\* An append extends the readable prefix when that prefix is the whole
\* file and the new entry is whole; otherwise it leaves the prefix alone.
LEMMA RLAppend ==
  ASSUME NEW f \in Seq(Entry), NEW e \in Entry
  PROVE  ReadableLen(Append(f, e)) =
           IF ReadableLen(f) = Len(f) /\ ~IsTorn(e) THEN Len(f) + 1
                                                  ELSE ReadableLen(f)
<1> DEFINE g == Append(f, e)
           n == ReadableLen(f)
<1>1. /\ g \in Seq(Entry) /\ Len(g) = Len(f) + 1
      /\ \A i \in 1 .. Len(f) : g[i] = f[i]
      /\ g[Len(f) + 1] = e
  BY AppendProperties
<1>2. /\ n \in 0 .. Len(f)
      /\ \A j \in 1 .. n : ~IsTorn(f[j])
      /\ n < Len(f) => IsTorn(f[n + 1])
  BY RLChar
<1>3. CASE n = Len(f) /\ ~IsTorn(e)
  <2>1. \A j \in 1 .. Len(f) + 1 : ~IsTorn(g[j])
    BY <1>1, <1>2, <1>3
  <2>2. Len(f) + 1 \in 0 .. Len(g) /\ ~(Len(f) + 1 < Len(g))
    BY <1>1
  <2>. QED
    BY <1>1, <1>3, <2>1, <2>2, RLUnique, Zenon
<1>4. CASE ~(n = Len(f) /\ ~IsTorn(e))
  <2>1. \A j \in 1 .. n : ~IsTorn(g[j])
    BY <1>1, <1>2
  <2>2. n < Len(g) => IsTorn(g[n + 1])
    BY <1>1, <1>2, <1>4
  <2>3. n \in 0 .. Len(g)
    BY <1>1, <1>2
  <2>4. ReadableLen(g) = n
    BY <1>1, <2>1, <2>2, <2>3, RLUnique, Zenon
  <2>. QED
    BY <1>4, <2>4
<1>. QED
  BY <1>3, <1>4

\* Readable(f) is the first ReadableLen(f) entries of f.
LEMMA ReadableAt ==
  ASSUME NEW f \in Seq(Entry)
  PROVE  /\ Len(Readable(f)) = ReadableLen(f)
         /\ \A i \in 1 .. ReadableLen(f) : Readable(f)[i] = f[i]
<1>1. ReadableLen(f) \in 0 .. Len(f)
  BY RLChar
<1>2. \A i \in 1 .. ReadableLen(f) : f[i] \in Entry
  BY <1>1
<1>. QED
  BY <1>1, <1>2, SubSeqProperties DEF Readable

-----------------------------------------------------------------------------
(* The inductive invariant.                                                *)

\* Every entry's lsn is a number up to MaxLsn.
LEMMA EntryLsn ==
  ASSUME NEW f \in Seq(Entry), NEW i \in 1 .. Len(f)
  PROVE  f[i].lsn \in 0 .. MaxLsn
<1>1. f[i] \in Entry
  BY ElementOfSeq
<1>. QED
  BY <1>1 DEF Entry

\* What append writes: a whole record stamped with lsn.
LEMMA AppendedEntry ==
  ASSUME NEW type \in RecordTypes, NEW lsn \in 1 .. MaxLsn
  PROVE  /\ [Rec(type) EXCEPT !.lsn = lsn] \in Entry
         /\ ~IsTorn([Rec(type) EXCEPT !.lsn = lsn])
         /\ [Rec(type) EXCEPT !.lsn = lsn].lsn = lsn
<1>1. [Rec(type) EXCEPT !.lsn = lsn]
        = [lsn |-> lsn, type |-> type, page |-> 0, slot |-> 0, val |-> 0]
  BY DEF Rec
<1>2. [lsn |-> lsn, type |-> type, page |-> 0, slot |-> 0, val |-> 0]
        \in [lsn : 0 .. MaxLsn, type : RecordTypes,
             page : {0}, slot : {0}, val : {0}]
  OBVIOUS
<1>3. type # "TORN"
  BY DEF RecordTypes
<1>. QED
  BY <1>1, <1>2, <1>3 DEF Entry, IsTorn

\* What a crash inside append leaves: torn remains, with the record's lsn
\* if its header reached the file.
LEMMA TornEntry ==
  ASSUME NEW lsn \in 1 .. MaxLsn, NEW h \in BOOLEAN
  PROVE  /\ [type |-> "TORN", lsn |-> IF h THEN lsn ELSE 0] \in Entry
         /\ IsTorn([type |-> "TORN", lsn |-> IF h THEN lsn ELSE 0])
<1>1. (IF h THEN lsn ELSE 0) \in 0 .. MaxLsn
  <2>1. CASE h
    BY <2>1
  <2>2. CASE ~h
    BY <2>2
  <2>. QED
    BY <2>1, <2>2
<1>2. [type |-> "TORN", lsn |-> IF h THEN lsn ELSE 0]
        \in [type : {"TORN"}, lsn : 0 .. MaxLsn]
  BY <1>1
<1>. QED
  BY <1>2 DEF Entry, IsTorn

THEOREM InitIInv == Init => IInv
<1> SUFFICES ASSUME Init PROVE IInv
  OBVIOUS
<1>1. wal_file \in Seq(Entry) /\ Len(wal_file) = 0
  BY DEF Init
<1>2. ReadableLen(wal_file) = 0
  <2>1. 0 \in 0 .. Len(wal_file) /\ ~(0 < Len(wal_file)) /\ 1 .. 0 = {}
    BY <1>1
  <2>. QED
    BY <1>1, <2>1, RLUnique, Zenon
<1>3. WTypeOK
  <2>1. up \in BOOLEAN
    BY Zenon DEF Init
  <2>2. current_lsn \in 1 .. MaxLsn + 1 /\ acked \subseteq 1 .. MaxLsn
        /\ tears \in Nat
    BY WalAssumption DEF Init
  <2>. QED
    BY <1>1, <2>1, <2>2 DEF WTypeOK
<1>. QED
  BY <1>1, <1>2, <1>3 DEF IInv, Increasing, Fresh

(* append + sync: a whole record stamped with current_lsn_.  If the file   *)
(* is all readable, the record joins the readable prefix, above every LSN  *)
(* before it (Fresh); if not, it lies behind the torn entry.               *)
LEMMA AppendSyncIInv ==
  ASSUME IInv, NEW type \in {"INSERT", "CHECKPOINT"}, AppendSync(type)
  PROVE  IInv'
<1> DEFINE f == wal_file
           e == [Rec(type) EXCEPT !.lsn = current_lsn]
           n == ReadableLen(f)
<1>1. /\ f \in Seq(Entry) /\ current_lsn \in 1 .. MaxLsn /\ up = TRUE
      /\ acked \subseteq 1 .. MaxLsn /\ tears \in Nat
      /\ wal_file' = Append(f, e) /\ current_lsn' = current_lsn + 1
      /\ acked' = acked \cup {current_lsn} /\ up' = up /\ tears' = tears
  BY DEF IInv, WTypeOK, AppendSync, AppendOn
<1>2. e \in Entry /\ ~IsTorn(e) /\ e.lsn = current_lsn
  <2>1. type \in RecordTypes
    BY DEF RecordTypes
  <2>. QED
    BY <1>1, <2>1, AppendedEntry
<1>3. /\ wal_file' \in Seq(Entry) /\ Len(wal_file') = Len(f) + 1
      /\ \A i \in 1 .. Len(f) : wal_file'[i] = f[i]
      /\ wal_file'[Len(f) + 1] = e
  BY <1>1, <1>2, AppendProperties
<1>4. n \in 0 .. Len(f)
  BY <1>1, RLChar
<1>5. WTypeOK'
  <2>1. up' \in BOOLEAN
    BY <1>1, Zenon
  <2>2. /\ current_lsn' \in 1 .. MaxLsn + 1
        /\ acked' \subseteq 1 .. MaxLsn
        /\ tears' \in Nat
    BY <1>1
  <2>. QED
    BY <1>3, <2>1, <2>2 DEF WTypeOK
<1>6. CASE n = Len(f)
  <2>1. ReadableLen(wal_file') = Len(f) + 1
    BY <1>1, <1>2, <1>6, RLAppend
  <2>2. \A i \in 1 .. Len(f) : f[i].lsn < current_lsn
    BY <1>1, <1>6 DEF IInv, Fresh
  <2>3. Increasing'
    <3>1. SUFFICES ASSUME NEW i \in 1 .. Len(f) + 1, NEW j \in 1 .. Len(f) + 1,
                          i < j
                   PROVE  wal_file'[i].lsn < wal_file'[j].lsn
      BY <2>1 DEF Increasing
    <3>2. CASE j <= Len(f)
      BY <1>3, <1>6, <3>1, <3>2 DEF IInv, Increasing
    <3>3. CASE j = Len(f) + 1
      <4>1. wal_file'[j].lsn = current_lsn
        BY <1>2, <1>3, <3>3, Zenon
      <4>2. i \in 1 .. Len(f)
        BY <3>1, <3>3
      <4>3. wal_file'[i].lsn < current_lsn
        BY <1>3, <2>2, <4>2
      <4>. QED
        BY <4>1, <4>3
    <3>. QED
      BY <3>2, <3>3
  <2>4. Fresh'
    <3>1. \A i \in 1 .. Len(f) + 1 : wal_file'[i].lsn < current_lsn + 1
      <4>1. SUFFICES ASSUME NEW i \in 1 .. Len(f) + 1
                     PROVE  wal_file'[i].lsn < current_lsn + 1
        OBVIOUS
      <4>2. CASE i = Len(f) + 1
        <5>1. wal_file'[i].lsn = current_lsn
          BY <1>2, <1>3, <4>2, Zenon
        <5>. QED
          BY <1>1, <5>1
      <4>3. CASE i \in 1 .. Len(f)
        <5>1. wal_file'[i].lsn = f[i].lsn
          BY <1>3, <4>3, Zenon
        <5>2. f[i].lsn \in Nat /\ f[i].lsn < current_lsn
          BY <1>1, <2>2, <4>3, EntryLsn
        <5>. QED
          BY <1>1, <5>1, <5>2
      <4>. QED
        BY <4>2, <4>3
    <3>. QED
      BY <1>1, <1>3, <3>1 DEF Fresh
  <2>. QED
    BY <1>5, <2>3, <2>4 DEF IInv
<1>7. CASE n # Len(f)
  <2>1. ReadableLen(wal_file') = n
    BY <1>1, <1>2, <1>7, RLAppend
  <2>2. Increasing'
    BY <1>3, <1>4, <2>1 DEF IInv, Increasing
  <2>3. Fresh'
    BY <1>3, <1>4, <1>7, <2>1 DEF Fresh
  <2>. QED
    BY <1>5, <2>2, <2>3 DEF IInv
<1>. QED
  BY <1>6, <1>7

\* A crash between calls: the file stays and nothing runs.
LEMMA CrashIInv ==
  ASSUME IInv, Crash
  PROVE  IInv'
<1>1. up' = FALSE /\ UNCHANGED <<wal_file, current_lsn, acked, tears>>
  BY DEF Crash
<1>2. WTypeOK' /\ Increasing'
  BY <1>1, Zenon DEF IInv, WTypeOK, Increasing
<1>3. Fresh'
  BY <1>1, Zenon DEF Fresh
<1>. QED
  BY <1>2, <1>3 DEF IInv

(* A crash inside append leaves torn remains at the end of the file: the  *)
(* readable prefix is what it was, and the process is down.                *)
LEMMA CrashInAppendIInv ==
  ASSUME IInv, CrashInAppend
  PROVE  IInv'
<1> DEFINE f == wal_file
<1>1. PICK h \in BOOLEAN :
        wal_file' = Append(f, [type |-> "TORN",
                               lsn |-> IF h THEN current_lsn ELSE 0])
  BY DEF CrashInAppend, TornOn
<1> DEFINE e == [type |-> "TORN", lsn |-> IF h THEN current_lsn ELSE 0]
<1>2. /\ f \in Seq(Entry) /\ current_lsn \in 1 .. MaxLsn /\ tears \in Nat
      /\ acked \subseteq 1 .. MaxLsn
      /\ up' = FALSE /\ tears' = tears + 1
      /\ UNCHANGED <<current_lsn, acked>>
  BY DEF IInv, WTypeOK, CrashInAppend
<1>3. e \in Entry /\ IsTorn(e)
  BY <1>2, TornEntry
<1>4. /\ wal_file' \in Seq(Entry)
      /\ \A i \in 1 .. Len(f) : wal_file'[i] = f[i]
  BY <1>1, <1>2, <1>3, AppendProperties
<1>5. ReadableLen(wal_file') = ReadableLen(f) /\ ReadableLen(f) \in 0 .. Len(f)
  BY <1>1, <1>2, <1>3, RLAppend, RLChar
<1>6. WTypeOK'
  <2>1. up' \in BOOLEAN
    BY <1>2, Zenon
  <2>2. /\ current_lsn' \in 1 .. MaxLsn + 1
        /\ acked' \subseteq 1 .. MaxLsn
        /\ tears' \in Nat
    BY <1>2
  <2>. QED
    BY <1>4, <2>1, <2>2 DEF WTypeOK
<1>7. Increasing'
  BY <1>4, <1>5 DEF IInv, Increasing
<1>8. Fresh'
  BY <1>2, Zenon DEF Fresh
<1>. QED
  BY <1>6, <1>7, <1>8 DEF IInv

\* read_header always leaves current_lsn_ in 1 .. MaxLsn + 1.
LEMMA ReadHeaderRange ==
  ASSUME NEW f \in Seq(Entry)
  PROVE  ReadHeaderLsns(f) \subseteq 1 .. MaxLsn + 1
<1> DEFINE n == ReadableLen(f)
           last == IF n = 0 THEN 1 ELSE f[n].lsn + 1
<1>1. n \in 0 .. Len(f)
  BY RLChar
<1>2. last \in 1 .. MaxLsn + 1
  BY <1>1, EntryLsn
<1>3. n + 1 = Len(f) =>
        (IF f[n + 1].lsn # 0 THEN f[n + 1].lsn + 1 ELSE last) \in 1 .. MaxLsn + 1
  BY <1>1, <1>2, EntryLsn
<1>. QED
  BY <1>2, <1>3 DEF ReadHeaderLsns

(* On a file with no torn entry, read_header sets current_lsn_ one above  *)
(* the last record's LSN (1 on an empty file).                             *)
LEMMA ReadHeaderWhole ==
  ASSUME NEW f \in Seq(Entry), ReadableLen(f) = Len(f)
  PROVE  ReadHeaderLsns(f) = {IF Len(f) = 0 THEN 1 ELSE f[Len(f)].lsn + 1}
BY DEF ReadHeaderLsns

(* open after a crash: the file is unchanged, and when it is all readable  *)
(* read_header puts current_lsn_ above the last record, hence above all   *)
(* of them (Increasing).                                                    *)
LEMMA OpenIInv ==
  ASSUME IInv, open
  PROVE  IInv'
<1> DEFINE f == wal_file
           n == ReadableLen(f)
<1>1. /\ f \in Seq(Entry) /\ acked \subseteq 1 .. MaxLsn /\ tears \in Nat
      /\ current_lsn' \in ReadHeaderLsns(f) /\ up' = TRUE
      /\ UNCHANGED <<wal_file, acked, tears>>
  BY DEF IInv, WTypeOK, open
<1>2. WTypeOK'
  <2>1. up' \in BOOLEAN
    BY <1>1, Zenon
  <2>2. current_lsn' \in 1 .. MaxLsn + 1
    BY <1>1, ReadHeaderRange
  <2>. QED
    BY <1>1, <2>1, <2>2 DEF WTypeOK
<1>3. Increasing'
  BY <1>1 DEF IInv, Increasing
<1>4. Fresh'
  <2>1. SUFFICES ASSUME n = Len(f), NEW i \in 1 .. Len(f)
                 PROVE  f[i].lsn < current_lsn'
    BY <1>1 DEF Fresh
  <2>2. current_lsn' = f[Len(f)].lsn + 1
    BY <1>1, <2>1, ReadHeaderWhole
  <2>3. f[i].lsn \in Nat /\ f[Len(f)].lsn \in Nat
    BY <1>1, <2>1, EntryLsn
  <2>4. i < Len(f) => f[i].lsn < f[Len(f)].lsn
    BY <2>1 DEF IInv, Increasing
  <2>. QED
    BY <2>2, <2>3, <2>4
<1>. QED
  BY <1>2, <1>3, <1>4 DEF IInv

\* Every step of the WAL's life keeps IInv.
THEOREM NextIInv == IInv /\ [Next]_walVars => IInv'
<1> SUFFICES ASSUME IInv, [Next]_walVars PROVE IInv'
  OBVIOUS
<1>1. CASE \E type \in {"INSERT", "CHECKPOINT"} : AppendSync(type)
  BY <1>1, AppendSyncIInv
<1>2. CASE Crash
  BY <1>2, CrashIInv
<1>3. CASE CrashInAppend
  BY <1>3, CrashInAppendIInv
<1>4. CASE open
  BY <1>4, OpenIInv
<1>5. CASE UNCHANGED walVars
  BY <1>5, Zenon DEF walVars, IInv, WTypeOK, Increasing, Fresh
<1>. QED
  BY <1>1, <1>2, <1>3, <1>4, <1>5 DEF Next

THEOREM IInvHolds == Spec => []IInv
BY InitIInv, NextIInv, PTL DEF Spec

-----------------------------------------------------------------------------
(* The properties run wal checks.                                          *)

\* IInv gives the typing TypeOK states: entries are records or torn
\* remains, and current_lsn_ is a positive LSN.
LEMMA IInvTypeOK == IInv => TypeOK
<1> SUFFICES ASSUME IInv PROVE TypeOK
  OBVIOUS
<1>1. \A i \in 1 .. Len(wal_file) :
        wal_file[i].type \in RecordTypes \cup {"TORN"}
  <2>1. SUFFICES ASSUME NEW i \in 1 .. Len(wal_file)
                 PROVE  wal_file[i].type \in RecordTypes \cup {"TORN"}
    OBVIOUS
  <2>2. wal_file[i] \in Entry
    BY ElementOfSeq DEF IInv, WTypeOK
  <2>. QED
    BY <2>2 DEF Entry
<1>. QED
  BY <1>1 DEF IInv, WTypeOK, TypeOK

\* The file keeps its shape and current_lsn_ stays a positive LSN, through
\* appends, crashes, torn appends and reopenings (TypeOK).
THEOREM TypeCorrect == Spec => []TypeOK
BY IInvHolds, IInvTypeOK, PTL

\* IInv gives ReadableLsnsIncrease: the readable records are the first
\* ReadableLen entries, and those are increasing.
LEMMA IInvIncrease == IInv => ReadableLsnsIncrease
<1> SUFFICES ASSUME IInv,
                    NEW i \in 1 .. Len(Readable(wal_file)) - 1
             PROVE  Readable(wal_file)[i].lsn < Readable(wal_file)[i + 1].lsn
  BY DEF ReadableLsnsIncrease
<1>1. wal_file \in Seq(Entry)
  BY DEF IInv, WTypeOK
<1>2. /\ Len(Readable(wal_file)) = ReadableLen(wal_file)
      /\ \A k \in 1 .. ReadableLen(wal_file) : Readable(wal_file)[k] = wal_file[k]
  BY <1>1, ReadableAt
<1>3. i \in 1 .. ReadableLen(wal_file) /\ i + 1 \in 1 .. ReadableLen(wal_file)
  BY <1>1, <1>2, RLChar
<1>4. wal_file[i].lsn < wal_file[i + 1].lsn
  BY <1>3 DEF IInv, Increasing
<1>. QED
  BY <1>2, <1>3, <1>4

(* LSN monotonicity (ReadableLsnsIncrease): for every MaxLsn, the records  *)
(* read_from hands recovery carry strictly increasing LSNs, whatever       *)
(* crashes, torn appends and reopenings happened before.                    *)
THEOREM ReadableLsnsIncreaseHolds == Spec => []ReadableLsnsIncrease
BY IInvHolds, IInvIncrease, PTL
=============================================================================
