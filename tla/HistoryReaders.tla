--------------------------- MODULE HistoryReaders ---------------------------
(***************************************************************************)
(* Reading the log while it is written: ntc_history_iterate and its two    *)
(* users, history_get_handler (GET /history.json) and                      *)
(* ntc_history_get_records.  Both iterate twice, first to count the        *)
(* records and then to pass on the newest MaxRows of them.                 *)
(*                                                                         *)
(* An iteration takes s_lock only to list the sectors in the order of      *)
(* their seq_start.  It then reads one sector after the other without the  *)
(* lock, so each of these reads is a step between any two steps of the     *)
(* writer; the flash driver makes one read atomic.  The records of a       *)
(* sector are passed on from a copy in RAM, so the callbacks belong to the *)
(* read.  The web server handles one request at a time.                    *)
(*                                                                         *)
(* since_ts and max are 0 in every call, and are left out.                 *)
(***************************************************************************)
EXTENDS NtcHistory, SequencesExt

CONSTANTS
  MaxRows,       \* max of history_get_handler, max_records of get_records
  ReaderFails    \* whether a malloc or esp_partition_read of a reader may fail

ASSUME MaxRowsAssumption == MaxRows \in Nat \ {0}
ASSUME ReaderFailsAssumption == ReaderFails \in BOOLEAN

VARIABLES
  r_pc,       \* "none", or what the reader does next
  kind,       \* who reads: the "handler" or "get_records"
  sectors,    \* sectors of ntc_history_iterate, from si on
  emitted,    \* emitted of ntc_history_iterate, while counting
  skip,       \* records still to be skipped: skip - seen of the context
  rows,       \* the records passed on
  failed,     \* history: an allocation or a read of this request failed
  known,      \* history: the records readable when counting starts
  old,        \* history: the records readable when copying starts
  met         \* history: the records that copying has skipped or passed on

reader == <<r_pc, kind, sectors, emitted, skip, rows, failed, known, old, met>>
allvars == <<vars, reader>>

Smaller(a, b) == IF a < b THEN a ELSE b

\* Mutant of SectorLists: the sectors are not sorted.
UnsortedLists(S) == {SetToSeq(S)}

\* sort_sectors_by_seq_start: sectors with equal seq_start come in any order.
SectorLists(S) ==
  {q \in SetToSeqs(S) : \A i, j \in 1 .. Len(q) : i < j => hdr[q[i]] <= hdr[q[j]]}

\* The records of sector s up to the first slot that holds no valid one.
SectorRecords(s) ==
  LET n == Cardinality({k \in Slots : \A j \in 0 .. k : record_is_valid(slot[s][j])})
  IN [i \in 1 .. n |-> slot[s][i - 1].id]

\* Mutants of ToSkip: one record too many, one too few, and a difference that is
\* taken unchecked (a size_t wraps).
SkipMore(total) == IF total >= MaxRows THEN total - MaxRows + 1 ELSE 0
SkipFewer(total) == IF total > MaxRows THEN total - MaxRows - 1 ELSE 0

SkipUnchecked(total) == total - MaxRows

ToSkip(total) == IF total > MaxRows THEN total - MaxRows ELSE 0

-----------------------------------------------------------------------------
Request ==
  /\ r_pc = "none" /\ s_ready
  /\ kind' \in {"handler", "get_records"}
  /\ r_pc' = "count"
  /\ UNCHANGED <<sectors, emitted, skip, rows, failed, known, old, met>>

\* collect_sectors and sort_sectors_by_seq_start, under s_lock.
ListSectors(p, q) ==
  /\ r_pc = p /\ pc = "idle"
  /\ \E headers \in SUBSET {s \in Sectors : hdr[s] # NoHeader} :
       /\ \/ headers = {s \in Sectors : hdr[s] # NoHeader} /\ UNCHANGED failed
          \/ ReaderFails /\ failed' = TRUE
       /\ sectors' \in SectorLists(headers)
  /\ r_pc' = q

ListToCount ==
  /\ ListSectors("count", "counting")
  /\ known' = VisibleIds
  /\ UNCHANGED <<kind, emitted, skip, rows, old, met>>

ListToCopy ==
  /\ ListSectors("copy", "copying")
  /\ old' = VisibleIds
  /\ UNCHANGED <<kind, emitted, skip, rows, known, met>>

\* An iteration ends with its list, with a callback that returned false, or at
\* once when one of its two allocations fails.
CountSector ==
  /\ r_pc = "counting" /\ sectors # <<>>
  /\ \/ /\ emitted' = emitted + Len(SectorRecords(Head(sectors)))
        /\ UNCHANGED failed
     \/ ReaderFails /\ failed' = TRUE /\ UNCHANGED emitted
  /\ sectors' = Tail(sectors)
  /\ UNCHANGED <<r_pc, kind, skip, rows, known, old, met>>

Counted ==
  /\ \/ /\ r_pc = "counting" /\ sectors = <<>>
        /\ skip' = ToSkip(emitted)
        /\ UNCHANGED failed
     \/ /\ ReaderFails /\ r_pc = "count" /\ pc = "idle"
        /\ skip' = ToSkip(0)
        /\ failed' = TRUE
  /\ emitted' = 0
  /\ r_pc' = "copy"
  /\ UNCHANGED <<kind, sectors, rows, known, old, met>>

\* history_stream_cb skips and sends; copy_cb also returns false as soon as it
\* has MaxRows records.  Neither caller uses the result of this iteration.
CopySector ==
  /\ r_pc = "copying" /\ sectors # <<>>
  /\ LET recs == SectorRecords(Head(sectors))
         drop == Smaller(skip, Len(recs))
         left == Len(recs) - drop
         room == MaxRows - Len(rows)
         full == kind = "get_records" /\ left >= room
         take == IF full THEN room ELSE left
     IN /\ skip' = skip - drop
        /\ rows' = rows \o SubSeq(recs, drop + 1, drop + take)
        /\ met' = met \cup ToSet(SubSeq(recs, 1, drop + take))
        /\ IF full THEN r_pc' = "done" /\ sectors' = <<>>
                   ELSE sectors' = Tail(sectors) /\ UNCHANGED r_pc
  /\ UNCHANGED <<kind, emitted, failed, known, old>>

SkipUnreadable ==
  /\ ReaderFails
  /\ r_pc = "copying" /\ sectors # <<>>
  /\ sectors' = Tail(sectors)
  /\ failed' = TRUE
  /\ UNCHANGED <<r_pc, kind, emitted, skip, rows, known, old, met>>

\* Mutant of Copied: when an allocation fails the request starts over.
StartOver ==
  \/ /\ r_pc = "copying" /\ sectors = <<>>
     /\ r_pc' = "done"
     /\ UNCHANGED <<kind, sectors, emitted, skip, rows, failed, known, old, met>>
  \/ /\ ReaderFails /\ r_pc = "copy" /\ pc = "idle"
     /\ r_pc' = "count"
     /\ UNCHANGED <<kind, sectors, emitted, skip, rows, failed, known, old, met>>

Copied ==
  /\ \/ r_pc = "copying" /\ sectors = <<>> /\ UNCHANGED failed
     \/ ReaderFails /\ r_pc = "copy" /\ pc = "idle" /\ failed' = TRUE
  /\ r_pc' = "done"
  /\ UNCHANGED <<kind, sectors, emitted, skip, rows, known, old, met>>

\* The reader as it is before its first request, and after each.
NoReader ==
  /\ r_pc' = "none" /\ kind' = "handler" /\ sectors' = <<>>
  /\ emitted' = 0 /\ skip' = 0 /\ rows' = <<>>
  /\ failed' = FALSE /\ known' = {} /\ old' = {} /\ met' = {}

Answer == r_pc = "done" /\ NoReader

-----------------------------------------------------------------------------
ReaderInit ==
  /\ r_pc = "none" /\ kind = "handler" /\ sectors = <<>>
  /\ emitted = 0 /\ skip = 0 /\ rows = <<>>
  /\ failed = FALSE /\ known = {} /\ old = {} /\ met = {}

List == ListToCount \/ ListToCopy
Read == CountSector \/ Counted \/ CopySector \/ SkipUnreadable \/ Copied \/ Answer

\* A reset of the device ends the request with everything else.
Writer(A) == A /\ IF pc' = "boot" THEN NoReader ELSE UNCHANGED reader

ReadersInit == Init /\ ReaderInit
ReadersNext == Writer(Next) \/ ((Request \/ List \/ Read) /\ UNCHANGED vars)
ReadersSpec == ReadersInit /\ [][ReadersNext]_allvars

\* A task that waits for s_lock gets it when it is free often enough; the other
\* steps of a reader wait for nobody.
ReadersFair ==
  /\ ReadersSpec
  /\ WF_allvars(Writer(Boot)) /\ WF_allvars(Writer(LogStep))
  /\ WF_allvars(Read /\ UNCHANGED vars)
  /\ SF_allvars(List /\ UNCHANGED vars)

-----------------------------------------------------------------------------
ReadersTypeOK ==
  /\ r_pc \in {"none", "count", "counting", "copy", "copying", "done"}
  /\ kind \in {"handler", "get_records"}
  /\ sectors \in Seq(Sectors) /\ rows \in Seq(Nat)
  /\ emitted \in Nat /\ skip \in Nat
  /\ failed \in BOOLEAN
  /\ known \in SUBSET Nat /\ old \in SUBSET Nat /\ met \in SUBSET Nat

\* Of the records that were on flash when the copying began, none is passed on
\* twice or after a newer one, although sectors are erased and written again
\* while they are read.
OldRowsInOrder ==
  \A i, j \in 1 .. Len(rows) :
    i < j /\ rows[i] \in old /\ rows[j] \in old => rows[i] < rows[j]

\* MaxRows records of those known or listed are newer than x, or were erased.
Outdated(x) ==
  LET seen == known \cup old IN
    Cardinality({y \in seen : y > x}) + Cardinality(seen \ VisibleIds) >= MaxRows

\* get_records has filled its array, and in the place of each record that was known
\* and listed and that it did not get to it has read one written since.
Displaced ==
  /\ kind = "get_records" /\ Len(rows) = MaxRows
  /\ Cardinality((known \cap old) \ met) <= Cardinality(met \ known)

\* An answer has the newest records, unless an allocation or a read failed.  One
\* that stayed on flash from the first count to the end is left out only if it was
\* skipped for MaxRows newer ones, less those that were erased in between, or if
\* an array was filled before it came to it with records of sectors that were
\* written again meanwhile, of which there are then at least as many.
NewestRows ==
  r_pc = "done" /\ ~failed =>
    \A x \in (known \cap VisibleIds) \ ToSet(rows) :
      IF x \in met THEN Outdated(x) ELSE Displaced

\* More than MaxRows records are passed on only for as many that were written
\* after the counting began, or because the counting failed.
ExcessIsNew == ~failed => Len(rows) <= MaxRows + Cardinality(met \ known)

\* ntc_history.h: "Iterate records in chronological order (oldest -> newest)".
RowsInOrder == \A i, j \in 1 .. Len(rows) : i < j => rows[i] < rows[j]

\* Every request is answered once the faults stop.
RequestAnswered == (r_pc # "none") ~> (r_pc = "none")
=============================================================================
