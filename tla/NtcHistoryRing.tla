--------------------------- MODULE NtcHistoryRing ---------------------------
(***************************************************************************)
(* The log of NtcHistory implements RingLog when a record write is all or  *)
(* nothing and the boot can read the flash.                                *)
(***************************************************************************)
EXTENDS NtcHistory

VisibleRecords ==
  {slot[p[1]][p[2]] : p \in {q \in Sectors \X Slots : Visible(q[1], q[2])}}

\* The records of a set in the order of their numbers: the one before which there
\* are n others is the one behind the n-th.
Rank(r, S) == Cardinality({o \in S : o.seq < r.seq})
Nth(i, S) == CHOOSE r \in S : Rank(r, S) = i - 1

\* The readable samples in the order of the numbers of their records.
ReadableLog ==
  [i \in 1 .. Cardinality(VisibleRecords) |-> Nth(i, VisibleRecords).id]

\* The buffered samples that are not on flash yet, and the one that
\* ntc_history_add_record holds while it flushes.  A failing write may leave
\* its record on flash, and then its sample waits no more.
Buffered ==
  LET kept == SubSeq(s_ram_buf, flush_i + 1, Len(s_ram_buf))
  IN IF pend = NoSample THEN kept ELSE Append(kept, pend)
Waiting ==
  IF Buffered # <<>> /\ Head(Buffered) \in VisibleIds THEN Tail(Buffered) ELSE Buffered

Ring == INSTANCE RingLog WITH
  Blocks <- NumSectors, BlockSize <- RecordsPerSector,
  QueueSize <- RamRecords, MaxGiven <- MaxSamples,
  log <- ReadableLog, queue <- Waiting, given <- sampled, up <- (pc # "boot")

\* ntc_history.h: the log is "a flash-based ring buffer": every step of the
\* detailed log, over errors and power losses, takes a sample, moves the oldest
\* waiting one to the end of the log, drops the oldest sector of a full log, or
\* leaves them alone; and samples are lost only by a reset or to a full buffer.
ImplementsRing == Ring!RingSpec
=============================================================================
