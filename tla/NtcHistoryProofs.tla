-------------------------- MODULE NtcHistoryProofs --------------------------
(***************************************************************************)
(* Theorems about the flash ring log, for every size of the partition, of  *)
(* a sector and of the RAM buffer, and any number of samples and faults.   *)
(***************************************************************************)
EXTENDS NtcHistory, SequenceTheorems, TLAPS

(***************************************************************************)
(* Lemmas about the operators of NtcHistory.                               *)
(***************************************************************************)
\* The ring of sectors is closed under taking the next one.
LEMMA NextSectorType == ASSUME NEW s \in Sectors PROVE NextSector(s) \in Sectors
BY SectorsAssumption, SMT DEF NextSector, Sectors

\* Programming a record yields a slot value.
LEMMA ProgramType ==
  ASSUME NEW old \in SlotValue, NEW rec \in SlotValue
  PROVE  Program(old, rec) \in SlotValue
BY DEF Program, SlotValue, SlotState, Garbage, NoSample

\* So does programming that is cut short.
LEMMA InterruptedType ==
  ASSUME NEW old \in SlotValue, NEW rec \in SlotValue,
         NEW v \in Interrupted(old, rec)
  PROVE  v \in SlotValue
BY ProgramType, TearsAssumption DEF Interrupted, SlotValue, SlotState

\* Blank and garbage sectors are sectors.
LEMMA FillType == BlankSlots \in [Slots -> SlotValue] /\ GarbageSlots \in [Slots -> SlotValue]
BY DEF BlankSlots, GarbageSlots, Empty, Garbage, SlotValue, SlotState, NoSample

\* What flush_locked keeps is the rest of the buffer behind what it wrote.
LEMMA KeptSamples ==
  ASSUME s_ram_buf \in Seq(Nat), NEW i \in 0 .. Len(s_ram_buf)
  PROVE  /\ FlushKeeps(i) \in Seq(Nat)
         /\ Len(FlushKeeps(i)) = Len(s_ram_buf) - i
         /\ \A j \in 1 .. Len(s_ram_buf) - i :
              FlushKeeps(i)[j] = s_ram_buf[i + j]
<1> DEFINE n == Len(s_ram_buf)
           kept == SubSeq(s_ram_buf, i + 1, n)
<1>1. n \in Nat /\ i \in Nat /\ i <= n
  OBVIOUS
<1>2. \A j \in i + 1 .. n : s_ram_buf[j] \in Nat
  OBVIOUS
<1>3. FlushKeeps(i) = kept
  BY DEF FlushKeeps
<1> HIDE DEF n
<1>4. /\ kept \in Seq(Nat)
      /\ Len(kept) = IF i + 1 <= n THEN n - (i + 1) + 1 ELSE 0
      /\ \A j \in 1 .. n - (i + 1) + 1 : kept[j] = s_ram_buf[i + 1 + j - 1]
  <2>1. i + 1 \in Int /\ n \in Int
    BY <1>1
  <2> QED
    BY <1>2, <2>1, SubSeqProperties
<1> HIDE DEF kept
<1>5. Len(kept) = n - i /\ \A j \in 1 .. n - i : kept[j] = s_ram_buf[i + j]
  BY <1>1, <1>4
<1> QED
  BY <1>3, <1>4, <1>5 DEF n

\* After flush_locked the buffer is one again, it is not fuller than before or
\* than RAM_BUFFER_RECORDS, and its head is the first sample not written.
LEMMA FinishFlushBuffer ==
  ASSUME TypeOK, NEW i \in 0 .. Len(s_ram_buf), FinishFlush(i)
  PROVE  /\ s_ram_buf' \in Seq(Nat) /\ Len(s_ram_buf') <= RamRecords
         /\ flush_i' = 0 /\ flush_i' \in 0 .. Len(s_ram_buf')
         /\ pend' \in Nat
         /\ pc' \in {"idle", "flush"}
         /\ i < Len(s_ram_buf) => /\ Len(s_ram_buf') > 0
                                  /\ s_ram_buf'[1] = s_ram_buf[i + 1]
<1> DEFINE kept == FlushKeeps(i)
           more == Append(kept, pend)
           len == Len(s_ram_buf)
<1>1. /\ kept \in Seq(Nat) /\ Len(kept) = len - i
      /\ \A j \in 1 .. len - i : kept[j] = s_ram_buf[i + j]
  BY KeptSamples DEF TypeOK
<1>2. len \in Nat /\ len <= RamRecords /\ pend \in Nat /\ i \in Nat /\ i <= len
  BY DEF TypeOK
<1>3. /\ flush_i' = 0 /\ pend' = NoSample /\ pc' \in {"idle", "flush"}
      /\ \/ s_ram_buf' = kept
         \/ s_ram_buf' = more /\ Len(kept) < RamRecords
  BY DEF FinishFlush
<1> HIDE DEF kept
<1>4. /\ more \in Seq(Nat) /\ Len(more) = Len(kept) + 1
      /\ \A j \in 1 .. Len(kept) : more[j] = kept[j]
  BY <1>1, <1>2, AppendProperties
<1> HIDE DEF more, len
<1>5. /\ s_ram_buf' \in Seq(Nat) /\ Len(s_ram_buf') <= RamRecords
      /\ Len(s_ram_buf') \in Nat
      /\ i < len => Len(s_ram_buf') > 0 /\ s_ram_buf'[1] = s_ram_buf[i + 1]
  <2>1. CASE s_ram_buf' = kept
    <3>1. Len(kept) <= RamRecords /\ Len(kept) \in Nat
      BY <1>1, <1>2, RamAssumption
    <3>2. i < len => Len(kept) > 0 /\ kept[1] = s_ram_buf[i + 1]
      BY <1>1, <1>2
    <3> QED
      BY <1>1, <2>1, <3>1, <3>2
  <2>2. CASE s_ram_buf' = more /\ Len(kept) < RamRecords
    <3>1. Len(more) <= RamRecords /\ Len(more) \in Nat
      BY <1>1, <1>2, <1>4, <2>2, RamAssumption
    <3>2. i < len => Len(more) > 0 /\ more[1] = s_ram_buf[i + 1]
      BY <1>1, <1>2, <1>4
    <3> QED
      BY <1>4, <2>2, <3>1, <3>2
  <2> QED
    BY <1>3, <2>1, <2>2
<1> QED
  BY <1>3, <1>5 DEF NoSample, len

-----------------------------------------------------------------------------
(***************************************************************************)
(* Type correctness.                                                       *)
(***************************************************************************)
\* What flush_locked writes, and what it writes over.
LEMMA WritingType ==
  ASSUME TypeOK, Writing
  PROVE  /\ NewRecord \in SlotValue /\ OldSlot \in SlotValue
         /\ s_cur_slot \in Slots
         /\ s_ram_buf[flush_i + 1] \in Nat
<1>1. s_cur_slot \in Slots
  BY SlotsAssumption DEF TypeOK, Writing, Slots
<1>2. flush_i + 1 \in 1 .. Len(s_ram_buf)
  BY DEF TypeOK, Writing
<1>3. s_ram_buf[flush_i + 1] \in Nat
  BY <1>2, ElementOfSeq DEF TypeOK
<1> QED
  BY <1>1, <1>3 DEF TypeOK, NewRecord, OldSlot, SlotValue, SlotState

\* Storing a slot value keeps the flash well formed.
LEMMA SetSlotType ==
  ASSUME TypeOK, NEW v \in SlotValue, SetSlot(v)
  PROVE  slot' \in [Sectors -> [Slots -> SlotValue]]
BY DEF TypeOK, SetSlot

\* The scan of a sector with a header finds sequence numbers.
LEMMA ScannedSeqsType ==
  ASSUME TypeOK, NEW readable, NEW b \in Sectors, NewestSector(b, readable),
         NEW n, NEW q \in ScannedSeqs(b, n)
  PROVE  q \in Nat
<1>1. hdr[b] \in Nat /\ hdr[b] # 0
  BY DEF TypeOK, NewestSector, NoHeader
<1>2. \A k \in Slots : slot[b][k].seq \in Nat
  BY DEF TypeOK, SlotValue
<1>3. q = hdr[b] - 1 \/ \E k \in Slots : q = slot[b][k].seq
  BY DEF ScannedSeqs
<1> QED
  BY <1>1, <1>2, <1>3

\* Booting finds the cursor inside the partition and a sequence number.
LEMMA BootType == ASSUME TypeOK, Boot PROVE TypeOK'
<1>0. PICK headers \in SUBSET Sectors, records \in SUBSET Slots :
       /\ \/ headers = Sectors /\ records = Slots /\ UNCHANGED faults
          \/ ReadsFail /\ faults < MaxFaults /\ faults' = faults + 1
       /\ \/ (\A s \in headers : hdr[s] = NoHeader) /\ BootFormat
          \/ \E b \in headers : NewestSector(b, headers) /\ BootResume(b, records)
  BY DEF Boot
<1>1. /\ hdr' = hdr /\ slot' = slot /\ sampled' = sampled
      /\ s_ram_buf' = s_ram_buf /\ flush_i' = flush_i /\ pend' = pend
  BY DEF Boot, flash, buffer
<1>2. faults' \in 0 .. MaxFaults
  <2>1. \/ faults' = faults
        \/ faults < MaxFaults /\ faults' = faults + 1
    BY <1>0
  <2> QED
    BY <2>1, BoundsAssumption DEF TypeOK
<1>3. 0 \in Sectors
  BY SectorsAssumption DEF Sectors
<1>4. CASE BootFormat
  <2>1. /\ s_cur_sector' \in Sectors /\ s_cur_slot' \in 0 .. RecordsPerSector
        /\ s_last_seq' \in Nat /\ s_ready' \in BOOLEAN
        /\ next' \in Sectors /\ pc' = "erase"
    <3>1. 0 \in 0 .. RecordsPerSector
      BY SlotsAssumption
    <3> QED
      BY <1>3, <1>4, <3>1 DEF BootFormat
  <2> QED
    BY <1>1, <1>2, <2>1 DEF TypeOK
<1>5. CASE \E b \in headers : NewestSector(b, headers) /\ BootResume(b, records)
  <2>1. PICK b \in Sectors : NewestSector(b, headers) /\ BootResume(b, records)
    BY <1>0, <1>5
  <2>2. PICK n \in 0 .. RecordsPerSector :
        /\ s_cur_sector' = b
        /\ s_cur_slot' = SlotAfterScan(b, n, records)
        /\ s_last_seq' \in ScannedSeqs(b, n)
        /\ IF s_cur_slot' >= RecordsPerSector
             THEN next' = NextSector(b) /\ pc' = "erase" /\ s_ready' = FALSE
             ELSE next' = 0 /\ pc' = "idle" /\ s_ready' = TRUE
    BY <2>1 DEF BootResume
  <2>3. s_cur_slot' \in 0 .. RecordsPerSector
    BY <2>2, SlotsAssumption DEF SlotAfterScan
  <2>4. s_last_seq' \in Nat
    BY <2>1, <2>2, ScannedSeqsType
  <2>5. next' \in Sectors /\ pc' \in {"erase", "idle"} /\ s_ready' \in BOOLEAN
    <3>1. NextSector(b) \in Sectors
      BY NextSectorType
    <3> QED
      BY <1>3, <2>2, <3>1
  <2> QED
    BY <1>1, <1>2, <2>2, <2>3, <2>4, <2>5 DEF TypeOK
<1> QED
  BY <1>0, <1>4, <1>5

\* A fault leaves the flash well formed.
LEMMA HalfType ==
  ASSUME TypeOK, HalfWrite \/ HalfErase \/ HalfHeader
  PROVE  hdr' \in [Sectors -> Nat] /\ slot' \in [Sectors -> [Slots -> SlotValue]]
<1>1. CASE HalfWrite
  <2>1. PICK v \in Interrupted(OldSlot, NewRecord) : SetSlot(v)
    BY <1>1 DEF HalfWrite
  <2>2. v \in SlotValue
    BY <1>1, WritingType, InterruptedType DEF HalfWrite
  <2> QED
    BY <1>1, <2>1, <2>2, SetSlotType DEF HalfWrite, TypeOK
<1>2. CASE HalfErase
  <2>1. CASE UNCHANGED flash
    BY <2>1 DEF flash, TypeOK
  <2>2. CASE /\ hdr' = [hdr EXCEPT ![next] = NoHeader]
             /\ \E c \in {BlankSlots, GarbageSlots} :
                  slot' = [slot EXCEPT ![next] = c]
    <3>1. PICK c \in [Slots -> SlotValue] : slot' = [slot EXCEPT ![next] = c]
      BY <2>2, FillType
    <3> QED
      BY <2>2, <3>1 DEF TypeOK, NoHeader
  <2> QED
    BY <1>2, <2>1, <2>2 DEF HalfErase
<1>3. CASE HalfHeader
  BY <1>3 DEF HalfHeader, HeaderSeq, TypeOK, NoHeader
<1> QED
  BY <1>1, <1>2, <1>3

\* So is the state after a reset, whatever happened to the flash.
LEMMA ResetType ==
  ASSUME TypeOK, Reset, UNCHANGED sampled, faults' \in 0 .. MaxFaults,
         hdr' \in [Sectors -> Nat], slot' \in [Sectors -> [Slots -> SlotValue]]
  PROVE  TypeOK'
<1>1. 0 \in Sectors
  BY SectorsAssumption DEF Sectors
<1>2. 0 \in 0 .. RecordsPerSector
  BY SlotsAssumption
<1>3. <<>> \in Seq(Nat) /\ Len(<<>>) = 0 /\ 0 <= RamRecords /\ 0 \in 0 .. 0
  BY RamAssumption
<1> QED
  BY <1>1, <1>2, <1>3 DEF Reset, TypeOK, NoSample

\* Every step of the log keeps its variables well formed.
LEMMA TypeStep == ASSUME TypeOK, [Next]_vars PROVE TypeOK'
<1>1. CASE Boot
  BY <1>1, BootType
<1>2. CASE EraseSector
  BY <1>2, FillType DEF EraseSector, TypeOK, cursor, buffer, NoHeader
<1>3. CASE WriteHeader
  BY <1>3, SlotsAssumption, SectorsAssumption
     DEF WriteHeader, CursorAfterAdvance, HeaderSeq, TypeOK, buffer, Sectors
<1>4. CASE AddRecord
  <2>1. sampled' \in 0 .. MaxSamples /\ sampled + 1 \in Nat
    BY <1>4, BoundsAssumption DEF AddRecord, TypeOK
  <2>2. CASE Len(s_ram_buf) >= RamRecords
    BY <1>4, <2>1, <2>2 DEF AddRecord, TypeOK, flash, cursor
  <2>3. CASE Len(s_ram_buf) < RamRecords
    <3> DEFINE more == Append(s_ram_buf, sampled + 1)
    <3>1. more \in Seq(Nat) /\ Len(more) = Len(s_ram_buf) + 1
      BY <2>1, AppendProperties DEF TypeOK
    <3>2. /\ s_ram_buf' = more /\ pend' = pend /\ flush_i' = flush_i
          /\ hdr' = hdr /\ slot' = slot /\ s_cur_sector' = s_cur_sector
          /\ s_cur_slot' = s_cur_slot /\ s_last_seq' = s_last_seq
          /\ s_ready' = s_ready /\ next' = next /\ faults' = faults
          /\ pc' \in {"flush", "idle"}
      BY <1>4, <2>3, RamAssumption DEF AddRecord, flash, cursor, TypeOK
    <3> HIDE DEF more
    <3>3. Len(more) <= RamRecords /\ flush_i \in 0 .. Len(more)
      BY <2>3, <3>1, RamAssumption DEF TypeOK
    <3> QED
      BY <2>1, <3>1, <3>2, <3>3 DEF TypeOK
  <2>4. Len(s_ram_buf) \in Nat
    BY DEF TypeOK
  <2> QED
    BY <2>2, <2>3, <2>4, RamAssumption
<1>5. CASE Flush
  BY <1>5 DEF Flush, TypeOK, flash, cursor, buffer
<1>6. CASE FlushDone
  <2>1. FinishFlush(flush_i) /\ flush_i \in 0 .. Len(s_ram_buf)
    BY <1>6 DEF FlushDone, TypeOK
  <2> QED
    BY <1>6, <2>1, FinishFlushBuffer DEF FlushDone, TypeOK, flash, cursor
<1>7. CASE AdvanceSector
  BY <1>7, NextSectorType DEF AdvanceSector, TypeOK, flash, cursor, buffer
<1>8. CASE WriteRecord
  <2>1. Program(OldSlot, NewRecord) \in SlotValue
    BY <1>8, WritingType, ProgramType DEF WriteRecord
  <2>2. slot' \in [Sectors -> [Slots -> SlotValue]]
    BY <1>8, <2>1, SetSlotType DEF WriteRecord
  <2> QED
    BY <1>8, <2>2, SlotsAssumption DEF WriteRecord, Writing, TypeOK
<1>9. CASE FlashError
  <2>1. faults' \in 0 .. MaxFaults /\ sampled' = sampled
    BY <1>9, BoundsAssumption DEF FlashError, TypeOK
  <2>2. hdr' \in [Sectors -> Nat] /\ slot' \in [Sectors -> [Slots -> SlotValue]]
    BY <1>9, HalfType DEF FlashError
  <2>3. CASE s_ready
    <3>1. FinishFlush(flush_i) /\ flush_i \in 0 .. Len(s_ram_buf)
      BY <1>9, <2>3 DEF FlashError, TypeOK
    <3>2. next' = 0 /\ 0 \in Sectors /\ UNCHANGED cursor
      BY <1>9, <2>3, SectorsAssumption DEF FlashError, Sectors
    <3> QED
      BY <2>1, <2>2, <3>1, <3>2, FinishFlushBuffer DEF TypeOK, cursor
  <2>4. CASE ~s_ready
    BY <1>9, <2>1, <2>2, <2>4, ResetType DEF FlashError
  <2> QED
    BY <2>3, <2>4
<1>10. CASE PowerLoss
  <2>1. faults' \in 0 .. MaxFaults
    BY <1>10, BoundsAssumption DEF PowerLoss, TypeOK
  <2>2. hdr' \in [Sectors -> Nat] /\ slot' \in [Sectors -> [Slots -> SlotValue]]
    BY <1>10, HalfType DEF PowerLoss, TypeOK, flash
  <2> QED
    BY <1>10, <2>1, <2>2, ResetType DEF PowerLoss
<1>11. CASE UNCHANGED vars
  BY <1>11 DEF vars, flash, cursor, buffer, TypeOK
<1> QED
  BY <1>1, <1>2, <1>3, <1>4, <1>5, <1>6, <1>7, <1>8, <1>9, <1>10, <1>11
     DEF Next, LogStep

\* The log starts well formed.
LEMMA InitType == Init => TypeOK
<1> SUFFICES ASSUME Init PROVE TypeOK
  OBVIOUS
<1>1. 0 \in Sectors /\ 0 \in 0 .. RecordsPerSector /\ 0 <= RamRecords
  BY SectorsAssumption, SlotsAssumption, RamAssumption DEF Sectors
<1>2. 0 \in 0 .. MaxSamples /\ 0 \in 0 .. MaxFaults
  BY BoundsAssumption
<1>3. slot \in [Sectors -> [Slots -> SlotValue]]
  BY FillType DEF Init
<1> QED
  BY <1>1, <1>2, <1>3 DEF Init, TypeOK, NoHeader, NoSample

\* The state of the log stays well formed: the cursor inside the partition, the
\* buffer within RAM_BUFFER_RECORDS, flush_i within the buffer.
THEOREM TypeCorrect == Spec => []TypeOK
<1>1. TypeOK /\ [Next]_vars => TypeOK'
  BY TypeStep
<1> QED
  BY <1>1, InitType, PTL DEF Spec

-----------------------------------------------------------------------------
(***************************************************************************)
(* Record numbers.  RecordNumbering is not inductive: the number written   *)
(* next comes from RAM, so the cursor has to agree with the flash          *)
(* (CursorNumbering), it must not change sectors while it has slots left,  *)
(* and a header may only be given to a blank sector.                       *)
(***************************************************************************)
LockHolder ==
  /\ pc = "boot" => ~s_ready
  /\ pc \in {"idle", "flush"} => s_ready
  /\ pc \in {"erase", "header"} /\ s_ready => s_cur_slot >= RecordsPerSector
  /\ pc = "header" => hdr[next] = NoHeader /\ slot[next] = BlankSlots

NumberingInv == TypeOK /\ LockHolder /\ RecordNumbering /\ CursorNumbering

\* LockHolder is inductive by itself, over TypeOK.
LEMMA LockHolderStep ==
  ASSUME TypeOK, LockHolder, [Next]_vars PROVE LockHolder'
<1>1. CASE Boot
  BY <1>1 DEF Boot, BootFormat, BootResume, LockHolder
<1>2. CASE EraseSector
  <2>1. hdr'[next] = NoHeader /\ slot'[next] = BlankSlots
    BY <1>2 DEF EraseSector, TypeOK
  <2>2. /\ pc = "erase" /\ pc' = "header" /\ next' = next
        /\ s_cur_slot' = s_cur_slot /\ s_ready' = s_ready
    BY <1>2 DEF EraseSector, cursor
  <2> QED
    BY <2>1, <2>2 DEF LockHolder
<1>3. CASE WriteHeader
  BY <1>3 DEF WriteHeader, LockHolder
<1>4. CASE AddRecord \/ Flush \/ FlushDone
  <2>1. pc' \in {"idle", "flush"} /\ s_ready' = s_ready /\ pc \in {"idle", "flush"}
    BY <1>4 DEF AddRecord, Flush, FlushDone, FinishFlush, cursor
  <2> QED
    BY <2>1, Zenon DEF LockHolder
<1>5. CASE AdvanceSector
  BY <1>5 DEF AdvanceSector, LockHolder, cursor
<1>6. CASE WriteRecord
  BY <1>6 DEF WriteRecord, Writing, LockHolder
<1>7. CASE FlashError /\ s_ready
  <2>1. pc' \in {"idle", "flush"} /\ s_ready'
    BY <1>7 DEF FlashError, FinishFlush, cursor
  <2> QED
    BY <2>1, Zenon DEF LockHolder
<1>8. CASE (FlashError /\ ~s_ready) \/ PowerLoss
  BY <1>8 DEF FlashError, PowerLoss, Reset, LockHolder
<1>9. CASE UNCHANGED vars
  BY <1>9 DEF vars, flash, cursor, LockHolder
<1> QED
  BY <1>1, <1>2, <1>3, <1>4, <1>5, <1>6, <1>7, <1>8, <1>9 DEF Next, LogStep

\* The boot scan recovers the number of the last record of the newest sector,
\* because the records before the slot where it stops are numbered in sequence.
LEMMA ScanRecoversNumber ==
  ASSUME TypeOK, RecordNumbering,
         NEW b \in Sectors, hdr[b] # NoHeader,
         NEW n \in 0 .. RecordsPerSector, NEW records, ScanStops(b, n, records),
         NEW q \in ScannedSeqs(b, n), \A p \in ScannedSeqs(b, n) : p <= q
  PROVE  q + 1 = hdr[b] + n
<1>1. hdr[b] \in Nat /\ hdr[b] # 0 /\ n \in Nat /\ n <= RecordsPerSector
  BY SlotsAssumption DEF TypeOK, NoHeader
<1>2. \A k \in Slots : k < n => slot[b][k].seq = hdr[b] + k
  BY DEF ScanStops, RecordNumbering
<1>3. hdr[b] - 1 <= q /\ \A k \in Slots : k < n => hdr[b] + k <= q
  BY <1>2 DEF ScannedSeqs
<1>4. q = hdr[b] - 1 \/ \E k \in Slots : k < n /\ q = hdr[b] + k
  BY <1>2 DEF ScannedSeqs
<1>5. CASE n = 0
  BY <1>1, <1>4, <1>5 DEF Slots
<1>6. CASE n > 0
  <2>1. n - 1 \in Slots
    BY <1>1, <1>6, SlotsAssumption DEF Slots
  <2>2. hdr[b] + (n - 1) <= q
    BY <1>1, <1>3, <2>1
  <2> QED
    BY <1>1, <1>4, <2>2 DEF Slots
<1> QED
  BY <1>1, <1>5, <1>6

\* A slot that a write was aimed at and that reads as a valid record holds
\* what it held before, or the record.
LEMMA InterruptedRecord ==
  ASSUME NEW old, NEW rec \in SlotValue, NEW v \in Interrupted(old, rec),
         record_is_valid(v)
  PROVE  v = old \/ v = rec
<1>1. CASE v \in {old, Program(old, rec)}
  BY <1>1 DEF Program, Garbage, record_is_valid
<1>2. CASE \E t \in Tears : v = [rec EXCEPT !.st = t]
  BY <1>2, TearsAssumption DEF record_is_valid, SlotValue
<1> QED
  BY <1>1, <1>2 DEF Interrupted

\* Writing at the cursor keeps the numbers right, torn or not.
LEMMA SetSlotNumbering ==
  ASSUME NumberingInv, Writing, NEW v \in SlotValue, SetSlot(v), UNCHANGED hdr,
         record_is_valid(v) => v = OldSlot \/ v = NewRecord
  PROVE  RecordNumbering'
<1>1. s_cur_slot \in Slots /\ s_cur_sector \in Sectors
  BY WritingType DEF NumberingInv, TypeOK
<1>2. \A s \in Sectors, k \in Slots :
        slot'[s][k] = IF s = s_cur_sector /\ k = s_cur_slot THEN v ELSE slot[s][k]
  BY <1>1 DEF SetSlot, NumberingInv, TypeOK
<1>3. s_ready /\ s_cur_slot < RecordsPerSector
  BY DEF Writing, NumberingInv, LockHolder
<1>4. NewRecord.seq = hdr[s_cur_sector] + s_cur_slot
  BY <1>3 DEF NewRecord, NumberingInv, CursorNumbering
<1> SUFFICES ASSUME NEW s \in Sectors, NEW k \in Slots,
                    hdr[s] # NoHeader, record_is_valid(slot'[s][k])
             PROVE  slot'[s][k].seq = hdr[s] + k
  BY DEF RecordNumbering, record_is_valid
<1> QED
  BY <1>1, <1>2, <1>4 DEF OldSlot, NumberingInv, RecordNumbering

\* A sector that is erased, or half erased, or given its header, holds no
\* record that could be misnumbered.
LEMMA FreshSectorNumbering ==
  ASSUME NumberingInv, NEW h, NEW c,
         hdr' = [hdr EXCEPT ![next] = h], slot' = [slot EXCEPT ![next] = c],
         h = NoHeader \/ c = BlankSlots
  PROVE  RecordNumbering'
<1>1. next \in Sectors
  BY DEF NumberingInv, TypeOK
<1>2. \A s \in Sectors : /\ hdr'[s] = IF s = next THEN h ELSE hdr[s]
                         /\ slot'[s] = IF s = next THEN c ELSE slot[s]
  BY DEF NumberingInv, TypeOK
<1>3. \A k \in Slots : ~record_is_valid(BlankSlots[k])
  BY DEF record_is_valid, BlankSlots, Empty
<1> QED
  BY <1>1, <1>2, <1>3 DEF NumberingInv, RecordNumbering, record_is_valid

\* A write, an erase or a header that is cut short keeps the numbers right.
LEMMA HalfNumbering ==
  ASSUME NumberingInv, HalfWrite \/ HalfErase \/ HalfHeader
  PROVE  RecordNumbering'
<1>1. CASE HalfWrite
  <2>1. Writing /\ UNCHANGED hdr
    BY <1>1 DEF HalfWrite
  <2>2. OldSlot \in SlotValue /\ NewRecord \in SlotValue
    BY <2>1, WritingType DEF NumberingInv
  <2>3. PICK v \in Interrupted(OldSlot, NewRecord) : SetSlot(v)
    BY <1>1 DEF HalfWrite
  <2>4. v \in SlotValue
    BY <2>2, InterruptedType
  <2>5. record_is_valid(v) => v = OldSlot \/ v = NewRecord
    BY <2>2, InterruptedRecord
  <2> QED
    BY <2>1, <2>3, <2>4, <2>5, SetSlotNumbering
<1>2. CASE HalfErase
  <2>1. CASE UNCHANGED flash
    BY <2>1 DEF flash, NumberingInv, RecordNumbering, record_is_valid
  <2>2. CASE ~UNCHANGED flash
    <3>1. PICK c : /\ hdr' = [hdr EXCEPT ![next] = NoHeader]
                   /\ slot' = [slot EXCEPT ![next] = c]
      BY <1>2, <2>2 DEF HalfErase
    <3> QED
      BY <3>1, FreshSectorNumbering
  <2> QED
    BY <2>1, <2>2
<1>3. CASE HalfHeader
  <2>1. slot[next] = BlankSlots /\ next \in Sectors
    BY <1>3 DEF HalfHeader, NumberingInv, LockHolder, TypeOK
  <2>2. slot' = [slot EXCEPT ![next] = BlankSlots]
    BY <1>3, <2>1 DEF HalfHeader, NumberingInv, TypeOK
  <2>3. PICK h : hdr' = [hdr EXCEPT ![next] = h]
    BY <1>3 DEF HalfHeader
  <2> QED
    BY <2>2, <2>3, FreshSectorNumbering
<1> QED
  BY <1>1, <1>2, <1>3

\* Booting puts the cursor behind the last record of the newest sector.
LEMMA BootNumbering == ASSUME NumberingInv, Boot PROVE CursorNumbering'
<1>1. hdr' = hdr
  BY DEF Boot, flash
<1>2. PICK headers \in SUBSET Sectors, records \in SUBSET Slots :
        \/ BootFormat
        \/ \E b \in headers : NewestSector(b, headers) /\ BootResume(b, records)
  BY DEF Boot
<1>3. CASE BootFormat
  BY <1>3 DEF BootFormat, CursorNumbering
<1>4. CASE \E b \in headers : NewestSector(b, headers) /\ BootResume(b, records)
  <2>1. PICK b \in Sectors : NewestSector(b, headers) /\ BootResume(b, records)
    BY <1>4
  <2>2. PICK n \in 0 .. RecordsPerSector :
          /\ ScanStops(b, n, records)
          /\ s_cur_sector' = b
          /\ s_cur_slot' = SlotAfterScan(b, n, records)
          /\ s_last_seq' \in ScannedSeqs(b, n)
          /\ \A q \in ScannedSeqs(b, n) : q <= s_last_seq'
    BY <2>1 DEF BootResume
  <2>3. hdr[b] # NoHeader
    BY <2>1 DEF NewestSector
  <2>4. s_last_seq' + 1 = hdr[b] + n
    BY <2>2, <2>3, ScanRecoversNumber DEF NumberingInv
  <2>5. s_cur_slot' < RecordsPerSector => s_cur_slot' = n
    BY <2>2, SlotsAssumption DEF SlotAfterScan
  <2> QED
    BY <1>1, <2>2, <2>3, <2>4, <2>5 DEF CursorNumbering
<1> QED
  BY <1>2, <1>3, <1>4

\* A step that leaves the flash and the cursor alone keeps the numbers right.
LEMMA IdleNumbering ==
  ASSUME NumberingInv, UNCHANGED <<flash, cursor>>
  PROVE  RecordNumbering' /\ CursorNumbering'
BY Zenon DEF NumberingInv, RecordNumbering, CursorNumbering, record_is_valid,
             flash, cursor

\* With its sector full, or before the log is ready, the cursor has no number.
LEMMA FullCursorNumbering ==
  ASSUME TypeOK', s_ready' => s_cur_slot' >= RecordsPerSector
  PROVE  CursorNumbering'
BY SlotsAssumption DEF CursorNumbering, TypeOK

\* NumberingInv is inductive.
LEMMA NumberingStep == ASSUME NumberingInv, [Next]_vars PROVE NumberingInv'
<1>0. TypeOK /\ TypeOK' /\ LockHolder'
  BY TypeStep, LockHolderStep DEF NumberingInv
<1> SUFFICES RecordNumbering' /\ CursorNumbering'
  BY <1>0 DEF NumberingInv
<1>1. CASE Boot
  <2>1. RecordNumbering'
    BY <1>1 DEF Boot, flash, NumberingInv, RecordNumbering, record_is_valid
  <2> QED
    BY <1>1, <2>1, BootNumbering
<1>2. CASE EraseSector
  <2>1. RecordNumbering'
    BY <1>2, FreshSectorNumbering DEF EraseSector
  <2>2. s_ready => s_cur_slot >= RecordsPerSector
    BY <1>2 DEF EraseSector, NumberingInv, LockHolder
  <2>3. s_cur_slot' = s_cur_slot /\ s_ready' = s_ready
    BY <1>2 DEF EraseSector, cursor
  <2>4. s_ready' => s_cur_slot' >= RecordsPerSector
    BY <2>2, <2>3, Zenon
  <2> QED
    BY <1>0, <2>1, <2>4, FullCursorNumbering
<1>3. CASE WriteHeader
  <2>1. slot[next] = BlankSlots /\ next \in Sectors /\ slot' = slot
    BY <1>3 DEF WriteHeader, NumberingInv, LockHolder, TypeOK
  <2>2. slot' = [slot EXCEPT ![next] = BlankSlots]
    BY <2>1 DEF NumberingInv, TypeOK
  <2>3. RecordNumbering'
    BY <1>3, <2>2, FreshSectorNumbering DEF WriteHeader
  <2>4. /\ hdr'[next] = s_last_seq + 1 /\ s_cur_sector' = next /\ s_cur_slot' = 0
        /\ s_last_seq' = s_last_seq
    BY <1>3, <2>1 DEF WriteHeader, HeaderSeq, CursorAfterAdvance, NumberingInv,
                      TypeOK
  <2>5. CursorNumbering'
    <3>1. s_last_seq \in Nat
      BY <1>0 DEF TypeOK
    <3> QED
      BY <2>4, <3>1 DEF CursorNumbering, NoHeader
  <2> QED
    BY <2>3, <2>5
<1>4. CASE AddRecord \/ Flush \/ FlushDone \/ AdvanceSector \/ UNCHANGED vars
  BY <1>4, IdleNumbering DEF AddRecord, Flush, FlushDone, AdvanceSector, vars
<1>5. CASE WriteRecord
  <2>1. Writing /\ SetSlot(Program(OldSlot, NewRecord)) /\ hdr' = hdr
    BY <1>5 DEF WriteRecord
  <2>2. Program(OldSlot, NewRecord) \in SlotValue
    BY <1>0, <2>1, WritingType, ProgramType
  <2>3. RecordNumbering'
    BY <2>1, <2>2, SetSlotNumbering DEF Program, Garbage, record_is_valid
  <2>4. CursorNumbering'
    <3>1. s_ready /\ s_cur_slot < RecordsPerSector /\ s_cur_slot \in Nat
      BY <1>0, <2>1 DEF Writing, NumberingInv, LockHolder, TypeOK
    <3>2. hdr[s_cur_sector] # NoHeader /\ s_last_seq + 1 = hdr[s_cur_sector] + s_cur_slot
      BY <3>1 DEF NumberingInv, CursorNumbering
    <3>3. s_last_seq \in Nat /\ hdr[s_cur_sector] \in Nat
      BY <1>0 DEF TypeOK
    <3>4. /\ s_last_seq' = s_last_seq + 1 /\ s_cur_slot' = s_cur_slot + 1
          /\ s_cur_sector' = s_cur_sector /\ hdr' = hdr
      BY <1>5 DEF WriteRecord
    <3> QED
      BY <3>1, <3>2, <3>3, <3>4 DEF CursorNumbering
  <2> QED
    BY <2>3, <2>4
<1>6. CASE FlashError /\ s_ready
  <2>1. RecordNumbering'
    BY <1>6, HalfNumbering DEF FlashError
  <2>2. UNCHANGED cursor
    BY <1>6 DEF FlashError
  <2>3. CASE HalfWrite
    BY <2>1, <2>2, <2>3, Zenon
       DEF HalfWrite, NumberingInv, CursorNumbering, cursor
  <2>4. CASE HalfErase \/ HalfHeader
    <3>1. s_cur_slot' >= RecordsPerSector
      BY <1>6, <2>2, <2>4 DEF HalfErase, HalfHeader, NumberingInv, LockHolder, cursor
    <3> QED
      BY <1>0, <2>1, <3>1, FullCursorNumbering
  <2> QED
    BY <1>6, <2>3, <2>4 DEF FlashError
<1>7. CASE (FlashError /\ ~s_ready) \/ PowerLoss
  <2>1. CursorNumbering'
    BY <1>0, <1>7, FullCursorNumbering DEF FlashError, PowerLoss, Reset
  <2>2. CASE HalfWrite \/ HalfErase \/ HalfHeader
    BY <2>1, <2>2, HalfNumbering
  <2>3. CASE UNCHANGED flash
    BY <2>1, <2>3 DEF NumberingInv, RecordNumbering, record_is_valid, flash
  <2> QED
    BY <1>7, <2>2, <2>3 DEF FlashError, PowerLoss
<1> QED
  BY <1>1, <1>2, <1>3, <1>4, <1>5, <1>6, <1>7 DEF Next, LogStep

\* NumberingInv holds in every reachable state.
LEMMA NumberingInvariant == Spec => []NumberingInv
<1>1. Init => NumberingInv
  <2> SUFFICES ASSUME Init PROVE NumberingInv
    OBVIOUS
  <2>1. TypeOK
    BY InitType
  <2> QED
    BY <2>1 DEF Init, NumberingInv, LockHolder, RecordNumbering, CursorNumbering,
                Sectors
<1>2. NumberingInv /\ [Next]_vars => NumberingInv'
  BY NumberingStep
<1> QED
  BY <1>1, <1>2, PTL DEF Spec

\* Every readable record carries the number its place says, whatever part of a
\* write is lost, however often, and whatever cannot be read while booting.
THEOREM RecordNumbersCorrect == Spec => []RecordNumbering
<1>1. NumberingInv => RecordNumbering
  BY DEF NumberingInv
<1> QED
  BY <1>1, NumberingInvariant, PTL

\* So does the record the cursor is about to write.
THEOREM CursorNumberCorrect == Spec => []CursorNumbering
<1>1. NumberingInv => CursorNumbering
  BY DEF NumberingInv
<1> QED
  BY <1>1, NumberingInvariant, PTL

-----------------------------------------------------------------------------
(***************************************************************************)
(* No record is programmed over another or behind an invalid one, as long  *)
(* as no torn record reads as an empty one (a "ghost").  The invariant     *)
(* ties the cursor to the records around it: see CursorTail.               *)
(***************************************************************************)
NoGhost == \A s \in Sectors, k \in Slots : slot[s][k].st # "ghost"

TailInv == TypeOK /\ LockHolder /\ NoGhost /\ NoHiddenRecord /\ CursorTail

\* A retried or first write finds a slot that takes the record as it is, and a
\* write cut short leaves one that will take it.
LEMMA FreeSlot ==
  ASSUME Free(OldSlot), flush_i < Len(s_ram_buf), NEW v
  PROVE  /\ Program(OldSlot, NewRecord) = NewRecord
         /\ v \in Interrupted(OldSlot, NewRecord) =>
              \/ v = OldSlot
              \/ v = NewRecord
              \/ \E t \in Tears : v = [NewRecord EXCEPT !.st = t]
<1>1. Merges(OldSlot, NewRecord)
  BY DEF Free, Merges, NewRecord
<1> QED
  BY <1>1 DEF Program, Interrupted

\* What may stand in the slot at the cursor after a write at it, whole or not.
AtCursor(v) ==
  /\ v \in SlotValue /\ v.st # "ghost"
  /\ v = OldSlot \/ (v.seq = NewRecord.seq /\ v.id = NewRecord.id)

\* A record, and a record cut short, may.
LEMMA WrittenAtCursor ==
  ASSUME TailInv, "ghost" \notin Tears, Writing, NEW v,
         \/ v = Program(OldSlot, NewRecord)
         \/ v \in Interrupted(OldSlot, NewRecord)
  PROVE  AtCursor(v) /\ Free(OldSlot) /\ Free(v)
<1>1. s_ready /\ s_cur_sector \in Sectors /\ s_cur_slot \in Slots
  BY WritingType DEF TailInv, LockHolder, Writing, TypeOK
<1>2. Free(OldSlot)
  BY <1>1 DEF TailInv, CursorTail, OldSlot
<1>3. NewRecord \in SlotValue /\ OldSlot \in SlotValue /\ OldSlot.st # "ghost"
  BY <1>1, WritingType DEF TailInv, NoGhost, OldSlot
<1>4. \/ v = OldSlot
      \/ v = NewRecord
      \/ \E t \in Tears : v = [NewRecord EXCEPT !.st = t]
  BY <1>2, FreeSlot DEF Writing
<1>5. CASE v = OldSlot
  BY <1>2, <1>3, <1>5 DEF AtCursor
<1>6. CASE v = NewRecord
  BY <1>2, <1>3, <1>6 DEF AtCursor, NewRecord, Free, Writing
<1>7. CASE \E t \in Tears : v = [NewRecord EXCEPT !.st = t]
  <2>1. PICK t \in Tears : v = [NewRecord EXCEPT !.st = t]
    BY <1>7
  <2>2. t # "ghost" /\ t \in SlotState
    BY TearsAssumption DEF SlotState
  <2>3. v = [st |-> t, seq |-> NewRecord.seq, id |-> NewRecord.id]
    BY <2>1 DEF NewRecord
  <2>4. v \in SlotValue
    BY <1>3, <2>2, <2>3 DEF SlotValue
  <2> QED
    BY <1>2, <2>2, <2>3, <2>4 DEF AtCursor, Free, Writing, NewRecord
<1> QED
  BY <1>2, <1>4, <1>5, <1>6, <1>7

\* A write at the cursor hides nothing: all before it is valid.
LEMMA SetSlotTail ==
  ASSUME TailInv, Writing, NEW v, AtCursor(v), SetSlot(v), UNCHANGED hdr
  PROVE  /\ NoGhost' /\ NoHiddenRecord'
         /\ s_cur_slot \in Slots /\ s_cur_sector \in Sectors
         /\ \A s \in Sectors, k \in Slots :
              slot'[s][k] = IF s = s_cur_sector /\ k = s_cur_slot
                              THEN v ELSE slot[s][k]
<1>1. s_ready /\ s_cur_sector \in Sectors /\ s_cur_slot \in Slots
  BY WritingType DEF TailInv, LockHolder, Writing, TypeOK
<1>2. \A s \in Sectors, k \in Slots :
        slot'[s][k] = IF s = s_cur_sector /\ k = s_cur_slot THEN v ELSE slot[s][k]
  BY <1>1 DEF SetSlot, TailInv, TypeOK
<1>3. NoGhost'
  BY <1>2 DEF NoGhost, TailInv, AtCursor
<1>4. \A k \in Slots : /\ k < s_cur_slot => record_is_valid(slot[s_cur_sector][k])
                       /\ k > s_cur_slot => slot[s_cur_sector][k].st = "empty"
  BY <1>1 DEF TailInv, CursorTail, Writing
<1>5. NoHiddenRecord'
  <2> SUFFICES ASSUME NEW s \in Sectors, NEW k \in Slots, hdr[s] # NoHeader,
                      slot'[s][k].st # "empty", NEW j \in Slots, j < k
               PROVE  record_is_valid(slot'[s][j])
    BY DEF NoHiddenRecord, record_is_valid
  <2>1. CASE s # s_cur_sector
    BY <1>2, <2>1 DEF TailInv, NoHiddenRecord
  <2>2. CASE s = s_cur_sector
    <3>1. k <= s_cur_slot
      BY <1>1, <1>2, <1>4, <2>2, SlotsAssumption DEF Slots
    <3>2. j < s_cur_slot /\ j # s_cur_slot
      BY <1>1, <3>1, SlotsAssumption DEF Slots
    <3> QED
      BY <1>1, <1>2, <1>4, <2>2, <3>2
  <2> QED
    BY <2>1, <2>2
<1> QED
  BY <1>1, <1>2, <1>3, <1>5

\* A sector that is erased, or half erased, or given its header, hides nothing.
LEMMA FreshSectorTail ==
  ASSUME TailInv, NEW h, NEW c \in {BlankSlots, GarbageSlots},
         hdr' = [hdr EXCEPT ![next] = h], slot' = [slot EXCEPT ![next] = c],
         h = NoHeader \/ c = BlankSlots
  PROVE  NoGhost' /\ NoHiddenRecord'
<1>1. \A s \in Sectors : /\ hdr'[s] = IF s = next THEN h ELSE hdr[s]
                         /\ slot'[s] = IF s = next THEN c ELSE slot[s]
  BY DEF TailInv, TypeOK
<1>2. \A k \in Slots : /\ BlankSlots[k].st = "empty"
                       /\ GarbageSlots[k].st = "torn"
  BY DEF BlankSlots, GarbageSlots, Empty, Garbage
<1>3. NoGhost'
  BY <1>1, <1>2 DEF TailInv, NoGhost
<1>4. NoHiddenRecord'
  BY <1>1, <1>2 DEF TailInv, NoHiddenRecord, record_is_valid
<1> QED
  BY <1>3, <1>4

\* A write, an erase or a header that is cut short hides nothing.
LEMMA HalfTail ==
  ASSUME TailInv, "ghost" \notin Tears, HalfWrite \/ HalfErase \/ HalfHeader
  PROVE  NoGhost' /\ NoHiddenRecord'
<1>1. CASE HalfWrite
  <2>1. Writing /\ UNCHANGED hdr
    BY <1>1 DEF HalfWrite
  <2>2. PICK v \in Interrupted(OldSlot, NewRecord) : SetSlot(v)
    BY <1>1 DEF HalfWrite
  <2> QED
    BY <2>1, <2>2, WrittenAtCursor, SetSlotTail
<1>2. CASE HalfErase
  <2>1. CASE UNCHANGED flash
    BY <2>1 DEF flash, TailInv, NoGhost, NoHiddenRecord, record_is_valid
  <2>2. CASE ~UNCHANGED flash
    <3>1. PICK c \in {BlankSlots, GarbageSlots} :
            /\ hdr' = [hdr EXCEPT ![next] = NoHeader]
            /\ slot' = [slot EXCEPT ![next] = c]
      BY <1>2, <2>2 DEF HalfErase
    <3> QED
      BY <3>1, FreshSectorTail
  <2> QED
    BY <2>1, <2>2
<1>3. CASE HalfHeader
  <2>1. slot[next] = BlankSlots /\ next \in Sectors
    BY <1>3 DEF HalfHeader, TailInv, LockHolder, TypeOK
  <2>2. slot' = [slot EXCEPT ![next] = BlankSlots]
    BY <1>3, <2>1 DEF HalfHeader, TailInv, TypeOK
  <2>3. PICK h : hdr' = [hdr EXCEPT ![next] = h]
    BY <1>3 DEF HalfHeader
  <2> QED
    BY <2>2, <2>3, FreshSectorTail
<1> QED
  BY <1>1, <1>2, <1>3

\* Booting finds a cursor with nothing but blank slots behind it.
LEMMA BootTail == ASSUME TailInv, Boot PROVE CursorTail'
<1>1. hdr' = hdr /\ slot' = slot
  BY DEF Boot, flash
<1>2. PICK headers \in SUBSET Sectors, records \in SUBSET Slots :
        \/ BootFormat
        \/ \E b \in headers : NewestSector(b, headers) /\ BootResume(b, records)
  BY DEF Boot
<1>3. CASE BootFormat
  BY <1>3 DEF BootFormat, CursorTail
<1>4. CASE \E b \in headers : NewestSector(b, headers) /\ BootResume(b, records)
  <2>1. PICK b \in Sectors : NewestSector(b, headers) /\ BootResume(b, records)
    BY <1>4
  <2>2. PICK n \in 0 .. RecordsPerSector :
          /\ ScanStops(b, n, records)
          /\ s_cur_sector' = b
          /\ s_cur_slot' = SlotAfterScan(b, n, records)
          /\ s_cur_slot' >= RecordsPerSector => s_ready' = FALSE
    BY <2>1 DEF BootResume
  <2>3. hdr[b] # NoHeader
    BY <2>1 DEF NewestSector
  <2>4. CASE s_cur_slot' >= RecordsPerSector
    BY <2>2, <2>4 DEF CursorTail
  <2>5. CASE ~(s_cur_slot' >= RecordsPerSector)
    <3>1. s_cur_slot' = n /\ n \in Slots /\ record_is_empty(slot[b][n])
      BY <2>2, <2>5, SlotsAssumption DEF SlotAfterScan
    <3>2. slot[b][n].st = "empty"
      BY <3>1 DEF record_is_empty, TailInv, NoGhost
    <3>3. \A k \in Slots : k < n => record_is_valid(slot[b][k])
      BY <2>2 DEF ScanStops
    <3>4. \A k \in Slots : k > n => slot[b][k].st = "empty"
      BY <2>3, <3>1, <3>2, SlotsAssumption
         DEF TailInv, NoHiddenRecord, record_is_valid, Slots
    <3>5. \A k \in Slots : /\ k < s_cur_slot' => record_is_valid(slot'[b][k])
                           /\ k >= s_cur_slot' => slot'[b][k].st = "empty"
      BY <1>1, <3>1, <3>2, <3>3, <3>4, SlotsAssumption DEF Slots
    <3> QED
      BY <2>2, <3>1, <3>5, SlotsAssumption DEF CursorTail, Free, Slots, record_is_valid
  <2> QED
    BY <2>4, <2>5
<1> QED
  BY <1>2, <1>3, <1>4

\* A buffer that keeps its samples up to flush_i and the next one keeps a free
\* slot free.
LEMMA StaysFree ==
  ASSUME NEW v, Free(v), s_last_seq' = s_last_seq,
         flush_i < Len(s_ram_buf) =>
           /\ flush_i' < Len(s_ram_buf')
           /\ s_ram_buf'[flush_i' + 1] = s_ram_buf[flush_i + 1]
  PROVE  (v.st = "empty" \/ flush_i < Len(s_ram_buf)) /\ Free(v)'
BY DEF Free

\* What AddRecord does to the buffer keeps a free slot free.
LEMMA AddRecordFree ==
  ASSUME TypeOK, AddRecord
  PROVE  flush_i < Len(s_ram_buf) =>
           /\ flush_i' < Len(s_ram_buf')
           /\ s_ram_buf'[flush_i' + 1] = s_ram_buf[flush_i + 1]
<1> DEFINE more == Append(s_ram_buf, sampled + 1)
<1>1. /\ s_ram_buf' = s_ram_buf \/ s_ram_buf' = more
      /\ flush_i' = flush_i
  BY DEF AddRecord
<1>2. sampled + 1 \in Nat /\ Len(s_ram_buf) \in Nat
  BY BoundsAssumption DEF TypeOK
<1>3. /\ Len(more) = Len(s_ram_buf) + 1
      /\ \A j \in 1 .. Len(s_ram_buf) : more[j] = s_ram_buf[j]
  BY <1>2, AppendProperties DEF TypeOK
<1> HIDE DEF more
<1>4. flush_i < Len(s_ram_buf) => flush_i + 1 \in 1 .. Len(s_ram_buf)
  BY DEF TypeOK
<1>5. CASE s_ram_buf' = s_ram_buf
  BY <1>1, <1>5
<1>6. CASE s_ram_buf' = more
  BY <1>1, <1>2, <1>3, <1>4, <1>6 DEF TypeOK
<1> QED
  BY <1>1, <1>5, <1>6

\* A call that does not touch the flash leaves the slot at the cursor free.
LEMMA CallTail ==
  ASSUME TailInv, AddRecord \/ Flush \/ FlushDone \/ AdvanceSector
  PROVE  NoGhost' /\ NoHiddenRecord' /\ CursorTail'
<1>1. /\ hdr' = hdr /\ slot' = slot /\ s_cur_sector' = s_cur_sector
      /\ s_cur_slot' = s_cur_slot /\ s_last_seq' = s_last_seq
      /\ s_ready' = s_ready
  BY DEF AddRecord, Flush, FlushDone, AdvanceSector, flash, cursor
<1>2. NoGhost' /\ NoHiddenRecord'
  BY <1>1 DEF TailInv, NoGhost, NoHiddenRecord, record_is_valid
<1>3. flush_i < Len(s_ram_buf) =>
        /\ flush_i' < Len(s_ram_buf')
        /\ s_ram_buf'[flush_i' + 1] = s_ram_buf[flush_i + 1]
  <2>1. CASE AddRecord
    BY <2>1, AddRecordFree DEF TailInv
  <2>2. CASE Flush \/ AdvanceSector
    BY <2>2 DEF Flush, AdvanceSector, buffer
  <2>3. CASE FlushDone
    <3>1. flush_i = Len(s_ram_buf) /\ flush_i \in Nat
      BY <2>3 DEF FlushDone, TailInv, TypeOK
    <3> QED
      BY <3>1
  <2> QED
    BY <2>1, <2>2, <2>3
<1>4. CursorTail'
  BY <1>1, <1>3, Zenon DEF TailInv, CursorTail, Free
<1> QED
  BY <1>2, <1>4

\* With its sector full the cursor stands at no slot.
LEMMA FullCursorTail ==
  ASSUME TypeOK, TypeOK', s_ready' => s_cur_slot' >= RecordsPerSector
  PROVE  CursorTail'
<1> SUFFICES ASSUME s_ready' PROVE CursorTail'
  BY DEF CursorTail
<1>0. s_cur_slot' \in Nat /\ s_cur_slot' >= RecordsPerSector /\ RecordsPerSector \in Nat
  BY SlotsAssumption DEF TypeOK
<1>1. \A k \in Slots : k < s_cur_slot' /\ ~(s_cur_slot' < RecordsPerSector)
  BY <1>0 DEF Slots
<1>2. \A k \in Slots : k # s_cur_slot' /\ ~(k > s_cur_slot')
  BY <1>0 DEF Slots
<1> QED
  BY <1>1, <1>2, Zenon DEF CursorTail

\* TailInv is inductive when a torn record never reads as an empty one.
LEMMA TailStep ==
  ASSUME TailInv, "ghost" \notin Tears, [Next]_vars PROVE TailInv'
<1>0. TypeOK /\ TypeOK' /\ LockHolder'
  BY TypeStep, LockHolderStep DEF TailInv
<1> SUFFICES NoGhost' /\ NoHiddenRecord' /\ CursorTail'
  BY <1>0 DEF TailInv
<1>1. CASE Boot
  <2>1. NoGhost' /\ NoHiddenRecord'
    BY <1>1 DEF Boot, flash, TailInv, NoGhost, NoHiddenRecord, record_is_valid
  <2> QED
    BY <1>1, <2>1, BootTail
<1>2. CASE EraseSector
  <2>1. NoGhost' /\ NoHiddenRecord'
    BY <1>2, FreshSectorTail DEF EraseSector
  <2>2. s_ready => s_cur_slot >= RecordsPerSector
    BY <1>2 DEF EraseSector, TailInv, LockHolder
  <2>3. s_ready' = s_ready /\ s_cur_slot' = s_cur_slot
    BY <1>2 DEF EraseSector, cursor
  <2>4. s_ready' => s_cur_slot' >= RecordsPerSector
    BY <2>2, <2>3, Zenon
  <2> QED
    BY <1>0, <2>1, <2>4, FullCursorTail
<1>3. CASE WriteHeader
  <2>1. slot[next] = BlankSlots /\ next \in Sectors /\ slot' = slot
    BY <1>3 DEF WriteHeader, TailInv, LockHolder, TypeOK
  <2>2. slot' = [slot EXCEPT ![next] = BlankSlots]
    BY <2>1 DEF TailInv, TypeOK
  <2>3. NoGhost' /\ NoHiddenRecord'
    BY <1>3, <2>2, FreshSectorTail DEF WriteHeader
  <2>4. s_cur_sector' = next /\ s_cur_slot' = 0
    BY <1>3 DEF WriteHeader, CursorAfterAdvance
  <2>5. \A k \in Slots : slot'[next][k].st = "empty"
    BY <2>1 DEF BlankSlots, Empty
  <2> QED
    BY <2>3, <2>4, <2>5 DEF CursorTail, Free, Slots
<1>4. CASE AddRecord \/ Flush \/ FlushDone \/ AdvanceSector
  BY <1>4, CallTail
<1>5. CASE WriteRecord
  <2> DEFINE v == Program(OldSlot, NewRecord)
  <2>1. Writing /\ SetSlot(v) /\ UNCHANGED hdr
    BY <1>5 DEF WriteRecord
  <2>2. AtCursor(v) /\ v = NewRecord
    BY <2>1, WrittenAtCursor, FreeSlot DEF Writing
  <2> HIDE DEF v
  <2>3. /\ NoGhost' /\ NoHiddenRecord'
        /\ s_cur_slot \in Slots /\ s_cur_sector \in Sectors
        /\ \A s \in Sectors, k \in Slots :
             slot'[s][k] = IF s = s_cur_sector /\ k = s_cur_slot
                             THEN v ELSE slot[s][k]
    BY <2>1, <2>2, SetSlotTail
  <2>4. /\ s_cur_sector' = s_cur_sector /\ s_cur_slot' = s_cur_slot + 1
        /\ s_ready
    BY <1>5, <2>1 DEF WriteRecord, Writing, TailInv, LockHolder
  <2>5. record_is_valid(v)
    BY <2>2 DEF NewRecord, record_is_valid
  <2>6. \A k \in Slots :
          /\ k < s_cur_slot' => record_is_valid(slot'[s_cur_sector][k])
          /\ k >= s_cur_slot' => slot'[s_cur_sector][k].st = "empty"
    <3> TAKE k \in Slots
    <3>1. /\ k < s_cur_slot => record_is_valid(slot[s_cur_sector][k])
          /\ k > s_cur_slot => slot[s_cur_sector][k].st = "empty"
      BY <2>1, <2>4 DEF TailInv, CursorTail, Writing
    <3> QED
      BY <2>3, <2>4, <2>5, <3>1, SlotsAssumption DEF Slots
  <2>7. CursorTail'
    BY <2>3, <2>4, <2>6, SlotsAssumption DEF CursorTail, Free, Slots, record_is_valid
  <2> QED
    BY <2>3, <2>7
<1>6. CASE FlashError /\ s_ready
  <2>1. NoGhost' /\ NoHiddenRecord'
    BY <1>6, HalfTail DEF FlashError
  <2>2. FinishFlush(flush_i) /\ flush_i \in 0 .. Len(s_ram_buf) /\ UNCHANGED cursor
    BY <1>6 DEF FlashError, TailInv, TypeOK
  <2>3. CASE HalfWrite
    <3>1. Writing /\ UNCHANGED hdr
      BY <2>3 DEF HalfWrite
    <3>2. PICK v \in Interrupted(OldSlot, NewRecord) : SetSlot(v)
      BY <2>3 DEF HalfWrite
    <3>3. AtCursor(v) /\ Free(v)
      BY <3>1, WrittenAtCursor
    <3>4. /\ flush_i < Len(s_ram_buf)
          /\ flush_i' < Len(s_ram_buf')
          /\ s_ram_buf'[flush_i' + 1] = s_ram_buf[flush_i + 1]
      BY <2>2, <3>1, FinishFlushBuffer DEF Writing, TailInv
    <3>5. Free(v)'
      BY <2>2, <3>3, <3>4, StaysFree DEF cursor
    <3>6. /\ s_cur_slot \in Slots /\ s_cur_sector \in Sectors
          /\ \A s \in Sectors, k \in Slots :
               slot'[s][k] = IF s = s_cur_sector /\ k = s_cur_slot
                               THEN v ELSE slot[s][k]
      BY <3>1, <3>2, <3>3, SetSlotTail
    <3>7. s_ready /\ s_cur_sector' = s_cur_sector /\ s_cur_slot' = s_cur_slot
      BY <1>6, <2>2 DEF cursor
    <3>8. \A k \in Slots :
            /\ k < s_cur_slot => record_is_valid(slot'[s_cur_sector][k])
            /\ k = s_cur_slot => slot'[s_cur_sector][k] = v
            /\ k > s_cur_slot => slot'[s_cur_sector][k].st = "empty"
      BY <3>1, <3>6, <3>7, SlotsAssumption DEF TailInv, CursorTail, Writing, Slots
    <3>9. CursorTail'
      BY <3>5, <3>7, <3>8 DEF CursorTail, Free, record_is_valid
    <3> QED
      BY <2>1, <3>9
  <2>4. CASE HalfErase \/ HalfHeader
    <3>1. s_cur_slot' >= RecordsPerSector
      BY <1>6, <2>2, <2>4 DEF HalfErase, HalfHeader, TailInv, LockHolder, cursor
    <3> QED
      BY <1>0, <2>1, <3>1, FullCursorTail
  <2> QED
    BY <1>6, <2>3, <2>4 DEF FlashError
<1>7. CASE (FlashError /\ ~s_ready) \/ PowerLoss
  <2>1. s_ready' = FALSE
    BY <1>7 DEF FlashError, PowerLoss, Reset
  <2>2. CASE HalfWrite \/ HalfErase \/ HalfHeader
    BY <2>1, <2>2, HalfTail DEF CursorTail
  <2>3. CASE UNCHANGED flash
    BY <2>1, <2>3 DEF TailInv, NoGhost, NoHiddenRecord, CursorTail,
                      record_is_valid, flash
  <2> QED
    BY <1>7, <2>2, <2>3 DEF FlashError, PowerLoss
<1>8. CASE UNCHANGED vars
  BY <1>8, Zenon DEF vars, flash, cursor, buffer, TailInv, NoGhost,
                     NoHiddenRecord, CursorTail, Free, record_is_valid
<1> QED
  BY <1>1, <1>2, <1>3, <1>4, <1>5, <1>6, <1>7, <1>8 DEF Next, LogStep

\* TailInv holds in every reachable state.
LEMMA TailInvariant ==
  ASSUME "ghost" \notin Tears PROVE Spec => []TailInv
<1>1. Init => TailInv
  <2> SUFFICES ASSUME Init PROVE TailInv
    OBVIOUS
  <2>1. TypeOK
    BY InitType
  <2>2. NoGhost
    BY DEF Init, NoGhost, BlankSlots, GarbageSlots, Empty, Garbage
  <2> QED
    BY <2>1, <2>2 DEF Init, TailInv, LockHolder, NoHiddenRecord, CursorTail
<1>2. TailInv /\ [Next]_vars => TailInv'
  BY TailStep
<1> QED
  BY <1>1, <1>2, PTL DEF Spec

\* Nothing is programmed behind a slot that is not valid, so no record is out
\* of reach of ntc_history_iterate and of the boot scan, through any number of
\* torn records, failed writes, unreadable sectors and restarts.
THEOREM NoRecordHidden ==
  ASSUME "ghost" \notin Tears PROVE Spec => []NoHiddenRecord
<1>1. TailInv => NoHiddenRecord
  BY DEF TailInv
<1> QED
  BY <1>1, TailInvariant, PTL

\* The cursor stands right behind the last record of its sector.
THEOREM CursorAtTail ==
  ASSUME "ghost" \notin Tears PROVE Spec => []CursorTail
<1>1. TailInv => CursorTail
  BY DEF TailInv
<1> QED
  BY <1>1, TailInvariant, PTL

\* A step writes over a used slot only to repeat its record, or by an erase.
LEMMA WriteOnceStep ==
  ASSUME TailInv, "ghost" \notin Tears, [Next]_vars,
         NEW s \in Sectors, NEW k \in Slots,
         slot'[s][k] # slot[s][k], slot[s][k].st # "empty"
  PROVE  \/ pc = "erase" /\ s = next
         \/ slot'[s][k].seq = slot[s][k].seq /\ slot'[s][k].id = slot[s][k].id
<1>1. ASSUME Writing, UNCHANGED hdr, NEW v, SetSlot(v), AtCursor(v), Free(OldSlot)
      PROVE  slot'[s][k].seq = slot[s][k].seq /\ slot'[s][k].id = slot[s][k].id
  <2>1. slot'[s][k] = IF s = s_cur_sector /\ k = s_cur_slot THEN v ELSE slot[s][k]
    BY <1>1, SetSlotTail
  <2>2. slot'[s][k] = v /\ slot[s][k] = OldSlot
    BY <2>1 DEF OldSlot
  <2>3. v.seq = NewRecord.seq /\ v.id = NewRecord.id
    BY <2>2, <1>1 DEF AtCursor
  <2> QED
    BY <1>1, <2>2, <2>3 DEF Free, NewRecord
<1>2. CASE HalfWrite
  <2>1. PICK v \in Interrupted(OldSlot, NewRecord) : SetSlot(v)
    BY <1>2 DEF HalfWrite
  <2> QED
    BY <1>1, <1>2, <2>1, WrittenAtCursor DEF HalfWrite
<1>3. CASE WriteRecord
  BY <1>1, <1>3, WrittenAtCursor DEF WriteRecord
<1>4. CASE EraseSector \/ HalfErase
  BY <1>4 DEF EraseSector, HalfErase, flash, TailInv, TypeOK
<1>5. slot' # slot
  OBVIOUS
<1>6. HalfWrite \/ WriteRecord \/ EraseSector \/ HalfErase
  BY <1>5 DEF Next, LogStep, Boot, WriteHeader, AddRecord, Flush, FlushDone,
              AdvanceSector, FlashError, PowerLoss, HalfHeader, vars, flash
<1> QED
  BY <1>2, <1>3, <1>4, <1>6

\* No record is ever programmed over another one: flash that has been written
\* is only ever written again with the same record, or erased.
THEOREM RecordsWrittenOnce ==
  ASSUME "ghost" \notin Tears PROVE Spec => WriteOnce
<1>1. TailInv /\ [Next]_vars =>
        [\A s \in Sectors, k \in Slots :
           slot'[s][k] # slot[s][k] /\ slot[s][k].st # "empty"
             => \/ pc = "erase" /\ s = next
                \/ /\ slot'[s][k].seq = slot[s][k].seq
                   /\ slot'[s][k].id = slot[s][k].id]_vars
  BY WriteOnceStep
<1> QED
  BY <1>1, TailInvariant, PTL DEF Spec, WriteOnce

=============================================================================
