----------------------------- MODULE NtcHistory -----------------------------
(***************************************************************************)
(* The flash ring log of main/ntc_history.c: ntc_history_init,             *)
(* ntc_history_add_record, ntc_history_flush and everything they call.     *)
(*                                                                         *)
(* The "storage" partition is NumSectors sectors.  A sector is a header    *)
(* (the sequence number of its first record) followed by RecordsPerSector  *)
(* record slots.  Samples are collected in a RAM buffer of RamRecords and  *)
(* written out when it is full; when the current sector is full the next   *)
(* one of the ring is erased and gets a header.  At boot the log is found  *)
(* again by reading the headers and scanning the newest sector.            *)
(*                                                                         *)
(* Every flash operation is a step of its own, because it can fail with    *)
(* any part of its effect done (FlashError) and the device can lose power  *)
(* in the middle of it (PowerLoss).  What runs between two flash           *)
(* operations runs under s_lock and touches RAM only, so it belongs to the *)
(* step of the operation before it.  pc names the operation the holder of  *)
(* s_lock does next; "idle" is the lock being free.                        *)
(*                                                                         *)
(* Data is abstracted: a sample (timestamp and ten temperatures) is its    *)
(* number in the order of the calls to ntc_history_add_record, and a CRC   *)
(* is the statement that what it covers was programmed completely.         *)
(* Sequence numbers are uint32_t in the code; at one record per 120        *)
(* seconds they do not reach 2^32-1 in 16000 years, so they are Nat here   *)
(* and MaxSamples bounds them.                                             *)
(***************************************************************************)
EXTENDS Integers, Sequences, FiniteSets

CONSTANTS
  NumSectors,        \* s_sector_count: the size of the partition in sectors
  RecordsPerSector,  \* RECORDS_PER_SECTOR
  RamRecords,        \* RAM_BUFFER_RECORDS
  Tears,             \* what an interrupted write may leave in a blank slot
  ReadsFail,         \* whether esp_partition_read may fail while booting
  MaxSamples,        \* bound: calls to ntc_history_add_record
  MaxFaults          \* bound: flash errors and power losses

\* ntc_history_init leaves the log off when the partition is missing, has
\* another erase size or holds no sector; partitions.csv excludes all three.
ASSUME SectorsAssumption == NumSectors \in Nat \ {0}
ASSUME SlotsAssumption == RecordsPerSector \in Nat \ {0}
ASSUME RamAssumption == RamRecords \in Nat \ {0}
ASSUME TearsAssumption == Tears \subseteq {"torn", "ghost"}
ASSUME ReadsFailAssumption == ReadsFail \in BOOLEAN
ASSUME BoundsAssumption == MaxSamples \in Nat /\ MaxFaults \in Nat

VARIABLES
  hdr,           \* flash: seq_start of each sector's header, NoHeader if none
  slot,          \* flash: the record slots of each sector
  s_cur_sector, s_cur_slot, s_last_seq, s_ready,    \* the write cursor, in RAM
  s_ram_buf,     \* the buffered samples, oldest first
  flush_i,       \* i of flush_locked: buffered samples already on flash
  pend,          \* r of ntc_history_add_record, while a flush precedes it
  next,          \* next of advance_sector
  pc,            \* the next flash operation of the holder of s_lock
  sampled,       \* calls to ntc_history_add_record so far
  faults         \* flash errors and power losses so far

flash == <<hdr, slot>>
cursor == <<s_cur_sector, s_cur_slot, s_last_seq, s_ready>>
buffer == <<s_ram_buf, flush_i, pend>>
vars == <<flash, cursor, buffer, next, pc, sampled, faults>>

Sectors == 0 .. NumSectors - 1
Slots == 0 .. RecordsPerSector - 1
NoHeader == 0
NoSample == 0

(***************************************************************************)
(* Flash contents.  A slot is "empty" (all ones), "valid" (seq neither 0   *)
(* nor all ones and the CRC matches), "torn" (neither) or a "ghost": part  *)
(* of a record is programmed but its seq still reads all ones.  A flash    *)
(* that programs the 32 bytes in address order leaves no ghosts.           *)
(***************************************************************************)
SlotState == {"empty", "valid", "torn", "ghost"}
SlotValue == [st : SlotState, seq : Nat, id : Nat]
Empty == [st |-> "empty", seq |-> 0, id |-> NoSample]
Garbage == [st |-> "torn", seq |-> 0, id |-> NoSample]

record_is_empty(r) == r.st \in {"empty", "ghost"}
record_is_valid(r) == r.st = "valid"

BlankSlots == [k \in Slots |-> Empty]
GarbageSlots == [k \in Slots |-> Garbage]

\* Programming only clears bits: over a blank slot, or over a part of the same
\* record, it yields the record; over anything else it yields neither.
Merges(old, rec) == old.st = "empty" \/ (old.seq = rec.seq /\ old.id = rec.id)
Program(old, rec) == IF Merges(old, rec) THEN rec ELSE Garbage

\* What a write that fails, or is cut by a power loss, may leave.
Interrupted(old, rec) ==
  {old, Program(old, rec)} \cup
  {[rec EXCEPT !.st = t] : t \in IF Merges(old, rec) /\ record_is_empty(old)
                                   THEN Tears ELSE {}}

-----------------------------------------------------------------------------
(***************************************************************************)
(* ntc_history_init: finding the log again.                                *)
(***************************************************************************)
\* Mutant of NewestSector: the log is taken to end in the last used sector.
NewestIsLast(b, readable) ==
  /\ b \in readable /\ hdr[b] # NoHeader
  /\ \A s \in readable : hdr[s] = NoHeader \/ s <= b

\* The sector with the highest seq_start among the readable headers; the scan
\* replaces its candidate only by a strictly higher one, so the first wins.
NewestSector(b, readable) ==
  /\ b \in readable /\ hdr[b] # NoHeader
  /\ \A s \in readable : hdr[s] < hdr[b] \/ (hdr[s] = hdr[b] /\ b <= s)

\* scan_current_sector_tail stops at slot n: the first one that cannot be read
\* or holds no valid record.
ScanStops(b, n, readable) ==
  /\ \A k \in Slots : k < n => k \in readable /\ record_is_valid(slot[b][k])
  /\ n \in Slots => n \notin readable \/ ~record_is_valid(slot[b][n])

\* Mutants of SlotAfterScan: an invalid record is taken for a free slot; so is
\* one that cannot be read; every boot starts a new sector.
ReuseInvalid(b, n, readable) ==
  IF n \in Slots /\ n \in readable THEN n ELSE RecordsPerSector
ReuseUnreadable(b, n, readable) ==
  IF n \in Slots /\ (n \notin readable \/ record_is_empty(slot[b][n]))
    THEN n ELSE RecordsPerSector
CloseAlways(b, n, readable) == RecordsPerSector

\* A read error and an invalid record close the sector.
SlotAfterScan(b, n, readable) ==
  IF n \in Slots /\ n \in readable /\ record_is_empty(slot[b][n])
    THEN n ELSE RecordsPerSector

\* Mutant of ScannedSeqs: seq_start is taken for the last number used.
ScanFromStart(b, n) ==
  {hdr[b]} \cup {slot[b][k].seq : k \in {j \in Slots : j < n}}

\* s_last_seq starts one below seq_start and follows the scanned records.
ScannedSeqs(b, n) ==
  {hdr[b] - 1} \cup {slot[b][k].seq : k \in {j \in Slots : j < n}}

\* Mutant of NextSector: the ring is not closed.
NoWrap(s) == s + 1

NextSector(s) == (s + 1) % NumSectors

\* No valid header: format sector 0 with seq_start 1.
BootFormat ==
  /\ s_cur_sector' = 0 /\ s_cur_slot' = 0 /\ s_last_seq' = 0
  /\ next' = 0 /\ pc' = "erase" /\ s_ready' = FALSE

\* Resume in the newest sector, or advance at once when it is closed.
BootResume(b, records) ==
  \E n \in 0 .. RecordsPerSector :
    /\ ScanStops(b, n, records)
    /\ s_cur_sector' = b
    /\ s_cur_slot' = SlotAfterScan(b, n, records)
    /\ s_last_seq' \in ScannedSeqs(b, n)
    /\ \A q \in ScannedSeqs(b, n) : q <= s_last_seq'
    /\ IF s_cur_slot' >= RecordsPerSector
         THEN next' = NextSector(b) /\ pc' = "erase" /\ s_ready' = FALSE
         ELSE next' = 0 /\ pc' = "idle" /\ s_ready' = TRUE

\* headers and records are what can be read in this boot.
Boot ==
  /\ pc = "boot"
  /\ \E headers \in SUBSET Sectors, records \in SUBSET Slots :
       /\ \/ headers = Sectors /\ records = Slots /\ UNCHANGED faults
          \/ ReadsFail /\ faults < MaxFaults /\ faults' = faults + 1
       /\ \/ (\A s \in headers : hdr[s] = NoHeader) /\ BootFormat
          \/ \E b \in headers : NewestSector(b, headers) /\ BootResume(b, records)
  /\ UNCHANGED <<flash, buffer, sampled>>

-----------------------------------------------------------------------------
(***************************************************************************)
(* advance_sector, and the formatting of sector 0, which has its shape:    *)
(* erase a sector, write its header, move the cursor to it.                *)
(***************************************************************************)
EraseSector ==
  /\ pc = "erase"
  /\ hdr' = [hdr EXCEPT ![next] = NoHeader]
  /\ slot' = [slot EXCEPT ![next] = BlankSlots]
  /\ pc' = "header"
  /\ UNCHANGED <<cursor, buffer, next, sampled, faults>>

\* Mutant of HeaderSeq: the header repeats the number of the last record.
HeaderRepeats == s_last_seq

HeaderSeq == s_last_seq + 1

\* Mutant of CursorAfterAdvance: s_cur_slot is not reset.
CursorKeepsSlot == s_cur_sector' = next /\ s_cur_slot' = s_cur_slot

CursorAfterAdvance == s_cur_sector' = next /\ s_cur_slot' = 0

\* While booting this ends ntc_history_init; otherwise write_one_record goes
\* on with the record that needed the sector.
WriteHeader ==
  /\ pc = "header"
  /\ hdr' = [hdr EXCEPT ![next] = HeaderSeq]
  /\ CursorAfterAdvance
  /\ s_ready' = TRUE
  /\ pc' = IF s_ready THEN "flush" ELSE "idle"
  /\ next' = 0
  /\ UNCHANGED <<slot, s_last_seq, buffer, sampled, faults>>

-----------------------------------------------------------------------------
(***************************************************************************)
(* ntc_history_add_record, ntc_history_flush and flush_locked.             *)
(***************************************************************************)
AddRecord ==
  /\ pc = "idle" /\ s_ready /\ sampled < MaxSamples
  /\ sampled' = sampled + 1
  /\ IF Len(s_ram_buf) >= RamRecords
       THEN pend' = sampled + 1 /\ pc' = "flush" /\ UNCHANGED s_ram_buf
       ELSE /\ s_ram_buf' = Append(s_ram_buf, sampled + 1)
            /\ pc' = IF Len(s_ram_buf) + 1 >= RamRecords THEN "flush" ELSE "idle"
            /\ UNCHANGED pend
  /\ UNCHANGED <<flash, cursor, flush_i, next, faults>>

Flush ==
  /\ pc = "idle" /\ s_ready
  /\ pc' = "flush"
  /\ UNCHANGED <<flash, cursor, buffer, next, sampled, faults>>

\* Mutant of FlushKeeps: the buffer is emptied whatever was written.
DropRest(i) == <<>>

\* What flush_locked keeps after writing i samples, also when it breaks off.
FlushKeeps(i) == SubSeq(s_ram_buf, i + 1, Len(s_ram_buf))

\* flush_locked returns with i samples written.  The caller may be waiting to
\* store r: it does if there is room, and flushes again if the buffer is full.
FinishFlush(i) ==
  LET kept == FlushKeeps(i)
      admits == pend # NoSample /\ Len(kept) < RamRecords
      buf == IF admits THEN Append(kept, pend) ELSE kept
  IN /\ s_ram_buf' = buf
     /\ flush_i' = 0
     /\ pend' = NoSample
     /\ pc' = IF pend # NoSample /\ Len(buf) >= RamRecords THEN "flush" ELSE "idle"

FlushDone ==
  /\ pc = "flush" /\ flush_i = Len(s_ram_buf)
  /\ FinishFlush(flush_i)
  /\ UNCHANGED <<flash, cursor, next, sampled, faults>>

\* write_one_record finds the sector full and enters advance_sector.
AdvanceSector ==
  /\ pc = "flush" /\ flush_i < Len(s_ram_buf)
  /\ s_cur_slot >= RecordsPerSector
  /\ next' = NextSector(s_cur_sector)
  /\ pc' = "erase"
  /\ UNCHANGED <<flash, cursor, buffer, sampled, faults>>

Writing ==
  pc = "flush" /\ flush_i < Len(s_ram_buf) /\ s_cur_slot < RecordsPerSector
OldSlot == slot[s_cur_sector][s_cur_slot]
NewRecord == [st |-> "valid", seq |-> s_last_seq + 1, id |-> s_ram_buf[flush_i + 1]]
SetSlot(v) == slot' = [slot EXCEPT ![s_cur_sector][s_cur_slot] = v]

WriteRecord ==
  /\ Writing
  /\ SetSlot(Program(OldSlot, NewRecord))
  /\ s_last_seq' = s_last_seq + 1
  /\ s_cur_slot' = s_cur_slot + 1
  /\ flush_i' = flush_i + 1
  /\ UNCHANGED <<hdr, s_cur_sector, s_ready, s_ram_buf, pend, next, pc,
                 sampled, faults>>

-----------------------------------------------------------------------------
(***************************************************************************)
(* Faults.                                                                 *)
(***************************************************************************)
\* RAM after a reset.
Reset ==
  /\ s_cur_sector' = 0 /\ s_cur_slot' = 0 /\ s_last_seq' = 0 /\ s_ready' = FALSE
  /\ s_ram_buf' = <<>> /\ flush_i' = 0 /\ pend' = NoSample
  /\ next' = 0 /\ pc' = "boot"

HalfWrite ==
  /\ Writing
  /\ \E v \in Interrupted(OldSlot, NewRecord) : SetSlot(v)
  /\ UNCHANGED hdr

\* An erase that is cut off has not begun, or has blanked or garbled the sector; one
\* that lets the header survive a part of the slots is left out.
HalfErase ==
  /\ pc = "erase"
  /\ \/ UNCHANGED flash
     \/ /\ hdr' = [hdr EXCEPT ![next] = NoHeader]
        /\ \E c \in {BlankSlots, GarbageSlots} : slot' = [slot EXCEPT ![next] = c]

\* The header lies in an erased sector: without its last bits it is none.
HalfHeader ==
  /\ pc = "header"
  /\ \E h \in {NoHeader, HeaderSeq} : hdr' = [hdr EXCEPT ![next] = h]
  /\ UNCHANGED slot

\* A flash operation returns an error.  flush_locked breaks off; while booting
\* ESP_ERROR_CHECK aborts, and the panic handler reboots.
FlashError ==
  /\ faults < MaxFaults
  /\ faults' = faults + 1
  /\ HalfWrite \/ HalfErase \/ HalfHeader
  /\ IF s_ready
       THEN FinishFlush(flush_i) /\ next' = 0 /\ UNCHANGED cursor
       ELSE Reset
  /\ UNCHANGED sampled

\* Power is lost, or esp_restart is called, in or between flash operations.
PowerLoss ==
  /\ pc # "boot"
  /\ faults < MaxFaults
  /\ faults' = faults + 1
  /\ HalfWrite \/ HalfErase \/ HalfHeader \/ UNCHANGED flash
  /\ Reset
  /\ UNCHANGED sampled

-----------------------------------------------------------------------------
\* The partition of a new device: erased, or filled by something else.
Init ==
  /\ hdr = [s \in Sectors |-> NoHeader]
  /\ \E c \in {BlankSlots, GarbageSlots} : slot = [s \in Sectors |-> c]
  /\ s_cur_sector = 0 /\ s_cur_slot = 0 /\ s_last_seq = 0 /\ s_ready = FALSE
  /\ s_ram_buf = <<>> /\ flush_i = 0 /\ pend = NoSample
  /\ next = 0 /\ pc = "boot" /\ sampled = 0 /\ faults = 0

LogStep == EraseSector \/ WriteHeader \/ FlushDone \/ AdvanceSector \/ WriteRecord

Next == Boot \/ LogStep \/ AddRecord \/ Flush \/ FlashError \/ PowerLoss

Spec == Init /\ [][Next]_vars

-----------------------------------------------------------------------------
(***************************************************************************)
(* Properties.                                                             *)
(***************************************************************************)
TypeOK ==
  /\ hdr \in [Sectors -> Nat]
  /\ slot \in [Sectors -> [Slots -> SlotValue]]
  /\ s_cur_sector \in Sectors
  /\ s_cur_slot \in 0 .. RecordsPerSector
  /\ s_last_seq \in Nat
  /\ s_ready \in BOOLEAN
  /\ s_ram_buf \in Seq(Nat) /\ Len(s_ram_buf) <= RamRecords
  /\ flush_i \in 0 .. Len(s_ram_buf)
  /\ pend \in Nat
  /\ next \in Sectors
  /\ pc \in {"boot", "erase", "header", "idle", "flush"}
  /\ sampled \in 0 .. MaxSamples
  /\ faults \in 0 .. MaxFaults

\* A record ntc_history_iterate would reach: its sector has a header and no
\* slot before it makes the loop break.
Visible(s, k) == hdr[s] # NoHeader /\ \A j \in 0 .. k : record_is_valid(slot[s][j])
VisibleIds ==
  {slot[p[1]][p[2]].id : p \in {q \in Sectors \X Slots : Visible(q[1], q[2])}}

\* The order in which ntc_history_iterate emits the records of two slots.
Before(s, j, t, k) == hdr[s] < hdr[t] \/ (s = t /\ j < k)

\* Every record carries the sequence number its place says: seq_start of its
\* sector plus its slot.  (advance_sector, write_one_record and the recovery
\* of s_last_seq in ntc_history_init have to agree for this, over crashes.)
RecordNumbering ==
  \A s \in Sectors, k \in Slots :
    hdr[s] # NoHeader /\ record_is_valid(slot[s][k])
      => slot[s][k].seq = hdr[s] + k

\* No record is hidden: the readers and the boot scan stop at the first slot
\* that is not valid, so nothing may be programmed behind one.
NoHiddenRecord ==
  \A s \in Sectors, k \in Slots :
    hdr[s] # NoHeader /\ slot[s][k].st # "empty"
      => \A j \in Slots : j < k => record_is_valid(slot[s][j])

\* The RAM cursor agrees with the flash it points into: the record written
\* next gets the number its place says.  (Boot has to find the cursor there, and
\* a failing write or advance_sector must not move it off.)
CursorNumbering ==
  s_ready /\ s_cur_slot < RecordsPerSector
    => /\ hdr[s_cur_sector] # NoHeader
       /\ s_last_seq + 1 = hdr[s_cur_sector] + s_cur_slot

\* A slot that may be programmed: blank, or holding part of the record that
\* flush_locked writes (or will retry) next.
Free(v) ==
  \/ v.st = "empty"
  \/ /\ flush_i < Len(s_ram_buf)
     /\ v.seq = s_last_seq + 1 /\ v.id = s_ram_buf[flush_i + 1]

\* The cursor stands right behind the last record: everything before it in its
\* sector is valid, everything after it blank, and its own slot is free.
CursorTail ==
  s_ready => \A k \in Slots :
    LET v == slot[s_cur_sector][k] IN
      /\ k < s_cur_slot /\ s_cur_slot < RecordsPerSector => record_is_valid(v)
      /\ k = s_cur_slot => Free(v)
      /\ k > s_cur_slot => v.st = "empty"

\* Chronological order: of two records that can be read, the one that is
\* emitted first was sampled first and has the smaller sequence number.
Chronological ==
  \A s, t \in Sectors, j, k \in Slots :
    Visible(s, j) /\ Visible(t, k) /\ Before(s, j, t, k)
      => /\ slot[s][j].id < slot[t][k].id
         /\ slot[s][j].seq < slot[t][k].seq

\* A programmed slot is only ever programmed again with the same record (the
\* retry of a failed write); any other change of it is an erase of its sector.
WriteOnce ==
  [][\A s \in Sectors, k \in Slots :
       slot'[s][k] # slot[s][k] /\ slot[s][k].st # "empty"
         => \/ pc = "erase" /\ s = next
            \/ /\ slot'[s][k].seq = slot[s][k].seq
               /\ slot'[s][k].id = slot[s][k].id]_vars

\* flush_locked drops nothing: a sample leaves the RAM buffer when it can be
\* read from flash, or when the device resets.
NoSilentDrop ==
  [][\A i \in 1 .. Len(s_ram_buf) :
       \/ \E j \in 1 .. Len(s_ram_buf') : s_ram_buf'[j] = s_ram_buf[i]
       \/ s_ram_buf[i] \in VisibleIds'
       \/ pc' = "boot"]_vars

\* Two sectors with the same seq_start: the boot scan closed a sector that
\* holds no valid record, and the next one starts with the same number.
Twins == \E s, t \in Sectors : s # t /\ hdr[s] # NoHeader /\ hdr[s] = hdr[t]

LosesOldestFirst ==
  \A x \in VisibleIds \ VisibleIds', y \in VisibleIds \cap VisibleIds' : x < y

\* The log is a ring: what it drops is older than everything it keeps.
RingOnly == [][LosesOldestFirst]_vars

\* The same, as far as it holds when a write can be torn: only a pair of twin
\* sectors makes the log drop newer records before older ones.
RingExceptTwins == [][Twins \/ LosesOldestFirst]_vars

\* Once the log has wrapped it keeps all but one sector's worth of records.
Retention ==
  s_ready =>
    LET floor == (NumSectors - 1) * RecordsPerSector
    IN Cardinality(VisibleIds) >= IF s_last_seq < floor THEN s_last_seq ELSE floor

=============================================================================
