------------------------ MODULE NtcHistoryEraseProofs ------------------------
(***************************************************************************)
(* Theorems about the log together with ntc_history_erase_all.  The steps  *)
(* of the log itself are those of NtcHistoryProofs; what is new is what    *)
(* the erase does, and what the log may do after one that has failed.      *)
(***************************************************************************)
EXTENDS NtcHistoryErase, NtcHistoryProofs

InErase == pc \in {"wipe", "format"}

\* TypeOK but for the two places of ntc_history_erase_all.
EraseTypeOK ==
  /\ hdr \in [Sectors -> Nat]
  /\ slot \in [Sectors -> [Slots -> SlotValue]]
  /\ s_cur_sector \in Sectors
  /\ s_cur_slot \in 0 .. RecordsPerSector
  /\ s_last_seq \in Nat
  /\ s_ready \in BOOLEAN
  /\ s_ram_buf \in Seq(Nat) /\ Len(s_ram_buf) <= RamRecords
  /\ flush_i \in 0 .. Len(s_ram_buf)
  /\ pend \in Nat
  /\ next \in Sectors
  /\ pc \in {"boot", "erase", "header", "idle", "flush", "wipe", "format"}
  /\ sampled \in 0 .. MaxSamples
  /\ faults \in 0 .. MaxFaults
  /\ wiped \in 0 .. sampled
  /\ spoilt \in BOOLEAN

\* No flush is under way at boot, in ntc_history_erase_all, or when nobody
\* holds s_lock, and ntc_history_erase_all finds the log ready.
NoFlush ==
  /\ pc \in {"boot", "idle", "wipe", "format"} \/ ~s_ready
       => flush_i = 0 /\ pend = NoSample
  /\ InErase => s_ready

\* Between the erase of the partition and the header of sector 0 the flash is
\* blank.
Wiped ==
  pc = "format" => /\ hdr = [s \in Sectors |-> NoHeader]
                   /\ slot = [s \in Sectors |-> BlankSlots]

EraseShape == EraseTypeOK /\ LockHolder /\ NoFlush /\ Wiped

-----------------------------------------------------------------------------
(***************************************************************************)
(* The shape of the state, whatever has failed.                            *)
(***************************************************************************)
\* Outside of ntc_history_erase_all the variables of the log have their types.
LEMMA TypedOutside ==
  ASSUME EraseTypeOK PROVE ~InErase <=> TypeOK
BY DEF EraseTypeOK, TypeOK, InErase

\* During ntc_history_erase_all the only step of the log itself is a reset.
LEMMA InEraseNext ==
  ASSUME InErase, [Next]_vars
  PROVE  \/ PowerLoss /\ UNCHANGED flash
         \/ UNCHANGED vars
BY Zenon DEF InErase, Next, LogStep, Boot, EraseSector, WriteHeader, AddRecord, Flush,
       FlushDone, AdvanceSector, WriteRecord, Writing, FlashError, PowerLoss,
       HalfWrite, HalfErase, HalfHeader

\* A step of the log keeps NoFlush.
LEMMA NoFlushStep ==
  ASSUME TypeOK, LockHolder, NoFlush, [Next]_vars PROVE NoFlush' /\ ~InErase'
<1>1. CASE Boot
  <2>1. flush_i' = flush_i /\ pend' = pend /\ pc = "boot"
    BY <1>1 DEF Boot, buffer
  <2>2. pc' \in {"erase", "idle"}
    BY <1>1 DEF Boot, BootFormat, BootResume
  <2> QED
    BY <2>1, <2>2, Zenon DEF NoFlush, InErase
<1>2. CASE EraseSector \/ AdvanceSector
  <2>1. /\ flush_i' = flush_i /\ pend' = pend /\ s_ready' = s_ready
        /\ pc' \in {"header", "erase"}
    BY <1>2 DEF EraseSector, AdvanceSector, cursor, buffer
  <2> QED
    BY <2>1, Zenon DEF NoFlush, InErase
<1>3. CASE WriteHeader
  <2>1. /\ flush_i' = flush_i /\ pend' = pend /\ s_ready' = TRUE
        /\ pc' = IF s_ready THEN "flush" ELSE "idle"
    BY <1>3 DEF WriteHeader, buffer
  <2> QED
    BY <2>1, Zenon DEF NoFlush, InErase
<1>4. CASE AddRecord
  <2>1. flush_i' = flush_i /\ s_ready' /\ pc = "idle"
    BY <1>4 DEF AddRecord, cursor
  <2>2. pc' = "flush" \/ (pc' = "idle" /\ pend' = pend)
    BY <1>4, Zenon DEF AddRecord
  <2> QED
    BY <2>1, <2>2, Zenon DEF NoFlush, InErase
<1>5. CASE Flush \/ WriteRecord
  <2>1. pc' = "flush" /\ s_ready'
    BY <1>5 DEF Flush, WriteRecord, Writing, cursor, LockHolder
  <2> QED
    BY <2>1, Zenon DEF NoFlush, InErase
<1>6. CASE FlushDone \/ (FlashError /\ s_ready)
  <2>1. flush_i' = 0 /\ pend' = NoSample /\ pc' \in {"idle", "flush"}
    BY <1>6 DEF FlushDone, FlashError, FinishFlush
  <2> QED
    BY <2>1, Zenon DEF NoFlush, InErase
<1>7. CASE (FlashError /\ ~s_ready) \/ PowerLoss
  <2>1. flush_i' = 0 /\ pend' = NoSample /\ pc' = "boot"
    BY <1>7 DEF FlashError, PowerLoss, Reset
  <2> QED
    BY <2>1, Zenon DEF NoFlush, InErase
<1>8. CASE UNCHANGED vars
  <2>1. flush_i' = flush_i /\ pend' = pend /\ s_ready' = s_ready /\ pc' = pc
    BY <1>8 DEF vars, cursor, buffer
  <2> QED
    BY <2>1, Zenon DEF NoFlush, InErase, TypeOK
<1> QED
  BY <1>1, <1>2, <1>3, <1>4, <1>5, <1>6, <1>7, <1>8 DEF Next, LogStep

\* What ntc_history_erase_all leaves when it breaks off is flash.
LEMMA HalfWipeType ==
  ASSUME EraseTypeOK, HalfWipe \/ HalfFormat
  PROVE  hdr' \in [Sectors -> Nat] /\ slot' \in [Sectors -> [Slots -> SlotValue]]
<1>1. CASE HalfWipe
  <2>1. PICK done \in SUBSET Sectors, c \in [Slots -> SlotValue] :
          /\ hdr' = [s \in Sectors |-> IF s \in done THEN NoHeader ELSE hdr[s]]
          /\ slot' = [s \in Sectors |-> IF s \in done THEN c ELSE slot[s]]
    BY <1>1, FillType DEF HalfWipe
  <2> QED
    BY <2>1 DEF EraseTypeOK, NoHeader
<1>2. CASE HalfFormat
  <2>1. PICK h \in Nat : hdr' = [hdr EXCEPT ![0] = h]
    BY <1>2 DEF HalfFormat, NoHeader
  <2> QED
    BY <1>2, <2>1 DEF HalfFormat, EraseTypeOK
<1> QED
  BY <1>1, <1>2

\* A reset during ntc_history_erase_all leaves the shape of the state.
LEMMA EraseResetShape ==
  ASSUME EraseTypeOK, Reset, UNCHANGED <<sampled, history>>, faults' \in 0 .. MaxFaults,
         hdr' \in [Sectors -> Nat], slot' \in [Sectors -> [Slots -> SlotValue]]
  PROVE  EraseShape'
<1>1. 0 \in Sectors
  BY SectorsAssumption DEF Sectors
<1>2. 0 \in 0 .. RecordsPerSector
  BY SlotsAssumption
<1>3. <<>> \in Seq(Nat) /\ Len(<<>>) = 0 /\ 0 <= RamRecords /\ 0 \in 0 .. 0
  BY RamAssumption
<1>4. EraseTypeOK'
  BY <1>1, <1>2, <1>3 DEF Reset, EraseTypeOK, NoSample, history
<1> QED
  BY <1>4 DEF EraseShape, Reset, LockHolder, NoFlush, Wiped, InErase

\* Every step of the log with ntc_history_erase_all keeps the shape.
LEMMA ShapeStep ==
  ASSUME EraseShape, [EraseNext]_evars PROVE EraseShape'
<1>0. faults < MaxFaults /\ faults' = faults + 1 => faults' \in 0 .. MaxFaults
  BY BoundsAssumption DEF EraseShape, EraseTypeOK
<1>1. CASE ~InErase /\ [Next]_vars /\ UNCHANGED history
  <2>1. TypeOK /\ TypeOK' /\ LockHolder'
    BY <1>1, TypedOutside, TypeStep, LockHolderStep DEF EraseShape
  <2>2. NoFlush' /\ ~InErase'
    BY <1>1, <2>1, NoFlushStep DEF EraseShape
  <2>3. sampled' = sampled \/ sampled' = sampled + 1
    BY <1>1 DEF Next, LogStep, Boot, EraseSector, WriteHeader, AddRecord, Flush,
                FlushDone, AdvanceSector, WriteRecord, FlashError, PowerLoss, vars
  <2>4. wiped' \in 0 .. sampled' /\ spoilt' \in BOOLEAN
    BY <1>1, <2>1, <2>3 DEF EraseShape, EraseTypeOK, TypeOK, history
  <2>5. EraseTypeOK'
    BY <2>1, <2>4 DEF EraseTypeOK, TypeOK
  <2> QED
    BY <2>1, <2>2, <2>5 DEF EraseShape, Wiped, InErase
<1>2. CASE InErase /\ [Next]_vars /\ UNCHANGED history
  <2>1. CASE PowerLoss /\ UNCHANGED flash
    <3>1. faults' \in 0 .. MaxFaults /\ UNCHANGED <<sampled, history>> /\ Reset
      BY <1>0, <1>2, <2>1 DEF PowerLoss
    <3>2. hdr' \in [Sectors -> Nat] /\ slot' \in [Sectors -> [Slots -> SlotValue]]
      BY <2>1 DEF flash, EraseShape, EraseTypeOK
    <3> QED
      BY <3>1, <3>2, EraseResetShape DEF EraseShape
  <2>2. CASE UNCHANGED vars
    BY <1>2, <2>2, Zenon DEF vars, flash, cursor, buffer, history, EraseShape, EraseTypeOK,
                      LockHolder, NoFlush, Wiped, InErase
  <2> QED
    BY <1>2, <2>1, <2>2, InEraseNext
<1>3. CASE CallErase
  <2>1. /\ pc = "idle" /\ pc' = "wipe"
        /\ UNCHANGED <<flash, cursor, buffer, next, sampled, faults, history>>
    BY <1>3 DEF CallErase
  <2>2. s_ready /\ flush_i = 0 /\ pend = NoSample
    BY <2>1 DEF EraseShape, LockHolder, NoFlush
  <2>3. EraseTypeOK'
    BY <2>1 DEF EraseShape, EraseTypeOK, flash, cursor, buffer, history
  <2> QED
    BY <2>1, <2>2, <2>3 DEF EraseShape, LockHolder, NoFlush, Wiped, InErase, cursor, buffer
<1>4. CASE WipePartition
  <2>1. EraseTypeOK'
    BY <1>4, FillType DEF WipePartition, EraseShape, EraseTypeOK, cursor, buffer, history,
                          NoHeader
  <2>2. NoFlush' /\ LockHolder' /\ Wiped'
    BY <1>4 DEF WipePartition, EraseShape, NoFlush, LockHolder, Wiped, InErase, cursor,
                buffer
  <2> QED
    BY <2>1, <2>2 DEF EraseShape
<1>5. CASE FormatFirst
  <2>1. flush_i = 0 /\ pend = NoSample
    BY <1>5 DEF FormatFirst, EraseShape, NoFlush
  <2>2. 0 \in Sectors /\ 0 \in 0 .. RecordsPerSector /\ sampled \in 0 .. sampled
    BY SectorsAssumption, SlotsAssumption DEF Sectors, EraseShape, EraseTypeOK
  <2>3. <<>> \in Seq(Nat) /\ Len(<<>>) = 0 /\ 0 <= RamRecords /\ 0 \in 0 .. 0
    BY RamAssumption
  <2>4. EraseTypeOK'
    BY <1>5, <2>1, <2>2, <2>3 DEF FormatFirst, EmptiedBuffer, EraseShape, EraseTypeOK
  <2>5. NoFlush' /\ LockHolder' /\ Wiped'
    BY <1>5, <2>1 DEF FormatFirst, NoFlush, LockHolder, Wiped, InErase
  <2> QED
    BY <2>4, <2>5 DEF EraseShape
<1>6. CASE EraseError
  <2>1. hdr' \in [Sectors -> Nat] /\ slot' \in [Sectors -> [Slots -> SlotValue]]
    BY <1>6, HalfWipeType DEF EraseError, EraseShape
  <2>2. InErase /\ pc' = "idle"
    BY <1>6 DEF EraseError, HalfWipe, HalfFormat, InErase
  <2>3. EraseTypeOK'
    BY <1>0, <1>6, <2>1 DEF EraseError, EraseShape, EraseTypeOK, cursor, buffer
  <2>4. s_ready /\ flush_i = 0 /\ pend = NoSample
    BY <2>2 DEF EraseShape, NoFlush, InErase
  <2>5. NoFlush' /\ LockHolder' /\ Wiped'
    BY <1>6, <2>4 DEF EraseError, NoFlush, LockHolder, Wiped, InErase, cursor, buffer
  <2> QED
    BY <2>3, <2>5 DEF EraseShape
<1>7. CASE ErasePowerLoss
  <2>1. hdr' \in [Sectors -> Nat] /\ slot' \in [Sectors -> [Slots -> SlotValue]]
    BY <1>7, HalfWipeType DEF ErasePowerLoss, EraseShape
  <2> QED
    BY <1>0, <1>7, <2>1, EraseResetShape DEF ErasePowerLoss, EraseShape
<1> QED
  BY <1>1, <1>2, <1>3, <1>4, <1>5, <1>6, <1>7 DEF EraseNext, EraseStep, evars

\* The log starts in shape.
LEMMA ShapeInit == EraseInit => EraseShape
<1> SUFFICES ASSUME EraseInit PROVE EraseShape
  OBVIOUS
<1>1. TypeOK
  BY InitType DEF EraseInit
<1>2. wiped \in 0 .. sampled
  <2>1. wiped = 0 /\ sampled = 0
    BY DEF EraseInit, Init
  <2> QED
    BY <2>1
<1>3. spoilt \in BOOLEAN
  BY Zenon DEF EraseInit
<1>4. EraseTypeOK
  BY <1>1, <1>2, <1>3 DEF TypeOK, EraseTypeOK
<1> QED
  BY <1>4 DEF EraseShape, EraseInit, Init, LockHolder, NoFlush, Wiped, InErase

-----------------------------------------------------------------------------
(***************************************************************************)
(* The structure of the log.  It is that of NumberingInv and TailInv until *)
(* an erase returns an error: the cursor then points into flash that may   *)
(* be erased, and nothing is known until the next complete erase, whatever *)
(* boots come before it.  During an erase the cursor does not count.       *)
(***************************************************************************)
FlashSound == RecordNumbering /\ NoGhost /\ NoHiddenRecord
CursorSound == CursorNumbering /\ CursorTail

SoundInv ==
  /\ EraseShape
  /\ spoilt \/ (FlashSound /\ (pc # "format" => CursorSound))

\* Blank sectors hide nothing.
LEMMA PartlyWiped ==
  ASSUME EraseTypeOK, FlashSound, HalfWipe
  PROVE  FlashSound'
<1>1. PICK done \in SUBSET Sectors, c \in {BlankSlots, GarbageSlots} :
        /\ hdr' = [s \in Sectors |-> IF s \in done THEN NoHeader ELSE hdr[s]]
        /\ slot' = [s \in Sectors |-> IF s \in done THEN c ELSE slot[s]]
  BY DEF HalfWipe
<1>2. \A s \in Sectors :
        \/ hdr'[s] = NoHeader /\ slot'[s] = c
        \/ hdr'[s] = hdr[s] /\ slot'[s] = slot[s]
  BY <1>1 DEF EraseTypeOK
<1>3. \A k \in Slots : c[k].st # "ghost"
  BY DEF BlankSlots, GarbageSlots, Empty, Garbage
<1> QED
  BY <1>2, <1>3 DEF FlashSound, RecordNumbering, NoGhost, NoHiddenRecord, record_is_valid

\* Neither does a blank partition, with the header of sector 0 or without.
LEMMA BlankSound ==
  ASSUME slot' = [s \in Sectors |-> BlankSlots]
  PROVE  FlashSound'
<1>1. \A s \in Sectors, k \in Slots : slot'[s][k].st = "empty"
  BY DEF BlankSlots, Empty
<1> QED
  BY <1>1 DEF FlashSound, RecordNumbering, NoGhost, NoHiddenRecord, record_is_valid

\* Every step keeps the structure or is an error of ntc_history_erase_all.
LEMMA SoundStep ==
  ASSUME SoundInv, "ghost" \notin Tears, [EraseNext]_evars PROVE SoundInv'
<1>0. EraseShape' /\ EraseShape
  BY ShapeStep DEF SoundInv
<1> SUFFICES spoilt' \/ (FlashSound' /\ (pc' # "format" => CursorSound'))
  BY <1>0 DEF SoundInv
<1>1. CASE spoilt /\ UNCHANGED spoilt
  BY <1>1
<1>2. CASE ~spoilt /\ ~InErase /\ [Next]_vars
  <2>1. NumberingInv /\ TailInv
    BY <1>0, <1>2, TypedOutside
       DEF SoundInv, EraseShape, NumberingInv, TailInv, FlashSound, CursorSound, InErase
  <2>2. NumberingInv' /\ TailInv'
    BY <1>2, <2>1, NumberingStep, TailStep
  <2> QED
    BY <2>2 DEF NumberingInv, TailInv, FlashSound, CursorSound
<1>3. CASE ~spoilt /\ InErase /\ [Next]_vars
  <2>1. CASE PowerLoss /\ UNCHANGED flash
    <3>1. FlashSound'
      BY <1>3, <2>1 DEF flash, SoundInv, FlashSound, RecordNumbering, NoGhost,
                        NoHiddenRecord, record_is_valid
    <3>2. s_ready' = FALSE
      BY <2>1 DEF PowerLoss, Reset
    <3> QED
      BY <3>1, <3>2, Zenon DEF CursorSound, CursorNumbering, CursorTail
  <2>2. CASE UNCHANGED vars
    BY <1>3, <2>2, Zenon
       DEF vars, flash, cursor, buffer, SoundInv, FlashSound, CursorSound, RecordNumbering,
           NoGhost, NoHiddenRecord, CursorNumbering, CursorTail, Free, record_is_valid
  <2> QED
    BY <1>3, <2>1, <2>2, InEraseNext
<1>4. CASE ~spoilt /\ CallErase
  <2>1. UNCHANGED <<flash, cursor, buffer>> /\ pc # "format"
    BY <1>4 DEF CallErase
  <2> QED
    BY <1>4, <2>1, Zenon
       DEF flash, cursor, buffer, SoundInv, FlashSound, CursorSound, RecordNumbering,
           NoGhost, NoHiddenRecord, CursorNumbering, CursorTail, Free, record_is_valid
<1>5. CASE WipePartition
  BY <1>5, BlankSound DEF WipePartition
<1>6. CASE FormatFirst
  <2>1. slot' = [s \in Sectors |-> BlankSlots] /\ hdr' = [[s \in Sectors |-> NoHeader] EXCEPT ![0] = 1]
    BY <1>0, <1>6 DEF FormatFirst, EraseShape, Wiped
  <2>2. FlashSound'
    BY <2>1, BlankSound
  <2>3. /\ s_cur_sector' = 0 /\ s_cur_slot' = 0 /\ s_last_seq' = 0
        /\ 0 \in Sectors /\ hdr'[0] = 1
    BY <1>6, <2>1, SectorsAssumption DEF FormatFirst, Sectors
  <2>4. CursorNumbering'
    BY <2>3 DEF CursorNumbering, NoHeader
  <2>5. CursorTail'
    BY <2>1, <2>3 DEF CursorTail, Free, BlankSlots, Empty, Slots
  <2> QED
    BY <2>2, <2>4, <2>5 DEF CursorSound
<1>7. CASE EraseError
  BY <1>7 DEF EraseError
<1>8. CASE ~spoilt /\ ErasePowerLoss
  <2>1. s_ready' = FALSE
    BY <1>8 DEF ErasePowerLoss, Reset
  <2>2. FlashSound'
    <3>1. CASE HalfWipe
      BY <1>0, <1>8, <3>1, PartlyWiped DEF SoundInv, EraseShape
    <3>2. CASE HalfFormat
      <4>1. slot' = [s \in Sectors |-> BlankSlots]
        BY <1>0, <3>2 DEF HalfFormat, EraseShape, Wiped
      <4> QED
        BY <4>1, BlankSound
    <3> QED
      BY <1>8, <3>1, <3>2 DEF ErasePowerLoss
  <2> QED
    BY <2>1, <2>2, Zenon DEF CursorSound, CursorNumbering, CursorTail
<1>9. spoilt' = spoilt \/ FormatFirst \/ EraseError
  BY DEF EraseNext, EraseStep, CallErase, WipePartition, ErasePowerLoss, history, evars
<1>10. spoilt \in BOOLEAN
  BY <1>0 DEF EraseShape, EraseTypeOK
<1> QED
  BY <1>1, <1>2, <1>3, <1>4, <1>5, <1>6, <1>7, <1>8, <1>9, <1>10
     DEF EraseNext, EraseStep, evars

\* SoundInv holds in every reachable state.
LEMMA SoundInvariant ==
  ASSUME "ghost" \notin Tears PROVE EraseSpec => []SoundInv
<1>1. EraseInit => SoundInv
  <2> SUFFICES ASSUME EraseInit PROVE SoundInv
    OBVIOUS
  <2>1. FlashSound
    BY DEF EraseInit, Init, FlashSound, RecordNumbering, NoGhost, NoHiddenRecord,
           BlankSlots, GarbageSlots, Empty, Garbage
  <2>2. CursorSound
    BY DEF EraseInit, Init, CursorSound, CursorNumbering, CursorTail
  <2> QED
    BY <2>1, <2>2, ShapeInit DEF SoundInv
<1>2. SoundInv /\ [EraseNext]_evars => SoundInv'
  BY SoundStep
<1> QED
  BY <1>1, <1>2, PTL DEF EraseSpec

\* The log keeps its structure over resets in the middle of an erase_all, over
\* read errors at boot and over everything that can happen without one: record
\* numbers follow the places, nothing is hidden behind a slot at which readers
\* stop, and the cursor stands behind the last record.  Only an erase_all that
\* returned an error can break it.
THEOREM SoundWithErase ==
  ASSUME "ghost" \notin Tears PROVE EraseSpec => []SoundUnlessEraseFailed
<1>1. SoundInv => SoundUnlessEraseFailed
  BY DEF SoundInv, SoundUnlessEraseFailed, FlashSound, CursorSound
<1> QED
  BY <1>1, SoundInvariant, PTL

\* A step writes over a used slot only to repeat its record, or by an erase of
\* its sector or of the partition, unless an erase_all has failed.
LEMMA UsedOnceStep ==
  ASSUME SoundInv, "ghost" \notin Tears, [EraseNext]_evars,
         NEW s \in Sectors, NEW k \in Slots,
         slot'[s][k] # slot[s][k], slot[s][k].st # "empty", ~spoilt
  PROVE  \/ pc = "erase" /\ s = next
         \/ pc = "wipe"
         \/ slot'[s][k].seq = slot[s][k].seq /\ slot'[s][k].id = slot[s][k].id
<1>1. CASE InErase
  <2>1. pc = "format" => slot[s][k].st = "empty"
    BY DEF SoundInv, EraseShape, Wiped, BlankSlots, Empty
  <2> QED
    BY <1>1, <2>1 DEF InErase
<1>2. CASE ~InErase /\ [Next]_vars
  <2>1. TailInv
    BY <1>2, TypedOutside
       DEF SoundInv, EraseShape, TailInv, FlashSound, CursorSound, InErase
  <2> QED
    BY <1>2, <2>1, WriteOnceStep
<1>3. CASE CallErase
  BY <1>3 DEF CallErase, flash
<1>4. WipePartition \/ FormatFirst \/ EraseError \/ ErasePowerLoss => InErase
  BY DEF WipePartition, FormatFirst, EraseError, ErasePowerLoss, HalfWipe, HalfFormat, InErase
<1> QED
  BY <1>1, <1>2, <1>3, <1>4 DEF EraseNext, EraseStep, evars

\* No record is ever programmed over another one, unless an erase_all has failed
\* and left the cursor where it was.
THEOREM UsedSlotsOnce ==
  ASSUME "ghost" \notin Tears PROVE EraseSpec => UsedOnce
<1>1. SoundInv /\ [EraseNext]_evars =>
        [\A s \in Sectors, k \in Slots :
           slot'[s][k] # slot[s][k] /\ slot[s][k].st # "empty"
             => \/ spoilt
                \/ pc = "erase" /\ s = next
                \/ pc = "wipe"
                \/ /\ slot'[s][k].seq = slot[s][k].seq
                   /\ slot'[s][k].id = slot[s][k].id]_evars
  BY UsedOnceStep
<1> QED
  BY <1>1, SoundInvariant, PTL DEF EraseSpec, UsedOnce

-----------------------------------------------------------------------------
(***************************************************************************)
(* What was erased stays erased, whatever fails: every sample that is kept *)
(* anywhere, in a slot (readable or not), in the RAM buffer or by a caller *)
(* that waits for a flush, was taken after the last complete erase.        *)
(***************************************************************************)
SlotsFresh == \A s \in Sectors, k \in Slots :
  slot[s][k].id = NoSample \/ slot[s][k].id > wiped
BufferFresh == \A i \in 1 .. Len(s_ram_buf) : s_ram_buf[i] > wiped
PendFresh == pend = NoSample \/ pend > wiped

FreshInv == EraseShape /\ SlotsFresh /\ BufferFresh /\ PendFresh

\* A slot that a write has touched holds what it held, garbage, or the sample
\* at the head of the buffer.
LEMMA WrittenFresh ==
  ASSUME TypeOK, BufferFresh, Writing, SlotsFresh, wiped' = wiped,
         NEW v, v = Program(OldSlot, NewRecord) \/ v \in Interrupted(OldSlot, NewRecord),
         SetSlot(v)
  PROVE  SlotsFresh'
<1>1. NewRecord.id > wiped
  <2>1. flush_i + 1 \in 1 .. Len(s_ram_buf)
    BY DEF TypeOK, Writing
  <2> QED
    BY <2>1 DEF BufferFresh, NewRecord
<1>2. OldSlot.id = NoSample \/ OldSlot.id > wiped
  BY WritingType DEF SlotsFresh, OldSlot, TypeOK
<1>3. \/ v = OldSlot \/ v = Garbage \/ v = NewRecord
      \/ \E t \in Tears : v = [NewRecord EXCEPT !.st = t]
  BY DEF Program, Interrupted
<1>4. v.id = NoSample \/ v.id > wiped
  BY <1>1, <1>2, <1>3 DEF Garbage, NewRecord
<1>5. \A s \in Sectors, k \in Slots : slot'[s][k] = v \/ slot'[s][k] = slot[s][k]
  BY DEF SetSlot, TypeOK
<1> QED
  BY <1>4, <1>5 DEF SlotsFresh

\* When flush_locked returns, the buffer holds nothing that it did not hold
\* before but the sample of the waiting caller.
LEMMA FinishFlushFresh ==
  ASSUME TypeOK, BufferFresh, PendFresh, FinishFlush(flush_i), wiped' = wiped
  PROVE  BufferFresh' /\ PendFresh'
<1> DEFINE kept == FlushKeeps(flush_i)
           more == Append(kept, pend)
<1>1. /\ kept \in Seq(Nat) /\ Len(kept) = Len(s_ram_buf) - flush_i
      /\ \A j \in 1 .. Len(s_ram_buf) - flush_i : kept[j] = s_ram_buf[flush_i + j]
  BY KeptSamples DEF TypeOK
<1>2. \/ s_ram_buf' = kept
      \/ s_ram_buf' = more /\ pend # NoSample
  BY DEF FinishFlush
<1>3. pend' = NoSample
  BY DEF FinishFlush
<1> HIDE DEF kept
<1>4. /\ Len(more) = Len(kept) + 1 /\ more[Len(kept) + 1] = pend
      /\ \A j \in 1 .. Len(kept) : more[j] = kept[j]
  BY <1>1, AppendProperties DEF TypeOK
<1> HIDE DEF more
<1>5. \A j \in 1 .. Len(kept) : kept[j] > wiped
  <2> SUFFICES ASSUME NEW j \in 1 .. Len(kept) PROVE kept[j] > wiped
    OBVIOUS
  <2>1. kept[j] = s_ram_buf[flush_i + j] /\ flush_i + j \in 1 .. Len(s_ram_buf)
    BY <1>1 DEF TypeOK
  <2> QED
    BY <2>1 DEF BufferFresh
<1>6. pend # NoSample => \A j \in 1 .. Len(more) : more[j] > wiped
  <2> SUFFICES ASSUME pend # NoSample, NEW j \in 1 .. Len(more) PROVE more[j] > wiped
    OBVIOUS
  <2>1. Len(kept) \in Nat
    BY <1>1
  <2>2. j \in 1 .. Len(kept) \/ j = Len(kept) + 1
    BY <1>4, <2>1
  <2> QED
    BY <1>4, <1>5, <2>2 DEF PendFresh
<1>7. BufferFresh'
  BY <1>2, <1>5, <1>6 DEF BufferFresh
<1> QED
  BY <1>3, <1>7 DEF PendFresh

\* Every step keeps what was erased away: new samples come after the erase, and
\* a write puts on flash what is in the buffer.
LEMMA FreshStep ==
  ASSUME FreshInv, [EraseNext]_evars PROVE FreshInv'
<1>0. EraseShape' /\ EraseShape
  BY ShapeStep DEF FreshInv
<1> SUFFICES SlotsFresh' /\ BufferFresh' /\ PendFresh'
  BY <1>0 DEF FreshInv
<1> DEFINE SameBuffer == UNCHANGED <<s_ram_buf, pend, wiped>>
           Blanks(s) == slot'[s] = BlankSlots \/ slot'[s] = GarbageSlots
<1>1. ASSUME SameBuffer PROVE BufferFresh' /\ PendFresh'
  BY <1>1 DEF FreshInv, BufferFresh, PendFresh
<1>2. ASSUME Reset, wiped' = wiped PROVE BufferFresh' /\ PendFresh'
  BY <1>2 DEF Reset, BufferFresh, PendFresh
<1>3. ASSUME wiped' = wiped, \A s \in Sectors : slot'[s] = slot[s] \/ Blanks(s)
      PROVE  SlotsFresh'
  BY <1>3 DEF FreshInv, SlotsFresh, BlankSlots, GarbageSlots, Empty, Garbage
<1>4. CASE ~InErase /\ [Next]_vars /\ UNCHANGED history
  <2>1. TypeOK /\ wiped' = wiped /\ wiped \in 0 .. sampled
    BY <1>0, <1>4, TypedOutside DEF EraseShape, EraseTypeOK, history
  <2>2. ASSUME HalfErase \/ HalfHeader \/ UNCHANGED flash PROVE SlotsFresh'
    <3>1. \A s \in Sectors : slot'[s] = slot[s] \/ Blanks(s)
      BY <2>1, <2>2 DEF HalfErase, HalfHeader, flash, TypeOK
    <3> QED
      BY <1>3, <2>1, <3>1
  <2>3. ASSUME HalfWrite PROVE SlotsFresh'
    BY <2>1, <2>3, WrittenFresh DEF HalfWrite, FreshInv
  <2>4. CASE Boot \/ Flush \/ AdvanceSector
    BY <1>1, <2>1, <2>2, <2>4 DEF Boot, Flush, AdvanceSector, buffer, flash
  <2>5. CASE EraseSector
    <3>1. \A s \in Sectors : slot'[s] = slot[s] \/ Blanks(s)
      BY <2>1, <2>5 DEF EraseSector, TypeOK
    <3> QED
      BY <1>1, <1>3, <2>1, <2>5, <3>1 DEF EraseSector, buffer
  <2>6. CASE WriteHeader
    BY <1>1, <1>3, <2>1, <2>6 DEF WriteHeader, buffer
  <2>7. CASE FlushDone
    BY <2>1, <2>2, <2>7, FinishFlushFresh DEF FlushDone, FreshInv
  <2>8. CASE WriteRecord
    BY <1>1, <2>1, <2>8, WrittenFresh DEF WriteRecord, FreshInv
  <2>9. CASE AddRecord
    <3>1. sampled + 1 > wiped /\ sampled + 1 \in Nat
      BY <2>1 DEF TypeOK
    <3>2. SlotsFresh'
      BY <2>2, <2>9 DEF AddRecord
    <3>3. CASE s_ram_buf' = s_ram_buf /\ pend' = sampled + 1
      BY <2>1, <3>1, <3>2, <3>3 DEF FreshInv, BufferFresh, PendFresh
    <3>4. CASE s_ram_buf' = Append(s_ram_buf, sampled + 1) /\ pend' = pend
      <4>1. /\ Len(s_ram_buf') = Len(s_ram_buf) + 1 /\ Len(s_ram_buf) \in Nat
            /\ s_ram_buf'[Len(s_ram_buf) + 1] = sampled + 1
            /\ \A i \in 1 .. Len(s_ram_buf) : s_ram_buf'[i] = s_ram_buf[i]
        BY <2>1, <3>1, <3>4, AppendProperties DEF TypeOK
      <4>2. \A i \in 1 .. Len(s_ram_buf') :
              i \in 1 .. Len(s_ram_buf) \/ i = Len(s_ram_buf) + 1
        BY <4>1
      <4> QED
        BY <2>1, <3>1, <3>2, <3>4, <4>1, <4>2 DEF FreshInv, BufferFresh, PendFresh
    <3> QED
      BY <2>9, <3>3, <3>4 DEF AddRecord
  <2>10. CASE FlashError
    <3>1. SlotsFresh'
      BY <2>2, <2>3, <2>10 DEF FlashError
    <3>2. CASE s_ready
      BY <2>1, <2>10, <3>1, <3>2, FinishFlushFresh DEF FlashError, FreshInv
    <3>3. CASE ~s_ready
      BY <1>2, <2>1, <2>10, <3>1, <3>3 DEF FlashError
    <3> QED
      BY <3>2, <3>3
  <2>11. CASE PowerLoss
    BY <1>2, <2>1, <2>2, <2>3, <2>11 DEF PowerLoss
  <2>12. CASE UNCHANGED vars
    BY <1>1, <2>1, <2>2, <2>12 DEF vars, buffer
  <2> QED
    BY <1>4, <2>4, <2>5, <2>6, <2>7, <2>8, <2>9, <2>10, <2>11, <2>12 DEF Next, LogStep
<1>5. CASE InErase /\ [Next]_vars /\ UNCHANGED history
  <2>1. CASE PowerLoss /\ UNCHANGED flash
    BY <1>2, <1>3, <1>5, <2>1 DEF PowerLoss, flash, history
  <2>2. CASE UNCHANGED vars
    BY <1>1, <1>3, <1>5, <2>2 DEF vars, flash, buffer, history
  <2> QED
    BY <1>5, <2>1, <2>2, InEraseNext
<1>6. CASE CallErase
  BY <1>1, <1>3, <1>6 DEF CallErase, flash, buffer, history
<1>7. CASE WipePartition
  BY <1>1, <1>3, <1>7 DEF WipePartition, buffer, history
<1>8. CASE FormatFirst
  <2>1. \A s \in Sectors, k \in Slots : slot'[s][k].id = NoSample
    BY <1>0, <1>8 DEF FormatFirst, EraseShape, Wiped, BlankSlots, Empty
  <2>2. s_ram_buf' = <<>> /\ pend' = NoSample
    BY <1>0, <1>8 DEF FormatFirst, EmptiedBuffer, EraseShape, NoFlush
  <2> QED
    BY <2>1, <2>2 DEF SlotsFresh, BufferFresh, PendFresh
<1>9. ASSUME HalfWipe \/ HalfFormat, wiped' = wiped PROVE SlotsFresh'
  <2>1. \A s \in Sectors : slot'[s] = slot[s] \/ Blanks(s)
    BY <1>9 DEF HalfWipe, HalfFormat
  <2> QED
    BY <1>3, <1>9, <2>1
<1>10. CASE EraseError
  BY <1>1, <1>9, <1>10 DEF EraseError, buffer
<1>11. CASE ErasePowerLoss
  BY <1>2, <1>9, <1>11 DEF ErasePowerLoss, history
<1> QED
  BY <1>4, <1>5, <1>6, <1>7, <1>8, <1>10, <1>11 DEF EraseNext, EraseStep, evars

\* No sample that a complete erase_all removed can be read again, whatever fails
\* then or later: none comes back from the RAM buffer, from a caller that waited,
\* or from flash that a reset or an error left half erased.
THEOREM NothingComesBack == EraseSpec => []ErasedStaysErased
<1>1. EraseInit => FreshInv
  <2> SUFFICES ASSUME EraseInit PROVE FreshInv
    OBVIOUS
  <2>1. \A s \in Sectors, k \in Slots : slot[s][k].id = NoSample
    BY DEF EraseInit, Init, BlankSlots, GarbageSlots, Empty, Garbage
  <2>2. s_ram_buf = <<>> /\ pend = NoSample
    BY DEF EraseInit, Init
  <2> QED
    BY <2>1, <2>2, ShapeInit DEF FreshInv, SlotsFresh, BufferFresh, PendFresh
<1>2. FreshInv /\ [EraseNext]_evars => FreshInv'
  BY FreshStep
<1>3. FreshInv => ErasedStaysErased
  <2> SUFFICES ASSUME FreshInv, NEW x \in VisibleIds PROVE x \notin 1 .. wiped
    BY DEF ErasedStaysErased
  <2>1. PICK s \in Sectors, k \in Slots : x = slot[s][k].id
    BY DEF VisibleIds
  <2>2. x = 0 \/ x > wiped
    BY <2>1 DEF FreshInv, SlotsFresh, NoSample
  <2> QED
    BY <2>2 DEF FreshInv, EraseShape, EraseTypeOK
<1> QED
  BY <1>1, <1>2, <1>3, PTL DEF EraseSpec

=============================================================================
