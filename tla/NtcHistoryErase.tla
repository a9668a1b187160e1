--------------------------- MODULE NtcHistoryErase ---------------------------
(***************************************************************************)
(* The log of NtcHistory together with ntc_history_erase_all, which erases *)
(* the whole partition, formats sector 0 and starts the numbering again.   *)
(* When either flash operation fails it returns at once, with the cursor   *)
(* and the RAM buffer as they were and s_ready still set.                  *)
(***************************************************************************)
EXTENDS NtcHistory

VARIABLES
  wiped,    \* history: samples taken before the last complete erase_all
  spoilt    \* history: an erase_all has failed since, or before the first

history == <<wiped, spoilt>>
evars == <<vars, history>>

\* It waits for s_lock, so it finds no other call under way.
CallErase ==
  /\ pc = "idle"
  /\ pc' = "wipe"
  /\ UNCHANGED <<flash, cursor, buffer, next, sampled, faults, history>>

WipePartition ==
  /\ pc = "wipe"
  /\ hdr' = [s \in Sectors |-> NoHeader]
  /\ slot' = [s \in Sectors |-> BlankSlots]
  /\ pc' = "format"
  /\ UNCHANGED <<cursor, buffer, next, sampled, faults, history>>

\* Mutant of EmptiedBuffer: s_ram_count is not reset.
KeptBuffer == s_ram_buf

EmptiedBuffer == <<>>

FormatFirst ==
  /\ pc = "format"
  /\ hdr' = [hdr EXCEPT ![0] = 1]
  /\ s_cur_sector' = 0 /\ s_cur_slot' = 0 /\ s_last_seq' = 0 /\ s_ready' = TRUE
  /\ s_ram_buf' = EmptiedBuffer
  /\ pc' = "idle"
  /\ wiped' = sampled /\ spoilt' = FALSE
  /\ UNCHANGED <<slot, flush_i, pend, next, sampled, faults>>

\* Erasing a range goes by blocks and sectors: any of them may be done.
HalfWipe ==
  /\ pc = "wipe"
  /\ \E done \in SUBSET Sectors : \E c \in {BlankSlots, GarbageSlots} :
       /\ hdr' = [s \in Sectors |-> IF s \in done THEN NoHeader ELSE hdr[s]]
       /\ slot' = [s \in Sectors |-> IF s \in done THEN c ELSE slot[s]]

HalfFormat ==
  /\ pc = "format"
  /\ \E h \in {NoHeader, 1} : hdr' = [hdr EXCEPT ![0] = h]
  /\ UNCHANGED slot

EraseError ==
  /\ faults < MaxFaults
  /\ faults' = faults + 1
  /\ HalfWipe \/ HalfFormat
  /\ pc' = "idle"
  /\ spoilt' = TRUE
  /\ UNCHANGED <<cursor, buffer, next, sampled, wiped>>

ErasePowerLoss ==
  /\ faults < MaxFaults
  /\ faults' = faults + 1
  /\ HalfWipe \/ HalfFormat
  /\ Reset
  /\ UNCHANGED <<sampled, history>>

EraseInit == Init /\ wiped = 0 /\ spoilt = FALSE

EraseStep == WipePartition \/ FormatFirst

EraseNext ==
  \/ Next /\ UNCHANGED history
  \/ CallErase \/ EraseStep \/ EraseError \/ ErasePowerLoss

EraseSpec == EraseInit /\ [][EraseNext]_evars

\* The scheduler keeps running the task that holds s_lock, and a device without
\* power is switched on again.  Nobody has to call the log.
EraseFair ==
  /\ EraseSpec
  /\ WF_evars(Boot /\ UNCHANGED history)
  /\ WF_evars(LogStep /\ UNCHANGED history)
  /\ WF_evars(EraseStep)

-----------------------------------------------------------------------------
\* The log keeps its structure over power losses in an erase_all, and over read
\* errors at boot; only an erase_all that returned an error can break it, since
\* the log then goes on at a cursor that points into what was erased.
SoundUnlessEraseFailed ==
  \/ spoilt
  \/ RecordNumbering /\ NoHiddenRecord
     /\ (pc \notin {"wipe", "format"} => CursorNumbering /\ CursorTail)

\* What a complete erase_all removed never comes back, neither from the RAM
\* buffer nor from a sector that a power loss left half erased.
ErasedStaysErased == VisibleIds \cap 1 .. wiped = {}

\* A used slot is programmed only with the same record, unless an erase_all has
\* failed; any other change is an erase.
UsedOnce ==
  [][\A s \in Sectors, k \in Slots :
       slot'[s][k] # slot[s][k] /\ slot[s][k].st # "empty"
         => \/ spoilt
            \/ pc = "erase" /\ s = next
            \/ pc = "wipe"
            \/ /\ slot'[s][k].seq = slot[s][k].seq
               /\ slot'[s][k].id = slot[s][k].id]_evars

\* Every call returns and every boot ends once the faults stop, erase_all and
\* what follows its failure included.
EraseCallsReturn == (pc # "idle") ~> (pc = "idle")
=============================================================================
