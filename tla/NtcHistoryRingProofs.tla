------------------------ MODULE NtcHistoryRingProofs ------------------------
(***************************************************************************)
(* The log is a ring of records.  When a record write is all or nothing    *)
(* and the boot can read the flash, the sectors but the newest are full,   *)
(* and once the log has gone round, all but the one that is renewed are in *)
(* use: so it keeps what Retention says, and its steps are those of        *)
(* RingLog.  For every size of the partition, of a sector and of the RAM   *)
(* buffer, and any number of samples, flash errors and power losses.       *)
(***************************************************************************)
EXTENDS NtcHistoryRing, NtcHistoryOrderProofs, FiniteSetTheorems

Full(s) == hdr[s] # NoHeader /\ \A k \in Slots : record_is_valid(slot[s][k])
FullIfUsed(S) == \A s \in S : hdr[s] # NoHeader => Full(s)
AllUsed(S) == \A s \in S : hdr[s] # NoHeader

Newest(p) == hdr[p] # NoHeader /\ \A s \in Sectors : hdr[s] <= hdr[p]

\* The log has not gone round: of the sectors S those up to p are in use, and the
\* first record of p has the number of records before it, and one.
FirstRound(p, S) ==
  /\ \A s \in S : hdr[s] # NoHeader <=> s <= p
  /\ hdr[p] = p * RecordsPerSector + 1

\* It has: the sector behind p at most is not in use, and p is full then.
Wrapped(p) ==
  /\ AllUsed(Sectors \ {p, NextSector(p)})
  /\ hdr[NextSector(p)] # NoHeader \/ Full(p)

\* The log ends in p.
InUse(p) ==
  /\ FullIfUsed(Sectors \ {p})
  /\ FirstRound(p, Sectors) \/ Wrapped(p)

\* The log ends in c, with the record q, and goes on in m, which has still its
\* records, or none, or the header for what comes.
Turned(c, m, q) ==
  /\ Full(c) /\ q + 1 = hdr[c] + RecordsPerSector /\ m = NextSector(c)
  /\ FullIfUsed(Sectors \ {m})
  /\ \A s \in Sectors \ {m} : hdr[s] <= hdr[c]
  /\ \/ hdr[m] \in {NoHeader, q + 1}
     \/ hdr[m] < hdr[c] /\ Full(m)
  /\ \/ AllUsed(Sectors \ {m})
     \/ FirstRound(c, Sectors \ {m}) /\ hdr[m] \in {NoHeader, q + 1}

\* Nothing was ever stored: the first call of ntc_history_add_record formats the log.
Untouched == Unused(Sectors) /\ ~s_ready /\ next = 0 /\ s_last_seq = 0

\* What a boot finds.
AtRest == Unused(Sectors) \/ \E p \in Sectors : Newest(p) /\ InUse(p)

\* Which sectors are in use and full, at the boot, while there is room in the
\* current sector, and while the log goes on to the next one.
UseInv ==
  /\ pc = "boot" => AtRest
  /\ Open => InUse(s_cur_sector)
  /\ Closed => Untouched \/ Turned(s_cur_sector, Target, s_last_seq)

-----------------------------------------------------------------------------
(***************************************************************************)
(* Facts about one state.                                                  *)
(***************************************************************************)
\* Where the log is one sector further, it has not gone round either.
LEMMA NextStart ==
  ASSUME NEW p \in Nat
  PROVE  p * RecordsPerSector + 1 + RecordsPerSector = (p + 1) * RecordsPerSector + 1
BY SlotsAssumption, SMT

\* When the sector behind a full one has its header, the log ends in it.
NextIsInUse ==
  TypeOK => \A c, m \in Sectors, q \in Nat :
    Turned(c, m, q) /\ hdr[m] = q + 1 => Newest(m) /\ InUse(m)

\* It does: every other sector has a smaller number then, and is full or not in use.
LEMMA NextInUse == ASSUME NumSectors > 1 PROVE NextIsInUse
<1> SUFFICES ASSUME TypeOK, NEW c \in Sectors, NEW m \in Sectors, NEW q \in Nat,
                    Turned(c, m, q), hdr[m] = q + 1
             PROVE  Newest(m) /\ InUse(m)
  BY DEF NextIsInUse
<1>1. /\ c # m /\ m = NextSector(c)
      /\ m = IF c + 1 = NumSectors THEN 0 ELSE c + 1
      /\ NextSector(m) # m /\ NextSector(m) \in Sectors
      /\ c \in Nat /\ m \in Nat /\ c < NumSectors
  BY NextIsOther, NextSectorIs, SectorsAssumption DEF Turned, Sectors
<1>2. /\ \A s \in Sectors : hdr[s] \in Nat
      /\ RecordsPerSector \in Nat \ {0} /\ hdr[m] = hdr[c] + RecordsPerSector
  BY SlotsAssumption DEF TypeOK, Turned
<1>3. Newest(m)
  <2>1. \A s \in Sectors : s = m \/ hdr[s] <= hdr[c]
    BY DEF Turned
  <2> QED
    BY <1>2, <2>1 DEF Newest, NoHeader
<1>4. FullIfUsed(Sectors \ {m})
  BY DEF Turned
<1>5. CASE AllUsed(Sectors \ {m})
  <2>1. Wrapped(m)
    BY <1>1, <1>5 DEF Wrapped, AllUsed
  <2> QED
    BY <1>3, <1>4, <2>1 DEF InUse
<1>6. CASE FirstRound(c, Sectors \ {m}) /\ ~AllUsed(Sectors \ {m})
  <2>1. PICK s \in Sectors \ {m} : hdr[s] = NoHeader
    BY <1>6 DEF AllUsed
  <2>2. ~(s <= c) /\ s \in Nat /\ s < NumSectors
    BY <1>6, <2>1, SectorsAssumption DEF FirstRound, Sectors
  <2>3. m = c + 1
    BY <1>1, <2>2
  <2>4. hdr[m] = m * RecordsPerSector + 1
    BY <1>1, <1>2, <1>6, <2>3, NextStart DEF FirstRound
  <2>5. \A t \in Sectors \ {m} : t <= m <=> t <= c
    BY <1>1, <2>3 DEF Sectors
  <2>6. FirstRound(m, Sectors)
    BY <1>1, <1>3, <1>6, <2>4, <2>5 DEF FirstRound, Newest
  <2> QED
    BY <1>3, <1>4, <2>6 DEF InUse
<1> QED
  BY <1>5, <1>6 DEF Turned

\* Wherever it turns, a boot finds its end.
TurnedIsAtRest ==
  TypeOK => \A c, m \in Sectors, q \in Nat : Turned(c, m, q) => AtRest

\* It does: the end is where it was, or in the sector that was renewed.
LEMMA TurnedAtRest == ASSUME NumSectors > 1 PROVE TurnedIsAtRest
<1> SUFFICES ASSUME TypeOK, NEW c \in Sectors, NEW m \in Sectors, NEW q \in Nat,
                    Turned(c, m, q)
             PROVE  AtRest
  BY DEF TurnedIsAtRest
<1>1. CASE hdr[m] = q + 1
  BY <1>1, NextInUse DEF NextIsInUse, AtRest
<1>2. CASE hdr[m] # q + 1
  <2>1. /\ c # m /\ m = NextSector(c)
        /\ m = IF c + 1 = NumSectors THEN 0 ELSE c + 1
        /\ c \in Nat /\ m \in Nat /\ c < NumSectors
    BY NextIsOther, NextSectorIs, SectorsAssumption DEF Turned, Sectors
  <2>2. Full(c) /\ hdr[c] # NoHeader /\ \A s \in Sectors : hdr[s] \in Nat
    BY DEF Turned, Full, TypeOK
  <2>3. hdr[m] = NoHeader \/ (hdr[m] < hdr[c] /\ Full(m))
    BY <1>2 DEF Turned
  <2>4. Newest(c)
    <3>1. hdr[m] <= hdr[c]
      BY <2>2, <2>3 DEF NoHeader
    <3>2. \A s \in Sectors : s = m \/ hdr[s] <= hdr[c]
      BY DEF Turned
    <3> QED
      BY <2>2, <3>1, <3>2 DEF Newest
  <2>5. FullIfUsed(Sectors \ {c})
    BY <2>3 DEF Turned, FullIfUsed
  <2>6. CASE AllUsed(Sectors \ {m})
    BY <2>1, <2>2, <2>4, <2>5, <2>6 DEF AllUsed, Wrapped, InUse, AtRest
  <2>7. CASE FirstRound(c, Sectors \ {m}) /\ hdr[m] = NoHeader /\ ~AllUsed(Sectors \ {m})
    <3>1. PICK s \in Sectors \ {m} : hdr[s] = NoHeader
      BY <2>7 DEF AllUsed
    <3>2. ~(s <= c) /\ s \in Nat /\ s < NumSectors
      BY <2>7, <3>1, SectorsAssumption DEF FirstRound, Sectors
    <3>3. ~(m <= c)
      BY <2>1, <3>2
    <3>4. FirstRound(c, Sectors)
      BY <2>7, <3>3 DEF FirstRound
    <3> QED
      BY <2>4, <2>5, <3>4 DEF InUse, AtRest
  <2> QED
    BY <1>2, <2>6, <2>7 DEF Turned
<1> QED
  BY <1>1, <1>2

\* When the sector in which it ends is full, the log goes on in the next one.
FullTurns ==
  TypeOK /\ ~Twins => \A c \in Sectors, q \in Nat :
    Newest(c) /\ InUse(c) /\ Full(c) /\ q + 1 = hdr[c] + RecordsPerSector
      => Turned(c, NextSector(c), q)

\* It does: the next one holds older records, or is not in use.
LEMMA FullIsTurned == ASSUME NumSectors > 1 PROVE FullTurns
<1> SUFFICES ASSUME TypeOK, ~Twins, NEW c \in Sectors, NEW q \in Nat, Newest(c),
                    InUse(c), Full(c), q + 1 = hdr[c] + RecordsPerSector
             PROVE  Turned(c, NextSector(c), q)
  BY DEF FullTurns
<1>1. PICK m \in Sectors :
        /\ c # m /\ m = NextSector(c)
        /\ m = IF c + 1 = NumSectors THEN 0 ELSE c + 1
        /\ c \in Nat /\ m \in Nat /\ c < NumSectors
  BY NextIsOther, NextSectorIs, SectorsAssumption DEF Sectors
<1>2. hdr[c] # NoHeader /\ \A s \in Sectors : hdr[s] \in Nat /\ hdr[s] <= hdr[c]
  BY DEF Newest, TypeOK
<1>3. FullIfUsed(Sectors \ {m})
  BY DEF InUse, FullIfUsed
<1>4. hdr[m] = NoHeader \/ (hdr[m] < hdr[c] /\ Full(m))
  <2>1. hdr[m] # NoHeader => hdr[m] # hdr[c] /\ Full(m)
    BY <1>1 DEF Twins, InUse, FullIfUsed
  <2> QED
    BY <1>2, <2>1
<1>5. \/ AllUsed(Sectors \ {m})
      \/ FirstRound(c, Sectors \ {m}) /\ hdr[m] = NoHeader
  <2>1. CASE Wrapped(c)
    BY <1>1, <1>2, <2>1 DEF Wrapped, AllUsed
  <2>2. CASE FirstRound(c, Sectors) /\ m = c + 1
    <3>1. ~(m <= c)
      BY <1>1, <2>2
    <3> QED
      BY <2>2, <3>1 DEF FirstRound
  <2>3. CASE FirstRound(c, Sectors) /\ m # c + 1
    <3>1. \A s \in Sectors : s <= c
      BY <1>1, <2>3 DEF Sectors
    <3> QED
      BY <2>3, <3>1 DEF FirstRound, AllUsed
  <2> QED
    BY <2>1, <2>2, <2>3 DEF InUse
<1> QED
  BY <1>1, <1>2, <1>3, <1>4, <1>5 DEF Turned

-----------------------------------------------------------------------------
(***************************************************************************)
(* The steps.                                                              *)
(***************************************************************************)
\* A sector whose slots stay as they are, or get valid, stays full.
LEMMA FullKept ==
  ASSUME NEW s, Full(s), hdr'[s] = hdr[s],
         \A k \in Slots : slot'[s][k] = slot[s][k] \/ record_is_valid(slot'[s][k])
  PROVE  Full(s)'
BY DEF Full, record_is_valid

\* A flash that stays as it is is used as it was.
LEMMA UseStays ==
  ASSUME UNCHANGED flash
  PROVE  /\ \A p : InUse(p) => InUse(p)'
         /\ \A p : Newest(p) => Newest(p)'
         /\ \A c, m, q : Turned(c, m, q) => Turned(c, m, q)'
         /\ Unused(Sectors) => Unused(Sectors)'
         /\ AtRest => AtRest'
<1>1. hdr' = hdr /\ slot' = slot
  BY DEF flash
<1>2. \A s : Full(s) => Full(s)'
  BY <1>1 DEF Full, record_is_valid
<1>3. \A S : /\ FullIfUsed(S) => FullIfUsed(S)'
             /\ AllUsed(S) => AllUsed(S)'
             /\ \A p : FirstRound(p, S) => FirstRound(p, S)'
  BY <1>1, <1>2 DEF FullIfUsed, AllUsed, FirstRound
<1>4. \A p : InUse(p) => InUse(p)'
  BY <1>1, <1>2, <1>3 DEF InUse, Wrapped, NextSector
<1>5. \A p : Newest(p) => Newest(p)'
  BY <1>1 DEF Newest
<1>6. \A c, m, q : Turned(c, m, q) => Turned(c, m, q)'
  BY <1>1, <1>2, <1>3 DEF Turned, NextSector
<1>7. Unused(Sectors) => Unused(Sectors)'
  BY <1>1 DEF Unused
<1> QED
  BY <1>4, <1>5, <1>6, <1>7 DEF AtRest

\* Writing at the cursor fills the sector in which the log ends.
LEMMA UseWritten ==
  ASSUME LogInv, UseInv, Writing, NEW v, Tears = {},
         v \in {Program(OldSlot, NewRecord)} \cup Interrupted(OldSlot, NewRecord),
         SetSlot(v), UNCHANGED hdr
  PROVE  /\ Open /\ s_cur_sector \in Sectors
         /\ \A c : c = s_cur_sector => InUse(c)' /\ Newest(c)'
<1>0. OrderInv /\ TailInv /\ TypeOK /\ LockHolder
  BY DEF LogInv, OrderInv, NumberingInv
<1>1. AtCursor(v) /\ Free(OldSlot)
  BY <1>0, WrittenAtCursor
<1>2. v = OldSlot \/ v = NewRecord
  BY <1>1, FreeSlot DEF Writing
<1>3. PICK c : c = s_cur_sector
  OBVIOUS
<1>4. /\ s_cur_slot \in Slots /\ c \in Sectors
      /\ \A s \in Sectors, k \in Slots :
           slot'[s][k] = IF s = c /\ k = s_cur_slot THEN v ELSE slot[s][k]
  BY <1>0, <1>1, <1>3, SetSlotTail
<1>5. Open /\ InUse(c) /\ IsHead(c, Sectors)
  BY <1>0, <1>1, <1>3, WrittenOrder DEF UseInv
<1>6. \A s \in Sectors : Full(s) => Full(s)'
  <2> SUFFICES ASSUME NEW s \in Sectors, Full(s) PROVE Full(s)'
    OBVIOUS
  <2>1. record_is_valid(NewRecord)
    BY DEF NewRecord, record_is_valid
  <2>2. \A k \in Slots : slot'[s][k] = slot[s][k] \/ record_is_valid(slot'[s][k])
    BY <1>2, <1>3, <1>4, <2>1 DEF OldSlot
  <2> QED
    BY <2>2, FullKept
<1>7. Newest(c)'
  BY <1>5 DEF IsHead, Newest
<1>8. NextSector(c) \in Sectors
  BY <1>4, NextSectorIs
<1>9. FullIfUsed(Sectors \ {c})'
  BY <1>5, <1>6 DEF InUse, FullIfUsed
<1>10. FirstRound(c, Sectors) => FirstRound(c, Sectors)'
  BY DEF FirstRound
<1>11. Wrapped(c) => Wrapped(c)'
  BY <1>4, <1>6, <1>8 DEF Wrapped, AllUsed, NextSector
<1>12. InUse(c)'
  BY <1>5, <1>9, <1>10, <1>11 DEF InUse
<1> QED
  BY <1>3, <1>4, <1>5, <1>7, <1>12

\* A sector that is renewed stays the one in which the log goes on.
LEMMA UseRenewed ==
  ASSUME OrderInv, NEW m, NEW h, NEW d, Renews(m, h, d), NEW q, q = s_last_seq,
         NEW c, Turned(c, m, q), c # m, c \in Sectors
  PROVE  Turned(c, m, q)'
<1>1. /\ m \in Sectors /\ hdr'[m] = h /\ h \in {NoHeader, q + 1}
      /\ \A t \in Sectors \ {m} : hdr'[t] = hdr[t] /\ slot'[t] = slot[t]
  BY RenewedTarget DEF Others, Renews, HeaderSeq
<1>2. \A t \in Sectors \ {m} : Full(t) => Full(t)'
  BY <1>1, FullKept
<1>3. FullIfUsed(Sectors \ {m})'
  BY <1>1, <1>2 DEF Turned, FullIfUsed
<1>4. AllUsed(Sectors \ {m}) => AllUsed(Sectors \ {m})'
  BY <1>1 DEF AllUsed
<1>5. FirstRound(c, Sectors \ {m}) => FirstRound(c, Sectors \ {m})'
  BY <1>1 DEF FirstRound
<1>6. Full(c)' /\ hdr'[c] = hdr[c]
  BY <1>1, <1>2 DEF Turned
<1>7. /\ q + 1 = hdr'[c] + RecordsPerSector
      /\ \A s \in Sectors \ {m} : hdr'[s] <= hdr'[c]
      /\ hdr'[m] \in {NoHeader, q + 1}
  BY <1>1, <1>6 DEF Turned
<1>8. m = NextSector(c)
  BY DEF Turned
<1> QED
  BY <1>3, <1>4, <1>5, <1>6, <1>7, <1>8 DEF Turned, NextSector

\* The first header of all starts the log.
LEMMA UseStarted ==
  ASSUME OrderInv, NEW m, NEW h, NEW d, Renews(m, h, d), Untouched
  PROVE  /\ h = NoHeader => Unused(Sectors)'
         /\ h # NoHeader => m \in Sectors /\ InUse(m)' /\ Newest(m)'
<1>1. /\ m = 0 /\ m \in Sectors /\ hdr'[m] = h /\ h \in {NoHeader, 1}
      /\ \A t \in Sectors \ {m} : hdr'[t] = NoHeader
  <2>1. m \in Sectors /\ hdr'[m] = h /\ \A t \in Sectors \ {m} : hdr'[t] = hdr[t]
    BY RenewedTarget DEF Others
  <2>2. m = next /\ h \in {NoHeader, s_last_seq + 1}
    BY DEF Renews, HeaderSeq
  <2>3. next = 0 /\ s_last_seq = 0 /\ \A t \in Sectors : hdr[t] = NoHeader
    BY DEF Untouched, Unused
  <2> QED
    BY <2>1, <2>2, <2>3
<1>2. h = NoHeader => Unused(Sectors)'
  BY <1>1 DEF Unused
<1>3. ASSUME h # NoHeader
      PROVE  InUse(m)' /\ Newest(m)'
  <2>1. h = 1 /\ \A s \in Sectors : s <= m <=> s = m
    BY <1>1, <1>3, SectorsAssumption DEF Sectors
  <2>2. FirstRound(m, Sectors)'
    BY <1>1, <2>1, SlotsAssumption DEF FirstRound, NoHeader
  <2>3. FullIfUsed(Sectors \ {m})'
    BY <1>1 DEF FullIfUsed
  <2>4. Newest(m)'
    BY <1>1, <2>1 DEF Newest, NoHeader
  <2> QED
    BY <2>2, <2>3, <2>4 DEF InUse
<1> QED
  BY <1>1, <1>2, <1>3

\* What happened to the flash lets a boot find the end of the log.
LEMMA UseAtRest ==
  ASSUME LogInv, UseInv, TypeOK', NumSectors > 1, Tears = {},
         HalfWrite \/ HalfErase \/ HalfHeader \/ UNCHANGED flash
  PROVE  AtRest'
<1>0. OrderInv /\ TypeOK /\ LockHolder
  BY DEF LogInv, OrderInv, NumberingInv
<1>1. TurnedIsAtRest /\ TurnedIsAtRest'
  BY TurnedAtRest, PTL
<1>2. CASE HalfWrite
  <2>1. PICK v \in Interrupted(OldSlot, NewRecord) : SetSlot(v)
    BY <1>2 DEF HalfWrite
  <2>2. Writing /\ UNCHANGED hdr
    BY <1>2 DEF HalfWrite
  <2>3. PICK c : c = s_cur_sector
    OBVIOUS
  <2>4. c \in Sectors /\ InUse(c)' /\ Newest(c)'
    BY <2>1, <2>2, <2>3, UseWritten
  <2> QED
    BY <2>4 DEF AtRest
<1>3. CASE UNCHANGED flash
  <2>1. AtRest
    <3>1. CASE pc = "boot"
      BY <3>1 DEF UseInv
    <3>2. CASE Open
      <4>1. IsHead(s_cur_sector, Sectors)
        BY <1>0, <3>2 DEF OrderInv, OpenInv
      <4> QED
        BY <3>2, <4>1 DEF UseInv, AtRest, IsHead, Newest
    <3>3. CASE Closed /\ Untouched
      BY <3>3 DEF Untouched, AtRest
    <3>4. CASE Closed /\ Turned(s_cur_sector, Target, s_last_seq)
      BY <1>0, <1>1, <3>4, NextSectorIs DEF TurnedIsAtRest, TypeOK, Turned
    <3> QED
      BY <3>1, <3>2, <3>3, <3>4 DEF UseInv, Closed
  <2> QED
    BY <1>3, <2>1, UseStays
<1>4. CASE \E m, h, d : Renews(m, h, d)
  <2>1. PICK m, h, d : Renews(m, h, d)
    BY <1>4
  <2>2. Closed /\ m = Target /\ m \in Sectors
    BY <1>0, <2>1, RenewedTarget
  <2>3. CASE Untouched
    BY <1>0, <2>1, <2>3, UseStarted DEF AtRest
  <2>4. CASE Turned(s_cur_sector, Target, s_last_seq)
    <3>1. PICK c \in Sectors, q \in Nat : c = s_cur_sector /\ q = s_last_seq
      BY <1>0 DEF TypeOK
    <3>2. Turned(c, m, q) /\ m = NextSector(c)
      BY <2>2, <2>4, <3>1 DEF Turned
    <3>3. Turned(c, m, q)'
      BY <1>0, <2>1, <3>1, <3>2, NextIsOther, UseRenewed
    <3> QED
      BY <1>1, <2>2, <3>3 DEF TurnedIsAtRest
  <2> QED
    BY <2>2, <2>3, <2>4 DEF UseInv
<1> QED
  BY <1>0, <1>2, <1>3, <1>4, Renewing

\* A boot finds the last sector, and closes it only when it is full.
LEMMA UseBoot ==
  ASSUME LogInv, NoTorn, ~Twins, UseInv, Boot, NumSectors > 1, ReadsFail = FALSE
  PROVE  UseInv'
<1>0. TypeOK /\ RecordNumbering /\ NoGhost /\ AtRest /\ FullTurns
  BY FullIsTurned
     DEF LogInv, OrderInv, NumberingInv, TailInv, UseInv, Boot
<1>1. UNCHANGED flash
  BY DEF Boot
<1>2. \/ Unused(Sectors) /\ BootFormat
      \/ \E b \in Sectors : NewestSector(b, Sectors) /\ BootResume(b, Slots)
  BY DEF Boot, Unused
<1>3. CASE Unused(Sectors) /\ BootFormat
  <2>1. Untouched' /\ pc' = "erase"
    BY <1>1, <1>3, UseStays DEF BootFormat, Untouched
  <2>2. ~Open'
    BY <1>3 DEF BootFormat, Open
  <2> QED
    BY <2>1, <2>2 DEF UseInv
<1>4. CASE \E b \in Sectors : NewestSector(b, Sectors) /\ BootResume(b, Slots)
  <2>1. PICK b \in Sectors : NewestSector(b, Sectors) /\ BootResume(b, Slots)
    BY <1>4
  <2>2. PICK n \in 0 .. RecordsPerSector :
          /\ ScanStops(b, n, Slots)
          /\ s_cur_sector' = b
          /\ s_cur_slot' = SlotAfterScan(b, n, Slots)
          /\ s_last_seq' \in ScannedSeqs(b, n)
          /\ \A q \in ScannedSeqs(b, n) : q <= s_last_seq'
          /\ IF s_cur_slot' >= RecordsPerSector
               THEN next' = NextSector(b) /\ pc' = "erase" /\ s_ready' = FALSE
               ELSE next' = 0 /\ pc' = "idle" /\ s_ready' = TRUE
    BY <2>1 DEF BootResume
  <2>3. hdr[b] # NoHeader /\ \A s \in Sectors : hdr[s] \in Nat /\ hdr[s] <= hdr[b]
    BY <1>0, <2>1 DEF NewestSector, TypeOK
  <2>4. InUse(b) /\ Newest(b)
    <3>1. PICK p \in Sectors : Newest(p) /\ InUse(p)
      BY <1>0, <2>3 DEF AtRest, Unused
    <3>2. hdr[p] = hdr[b]
      BY <2>3, <3>1 DEF Newest
    <3>3. p = b
      BY <2>3, <3>2 DEF Twins
    <3> QED
      BY <3>1, <3>3
  <2>5. InUse(b)' /\ Newest(b)'
    BY <1>1, <2>4, UseStays
  <2>6. CASE s_cur_slot' >= RecordsPerSector
    <3>1. ~Open' /\ pc' = "erase" /\ s_ready' = FALSE /\ next' = NextSector(b)
      BY <2>2, <2>6 DEF Open
    <3>2. n \notin Slots
      <4> SUFFICES ASSUME n \in Slots PROVE FALSE
        OBVIOUS
      <4>1. slot[b][n].st \notin {"empty", "ghost", "valid"}
        BY <2>2, <2>6, SlotsAssumption
           DEF SlotAfterScan, ScanStops, record_is_empty, record_is_valid, Slots
      <4>2. slot[b][n].st \in SlotState /\ slot[b][n].st # "torn"
        BY <1>0, <2>3 DEF TypeOK, SlotValue, NoTorn
      <4> QED
        BY <4>1, <4>2 DEF SlotState
    <3>3. n = RecordsPerSector
      BY <3>2, SlotsAssumption DEF Slots
    <3>4. Full(b)
      BY <2>2, <2>3, <3>3, SlotsAssumption DEF ScanStops, Full, Slots
    <3>5. PICK q : q = s_last_seq'
      OBVIOUS
    <3>6. q + 1 = hdr[b] + RecordsPerSector
      BY <1>0, <2>2, <2>3, <3>3, <3>5, ScanRecoversNumber
    <3>7. q \in Nat
      <4>1. q \in ScannedSeqs(b, n) /\ hdr[b] - 1 \in Nat
        BY <2>2, <2>3, <3>5 DEF NoHeader
      <4>2. \A k \in Slots : slot[b][k].seq \in Nat
        BY <1>0 DEF TypeOK, SlotValue
      <4> QED
        BY <4>1, <4>2 DEF ScannedSeqs
    <3>8. PICK m : m = NextSector(b)
      OBVIOUS
    <3>9. Turned(b, m, q)
      BY <1>0, <2>4, <3>4, <3>6, <3>7, <3>8 DEF FullTurns
    <3>10. Turned(b, m, q)'
      BY <1>1, <3>9, UseStays
    <3>11. Target' = m /\ s_cur_sector' = b /\ s_last_seq' = q
      BY <2>2, <3>1, <3>5, <3>8 DEF Target
    <3> QED
      BY <3>1, <3>10, <3>11 DEF UseInv, Turned
  <2>7. CASE ~(s_cur_slot' >= RecordsPerSector)
    <3>1. s_ready' = TRUE /\ pc' = "idle"
      BY <2>2, <2>7
    <3>2. Open'
      <4>1. s_cur_slot' = n
        BY <2>2, <2>7, SlotsAssumption DEF SlotAfterScan
      <4> QED
        BY <2>7, <3>1, <4>1, SlotsAssumption DEF Open
    <3> QED
      BY <2>2, <2>5, <3>1, <3>2 DEF UseInv, Closed, InUse
  <2> QED
    BY <2>6, <2>7
<1> QED
  BY <1>2, <1>3, <1>4

\* A call that touches neither the flash nor the cursor keeps it.
LEMMA UseCall ==
  ASSUME UseInv, UNCHANGED <<flash, cursor>>, s_ready, pc # "boot", pc' # "boot"
  PROVE  UseInv'
<1>1. /\ s_cur_sector' = s_cur_sector /\ s_cur_slot' = s_cur_slot
      /\ s_last_seq' = s_last_seq /\ s_ready' = s_ready /\ UNCHANGED flash
  BY DEF cursor
<1>2. PICK c, m, q : c = s_cur_sector /\ m = Target /\ q = s_last_seq
  OBVIOUS
<1>3. Target' = m /\ s_cur_sector' = c /\ s_last_seq' = q
  BY <1>1, <1>2 DEF Target, NextSector
<1>4. CASE Open
  <2>1. InUse(c)' /\ Open'
    BY <1>1, <1>2, <1>4, UseStays DEF UseInv, Open
  <2> QED
    BY <1>3, <2>1 DEF UseInv, Closed, InUse
<1>5. CASE Closed
  <2>1. ~Open'
    BY <1>1, <1>5 DEF Closed, Open
  <2>2. Turned(c, m, q)
    BY <1>2, <1>5 DEF UseInv, Untouched
  <2>3. Turned(c, m, q)'
    BY <1>1, <2>2, UseStays
  <2> QED
    BY <1>3, <2>1, <2>3 DEF UseInv, Turned
<1> QED
  BY <1>4, <1>5 DEF Closed

\* Erasing Target, wholly or not, or writing a part of its header, keeps it.
LEMMA UseErased ==
  ASSUME LogInv, UseInv, TypeOK', NumSectors > 1, UNCHANGED cursor, NEW m, NEW h, NEW d,
         Renews(m, h, d), pc' # "boot", s_ready \/ (next' = next /\ h = NoHeader)
  PROVE  UseInv'
<1>0. OrderInv /\ TypeOK
  BY DEF LogInv, OrderInv, NumberingInv
<1>1. Closed /\ m = Target /\ m \in Sectors
  BY <1>0, RenewedTarget
<1>2. /\ s_cur_sector' = s_cur_sector /\ s_cur_slot' = s_cur_slot
      /\ s_last_seq' = s_last_seq /\ s_ready' = s_ready
  BY DEF cursor
<1>3. ~Open'
  BY <1>1, <1>2 DEF Open, Closed
<1>4. CASE Untouched
  <2>1. Unused(Sectors)' /\ ~s_ready
    BY <1>0, <1>4, UseStarted DEF Untouched
  <2>2. Untouched'
    BY <1>2, <1>4, <2>1 DEF Untouched
  <2> QED
    BY <1>3, <2>2 DEF UseInv
<1>5. CASE Turned(s_cur_sector, Target, s_last_seq)
  <2>1. PICK c \in Sectors, q \in Nat : c = s_cur_sector /\ q = s_last_seq
    BY <1>0 DEF TypeOK
  <2>2. Turned(c, m, q) /\ m = NextSector(c)
    BY <1>1, <1>5, <2>1 DEF Turned
  <2>3. Turned(c, m, q)'
    BY <1>0, <2>1, <2>2, NextIsOther, UseRenewed
  <2>4. Target' = m /\ s_cur_sector' = c /\ s_last_seq' = q
    BY <1>1, <1>2, <2>1 DEF Target, NextSector
  <2> QED
    BY <1>3, <2>3, <2>4 DEF UseInv, Turned
<1> QED
  BY <1>1, <1>4, <1>5 DEF UseInv

\* A closed log that is ready was closed by filling a sector.
LEMMA UseIsFull == UseInv /\ LockHolder /\ TypeOK => FullInv
<1> SUFFICES ASSUME UseInv, LockHolder, TypeOK, s_ready, s_cur_slot >= RecordsPerSector
             PROVE  FullInv
  BY DEF FullInv
<1>1. Closed
  BY SlotsAssumption DEF LockHolder, Closed, Open, TypeOK
<1> QED
  BY <1>1 DEF UseInv, Untouched, Turned, Full, FullInv

\* Every step keeps to what UseInv says of the sectors in use.
LEMMA UseStep ==
  ASSUME LogInv, NoTorn, ~Twins, UseInv, NumSectors > 1, Tears = {}, ReadsFail = FALSE,
         [Next]_vars
  PROVE  UseInv'
<1>0. /\ OrderInv /\ TypeOK /\ LockHolder /\ TypeOK' /\ LockHolder'
      /\ LogInv' /\ NoTorn' /\ ~Twins' /\ FullInv'
  <2>1. OrderInv /\ TypeOK /\ LockHolder
    BY DEF LogInv, OrderInv, NumberingInv
  <2>2. LogInv' /\ NoTorn' /\ ~Twins'
    BY LogInvStep, NoTwinsStep
  <2>3. FullInv'
    BY <2>1, UseIsFull, FullStep
  <2> QED
    BY <2>1, <2>2, <2>3 DEF LogInv, OrderInv, NumberingInv
<1>1. CASE Boot
  BY <1>1, UseBoot
<1>2. CASE EraseSector
  <2>1. Renews(next, NoHeader, BlankSlots)
    BY <1>2 DEF EraseSector, Renews
  <2>2. UNCHANGED cursor /\ pc' # "boot" /\ next' = next
    BY <1>2 DEF EraseSector
  <2> QED
    BY <1>0, <2>1, <2>2, UseErased
<1>3. CASE WriteHeader
  <2>1. PICK m, h : m = next /\ h = HeaderSeq
    OBVIOUS
  <2>2. Renews(m, h, BlankSlots)
    BY <1>0, <1>3, <2>1 DEF WriteHeader, Renews, LockHolder, TypeOK
  <2>3. Closed /\ m = Target /\ m \in Sectors /\ hdr'[m] = h /\ h # NoHeader
    BY <1>0, <2>1, <2>2, RenewedTarget DEF HeaderSeq, TypeOK, NoHeader
  <2>4. InUse(m)'
    <3>1. CASE Untouched
      BY <1>0, <2>2, <2>3, <3>1, UseStarted
    <3>2. CASE Turned(s_cur_sector, Target, s_last_seq)
      <4>1. PICK c \in Sectors, q \in Nat : c = s_cur_sector /\ q = s_last_seq
        BY <1>0 DEF TypeOK
      <4>2. Turned(c, m, q) /\ m = NextSector(c)
        BY <2>3, <3>2, <4>1 DEF Turned
      <4>3. Turned(c, m, q)'
        BY <1>0, <2>2, <4>1, <4>2, NextIsOther, UseRenewed
      <4>4. hdr'[m] = q + 1
        BY <2>1, <2>3, <4>1 DEF HeaderSeq
      <4>5. NextIsInUse'
        BY NextInUse, PTL
      <4> QED
        BY <1>0, <2>3, <4>3, <4>4, <4>5 DEF NextIsInUse
    <3> QED
      BY <2>3, <3>1, <3>2 DEF UseInv
  <2>5. /\ s_cur_sector' = m /\ s_cur_slot' = 0 /\ s_ready' = TRUE /\ pc' # "boot"
    BY <1>3, <2>1 DEF WriteHeader, CursorAfterAdvance
  <2>6. Open'
    BY <2>5, SlotsAssumption DEF Open
  <2> QED
    BY <2>4, <2>5, <2>6 DEF UseInv, Closed, InUse
<1>4. CASE AddRecord \/ Flush \/ FlushDone \/ AdvanceSector
  <2>1. UNCHANGED <<flash, cursor>> /\ pc # "boot" /\ pc' # "boot" /\ s_ready
    BY <1>0, <1>4
       DEF AddRecord, Flush, FlushDone, FinishFlush, AdvanceSector, LockHolder
  <2> QED
    BY <2>1, UseCall
<1>5. CASE WriteRecord
  <2>1. PICK v : v = Program(OldSlot, NewRecord)
    OBVIOUS
  <2>2. Writing /\ SetSlot(v) /\ UNCHANGED hdr
    BY <1>5, <2>1 DEF WriteRecord
  <2>3. PICK c : c = s_cur_sector
    OBVIOUS
  <2>4. Open /\ c \in Sectors /\ InUse(c)' /\ Newest(c)'
    BY <2>1, <2>2, <2>3, UseWritten
  <2>5. s_cur_sector' = c /\ s_ready' = TRUE /\ pc' = "flush"
    BY <1>0, <1>5, <2>2, <2>3, <2>4 DEF WriteRecord, Writing, Open, TypeOK
  <2>6. CASE Open'
    BY <2>4, <2>5, <2>6 DEF UseInv, Closed, InUse
  <2>7. CASE ~Open'
    <3>1. s_cur_slot' >= RecordsPerSector
      BY <1>0, <2>5, <2>7, SlotsAssumption DEF Open, TypeOK
    <3>2. PICK m, q : m = NextSector(c) /\ q = s_last_seq' /\ q \in Nat
      BY <1>0 DEF TypeOK
    <3>3. /\ hdr'[c] # NoHeader /\ q + 1 = hdr'[c] + RecordsPerSector
          /\ \A k \in Slots : record_is_valid(slot'[c][k])
      BY <1>0, <2>5, <3>1, <3>2 DEF FullInv, record_is_valid
    <3>4. Full(c)'
      BY <3>3 DEF Full, record_is_valid
    <3>5. FullTurns'
      BY FullIsTurned, PTL
    <3>6. Turned(c, m, q)'
      BY <1>0, <2>4, <3>2, <3>3, <3>4, <3>5 DEF FullTurns, NextSector
    <3>7. Target' = m
      BY <2>5, <3>2 DEF Target, NextSector
    <3> QED
      BY <2>5, <2>7, <3>2, <3>6, <3>7 DEF UseInv, Turned
  <2> QED
    BY <2>6, <2>7
<1>6. CASE FlashError /\ s_ready
  <2>1. /\ UNCHANGED cursor /\ pc' \in {"idle", "flush"} /\ pc # "boot"
    BY <1>0, <1>6 DEF FlashError, FinishFlush, LockHolder
  <2>2. CASE HalfWrite
    <3>1. PICK v \in Interrupted(OldSlot, NewRecord) : SetSlot(v)
      BY <2>2 DEF HalfWrite
    <3>2. Writing /\ UNCHANGED hdr
      BY <2>2 DEF HalfWrite
    <3>3. PICK c : c = s_cur_sector
      OBVIOUS
    <3>4. Open /\ InUse(c)'
      BY <3>1, <3>2, <3>3, UseWritten
    <3>5. s_cur_sector' = c /\ Open'
      BY <2>1, <3>3, <3>4 DEF Open, cursor
    <3> QED
      BY <2>1, <3>4, <3>5 DEF UseInv, Closed, InUse
  <2>3. CASE UNCHANGED flash
    BY <1>6, <2>1, <2>3, UseCall
  <2>4. CASE \E m, h, d : Renews(m, h, d)
    BY <1>0, <1>6, <2>1, <2>4, UseErased
  <2> QED
    BY <1>0, <1>6, <2>2, <2>3, <2>4, Renewing DEF FlashError
<1>7. CASE (FlashError /\ ~s_ready) \/ PowerLoss
  <2>1. s_ready' = FALSE /\ pc' = "boot"
    BY <1>7 DEF FlashError, PowerLoss, Reset
  <2>2. AtRest'
    BY <1>0, <1>7, UseAtRest DEF FlashError, PowerLoss
  <2> QED
    BY <2>1, <2>2 DEF UseInv, Open, Closed
<1>8. CASE UNCHANGED vars
  <2>1. UNCHANGED flash /\ UNCHANGED cursor /\ pc' = pc /\ next' = next
    BY <1>8 DEF vars
  <2>2. CASE pc = "boot"
    BY <1>0, <2>1, <2>2, UseStays DEF UseInv, Open, Closed, LockHolder
  <2>3. CASE pc # "boot" /\ s_ready
    BY <2>1, <2>3, UseCall
  <2>4. CASE pc # "boot" /\ ~s_ready
    <3>1. PICK c, m, q : c = s_cur_sector /\ m = Target /\ q = s_last_seq
      OBVIOUS
    <3>2. Closed /\ ~Open'
      BY <2>1, <2>4 DEF Closed, Open, cursor
    <3>3. Untouched => Untouched'
      BY <2>1, UseStays DEF Untouched, cursor
    <3>4. Turned(c, m, q) => Turned(c, m, q)'
      BY <2>1, UseStays
    <3>5. Target' = m /\ s_cur_sector' = c /\ s_last_seq' = q
      BY <2>1, <2>4, <3>1 DEF Target, cursor
    <3>6. Untouched \/ Turned(c, m, q)
      BY <3>1, <3>2 DEF UseInv
    <3> QED
      BY <2>1, <2>4, <3>2, <3>3, <3>4, <3>5, <3>6 DEF UseInv, Turned
  <2> QED
    BY <2>2, <2>3, <2>4
<1> QED
  BY <1>1, <1>2, <1>3, <1>4, <1>5, <1>6, <1>7, <1>8 DEF Next, LogStep

\* The log is used so in every reachable state.
LEMMA UseInvariant ==
  ASSUME NumSectors > 1, Tears = {}, ReadsFail = FALSE
  PROVE  Spec => [](LogInv /\ ~Twins /\ UseInv)
<1>1. Init => NoTorn /\ ~Twins /\ UseInv
  BY DEF Init, NoTorn, Twins, UseInv, AtRest, Unused, Open, Closed
<1>2. LogInv /\ NoTorn /\ ~Twins /\ UseInv /\ [Next]_vars => NoTorn' /\ ~Twins' /\ UseInv'
  BY NoTwinsStep, UseStep
<1>3. Spec => []LogInv
  BY LogInvariant
<1> QED
  BY <1>1, <1>2, <1>3, PTL DEF Spec

-----------------------------------------------------------------------------
(***************************************************************************)
(* Counting the records.                                                   *)
(***************************************************************************)
\* A sample can be read in one place only.
LEMMA OnePlaceOnly ==
  ASSUME LogInv, ~Twins, NEW s \in Sectors, NEW t \in Sectors, NEW j \in Slots,
         NEW k \in Slots, Stored(s, j), Stored(t, k), slot[s][j].id = slot[t][k].id
  PROVE  s = t /\ j = k
<1>1. /\ slot[s][j].seq = hdr[s] + j /\ slot[t][k].seq = hdr[t] + k
      /\ hdr[s] \in Nat /\ hdr[t] \in Nat /\ j \in Nat /\ k \in Nat
      /\ hdr[s] # NoHeader
  BY SlotsAssumption
     DEF LogInv, OrderInv, NumberingInv, RecordNumbering, TypeOK, Stored, Slots
<1>2. slot[s][j].id \in Nat /\ slot[t][k].id \in Nat
  BY StoredSampled
<1>3. ~(slot[s][j].seq < slot[t][k].seq) /\ ~(slot[t][k].seq < slot[s][j].seq)
  BY <1>2 DEF LogInv, IdOrder
<1>4. hdr[s] + j = hdr[t] + k
  BY <1>1, <1>3
<1>5. ~(hdr[s] < hdr[t]) /\ ~(hdr[t] < hdr[s])
  BY <1>1, <1>4 DEF LogInv, OrderInv, RangesApart
<1>6. hdr[s] = hdr[t]
  BY <1>1, <1>5
<1>7. s = t
  BY <1>1, <1>6 DEF Twins
<1> QED
  BY <1>1, <1>4, <1>6, <1>7

\* There are finitely many samples to be read.
LEMMA FiniteLog ==
  ASSUME LogInv PROVE IsFiniteSet(VisibleIds) /\ Cardinality(VisibleIds) \in Nat
<1>1. VisibleIds \in SUBSET Nat /\ \A x \in VisibleIds : x <= sampled
  <2>1. TailInv
    BY DEF LogInv, OrderInv
  <2>2. \A x \in VisibleIds : x \in Nat /\ x <= sampled
    BY <2>1, VisibleIdsAre, StoredSampled DEF VisibleAreStored, StoredId
  <2> QED
    BY <2>2
<1>2. sampled \in Nat
  BY BoundsAssumption DEF LogInv, OrderInv, NumberingInv, TypeOK
<1>3. IsFiniteSet(VisibleIds)
  BY <1>1, <1>2, FS_BoundedSetOfNaturals
<1> QED
  BY <1>3, FS_CardinalityType

\* There are as many of them as there are places with a record.
LEMMA CountPlaces ==
  ASSUME LogInv, ~Twins, NEW P \in SUBSET (Sectors \X Slots),
         \A p \in P : Stored(p[1], p[2])
  PROVE  Cardinality(P) <= Cardinality(VisibleIds)
<1>1. PICK f : f = [p \in P |-> slot[p[1]][p[2]].id]
  OBVIOUS
<1>2. \A p \in P : p[1] \in Sectors /\ p[2] \in Slots /\ p = <<p[1], p[2]>>
  OBVIOUS
<1>3. f \in [P -> VisibleIds]
  <2>1. TailInv
    BY DEF LogInv, OrderInv
  <2>2. \A p \in P : slot[p[1]][p[2]].id \in VisibleIds
    BY <1>2, <2>1, VisibleIdsAre DEF VisibleAreStored, StoredId
  <2> QED
    BY <1>1, <2>2
<1>4. \A p, r \in P : f[p] = f[r] => p = r
  <2> SUFFICES ASSUME NEW p \in P, NEW r \in P, f[p] = f[r] PROVE p = r
    OBVIOUS
  <2>1. slot[p[1]][p[2]].id = slot[r[1]][r[2]].id
    BY <1>1
  <2>2. p[1] = r[1] /\ p[2] = r[2]
    BY <1>2, <2>1, OnePlaceOnly
  <2> QED
    BY <1>2, <2>2
<1>5. f \in Injection(P, VisibleIds)
  BY <1>3, <1>4 DEF Injection, IsInjective
<1> QED
  BY <1>5, FiniteLog, FS_Injection

\* The records of full sectors, and of the beginning of another one.
LEMMA SlotCount ==
  ASSUME NEW n \in 0 .. RecordsPerSector
  PROVE  /\ IsFiniteSet(0 .. n - 1) /\ Cardinality(0 .. n - 1) = n
         /\ 0 .. n - 1 \in SUBSET Slots
BY SlotsAssumption, FS_Interval DEF Slots

\* A full sector has RecordsPerSector samples that can be read.
LEMMA CountFull ==
  ASSUME LogInv, ~Twins, NEW U \in SUBSET Sectors, NEW n \in Nat, IsFiniteSet(U),
         Cardinality(U) = n, \A s \in U : Full(s)
  PROVE  n * RecordsPerSector <= Cardinality(VisibleIds)
<1>1. PICK P : P = U \X Slots
  OBVIOUS
<1>2. IsFiniteSet(Slots) /\ Cardinality(Slots) = RecordsPerSector
  BY SlotsAssumption, FS_Interval DEF Slots
<1>3. Cardinality(P) = n * RecordsPerSector
  BY <1>1, <1>2, FS_Product
<1>4. P \in SUBSET (Sectors \X Slots) /\ \A p \in P : Stored(p[1], p[2])
  BY <1>1 DEF Full, Stored
<1> QED
  BY <1>3, <1>4, CountPlaces

\* All sectors but one are full.
LEMMA CountRing ==
  ASSUME LogInv, ~Twins, NEW u \in Sectors, \A s \in Sectors \ {u} : Full(s)
  PROVE  (NumSectors - 1) * RecordsPerSector <= Cardinality(VisibleIds)
<1>1. PICK U : U = Sectors \ {u}
  OBVIOUS
<1>2. IsFiniteSet(Sectors) /\ Cardinality(Sectors) = NumSectors
  BY SectorsAssumption, FS_Interval DEF Sectors
<1>3. IsFiniteSet(U) /\ Cardinality(U) = NumSectors - 1 /\ U \in SUBSET Sectors
  BY <1>1, <1>2, FS_RemoveElement
<1> QED
  BY <1>1, <1>3, CountFull, SectorsAssumption

\* The sectors before c are full, and c has n records.
LEMMA CountStart ==
  ASSUME LogInv, ~Twins, NEW c \in Sectors, NEW n \in 0 .. RecordsPerSector,
         \A s \in Sectors : s < c => Full(s),
         \A k \in Slots : k < n => Stored(c, k)
  PROVE  c * RecordsPerSector + n <= Cardinality(VisibleIds)
<1>1. PICK A, B, D, E : A = 0 .. c - 1 /\ B = A \X Slots /\ D = 0 .. n - 1 /\ E = {c} \X D
  OBVIOUS
<1>2. c \in Nat /\ c < NumSectors /\ n \in Nat
  BY SectorsAssumption, SlotsAssumption DEF Sectors
<1>3. IsFiniteSet(A) /\ Cardinality(A) = c /\ \A s \in A : s \in Sectors /\ s < c
  <2>1. \A s \in A : s \in Sectors /\ s < c
    BY <1>1, <1>2, SectorsAssumption DEF Sectors
  <2> QED
    BY <1>1, <1>2, <2>1, FS_Interval
<1>4. IsFiniteSet(Slots) /\ Cardinality(Slots) = RecordsPerSector
  BY SlotsAssumption, FS_Interval DEF Slots
<1>5. IsFiniteSet(B) /\ Cardinality(B) = c * RecordsPerSector
  BY <1>1, <1>3, <1>4, FS_Product
<1>6. IsFiniteSet(D) /\ Cardinality(D) = n /\ D \in SUBSET Slots
  BY <1>1, SlotCount
<1>7. IsFiniteSet(E) /\ Cardinality(E) = n
  <2>1. IsFiniteSet({c}) /\ Cardinality({c}) = 1
    BY FS_Singleton
  <2>2. IsFiniteSet({c} \X D) /\ Cardinality({c} \X D) = Cardinality({c}) * Cardinality(D)
    BY <1>6, <2>1, FS_Product
  <2> QED
    BY <1>1, <1>2, <1>6, <2>1, <2>2
<1>8. B \cap E = {}
  BY <1>1, <1>2, <1>3
<1>9. PICK P : P = B \cup E
  OBVIOUS
<1>10. Cardinality(P) = c * RecordsPerSector + n
  <2>1. Cardinality(B \cap E) = 0
    BY <1>8, FS_EmptySet
  <2>2. Cardinality(P) = Cardinality(B) + Cardinality(E) - Cardinality(B \cap E)
    BY <1>5, <1>7, <1>9, FS_Union
  <2>3. c * RecordsPerSector \in Nat
    BY <1>2, SlotsAssumption
  <2> QED
    BY <1>2, <1>5, <1>7, <2>1, <2>2, <2>3
<1>11. \A p \in P : p \in Sectors \X Slots /\ Stored(p[1], p[2])
  <2>1. \A p \in B : p \in Sectors \X Slots /\ Stored(p[1], p[2])
    BY <1>1, <1>3 DEF Full, Stored
  <2>2. \A p \in E : p \in Sectors \X Slots /\ Stored(p[1], p[2])
    <3>1. \A k \in D : k \in Slots /\ k < n
      BY <1>1, <1>2, <1>6
    <3> QED
      BY <1>1, <3>1
  <2> QED
    BY <1>9, <2>1, <2>2
<1> QED
  BY <1>10, <1>11, CountPlaces

\* The log so used has all records, or those of all sectors but one.
HasEnough ==
  \/ s_last_seq <= Cardinality(VisibleIds)
  \/ (NumSectors - 1) * RecordsPerSector <= Cardinality(VisibleIds)

UsedIsEnough == LogInv /\ ~Twins /\ UseInv /\ s_ready => HasEnough

\* While it has not gone round, it has all.
LEMMA StartIsEnough ==
  ASSUME LogInv, ~Twins, NEW c \in Sectors, NEW n \in 0 .. RecordsPerSector,
         \A s \in Sectors : s < c => Full(s), \A k \in Slots : k < n => Stored(c, k),
         s_last_seq = c * RecordsPerSector + n
  PROVE  HasEnough
BY CountStart DEF HasEnough

\* When all sectors but one are full, it has those.
LEMMA RingIsEnough ==
  ASSUME LogInv, ~Twins, NEW u \in Sectors, FullIfUsed(Sectors \ {u}),
         AllUsed(Sectors \ {u})
  PROVE  HasEnough
BY CountRing DEF HasEnough, FullIfUsed, AllUsed

\* In the first round and later, wherever the cursor stands, the sectors in use
\* hold what Retention asks for.
LEMMA UsedEnough == ASSUME NumSectors > 1 PROVE UsedIsEnough
<1> SUFFICES ASSUME LogInv, ~Twins, UseInv, s_ready PROVE HasEnough
  BY DEF UsedIsEnough
<1>0. /\ TypeOK /\ LockHolder /\ CursorNumbering /\ CursorTail
      /\ RecordsPerSector \in Nat \ {0} /\ pc # "boot"
  BY SlotsAssumption DEF LogInv, OrderInv, NumberingInv, TailInv, LockHolder
<1>1. PICK c \in Sectors, q \in Nat, n \in 0 .. RecordsPerSector :
        c = s_cur_sector /\ q = s_last_seq /\ n = s_cur_slot
  BY <1>0 DEF TypeOK
<1>2. PICK m \in Sectors : m = NextSector(c) /\ m # c
  BY NextSectorIs, NextIsOther
<1>3. c \in Nat /\ m \in Nat /\ m = IF c + 1 = NumSectors THEN 0 ELSE c + 1
  BY <1>2, NextSectorIs, SectorsAssumption DEF Sectors
<1>4. CASE Open
  <2>1. InUse(c)
    BY <1>1, <1>4 DEF UseInv
  <2>2. hdr[c] # NoHeader /\ q + 1 = hdr[c] + n /\ n < RecordsPerSector
    BY <1>0, <1>1, <1>4 DEF Open, CursorNumbering
  <2>3. CASE FirstRound(c, Sectors)
    <3>1. q = c * RecordsPerSector + n
      <4>1. hdr[c] = c * RecordsPerSector + 1 /\ c * RecordsPerSector \in Nat
        BY <1>0, <1>3, <2>3 DEF FirstRound
      <4> QED
        BY <2>2, <4>1
    <3>2. \A s \in Sectors : s < c => Full(s)
      BY <1>3, <2>1, <2>3, SectorsAssumption DEF FirstRound, InUse, FullIfUsed, Sectors
    <3>3. \A k \in Slots : k < n => Stored(c, k)
      BY <1>0, <1>1, <1>4, <2>2 DEF CursorTail, Stored, Open
    <3> QED
      BY <1>1, <3>1, <3>2, <3>3, StartIsEnough
  <2>4. CASE Wrapped(c) /\ hdr[m] # NoHeader
    <3>1. AllUsed(Sectors \ {c})
      BY <1>2, <2>4 DEF Wrapped, AllUsed
    <3> QED
      BY <2>1, <3>1, RingIsEnough DEF InUse
  <2>5. CASE Wrapped(c) /\ hdr[m] = NoHeader
    <3>1. Full(c) /\ AllUsed(Sectors \ {m})
      BY <1>2, <2>2, <2>5 DEF Wrapped, AllUsed
    <3>2. FullIfUsed(Sectors \ {m})
      BY <2>1, <3>1 DEF InUse, FullIfUsed
    <3> QED
      BY <3>1, <3>2, RingIsEnough
  <2> QED
    BY <2>1, <2>3, <2>4, <2>5 DEF InUse
<1>5. CASE Closed
  <2>1. Turned(c, m, q)
    <3>1. Target = m
      BY <1>1, <1>2 DEF Target
    <3> QED
      BY <1>1, <1>5, <3>1 DEF UseInv, Untouched
  <2>2. CASE AllUsed(Sectors \ {m})
    BY <2>1, <2>2, RingIsEnough DEF Turned
  <2>3. CASE FirstRound(c, Sectors \ {m}) /\ ~AllUsed(Sectors \ {m})
    <3>1. PICK s \in Sectors \ {m} : hdr[s] = NoHeader
      BY <2>3 DEF AllUsed
    <3>2. ~(s <= c) /\ s \in Nat /\ s < NumSectors
      BY <2>3, <3>1, SectorsAssumption DEF FirstRound, Sectors
    <3>3. m = c + 1
      BY <1>3, <3>2, SectorsAssumption
    <3>4. \A t \in Sectors : t < c => Full(t)
      BY <1>3, <2>1, <2>3, <3>3, SectorsAssumption
         DEF FirstRound, Turned, FullIfUsed, Sectors
    <3>5. \A k \in Slots : k < RecordsPerSector => Stored(c, k)
      BY <2>1 DEF Turned, Full, Stored
    <3>6. q = c * RecordsPerSector + RecordsPerSector
      <4>1. hdr[c] = c * RecordsPerSector + 1 /\ c * RecordsPerSector \in Nat
        BY <1>0, <1>3, <2>3 DEF FirstRound
      <4> QED
        BY <1>0, <2>1, <4>1 DEF Turned
    <3>7. RecordsPerSector \in 0 .. RecordsPerSector
      BY <1>0
    <3> QED
      BY <1>1, <3>4, <3>5, <3>6, <3>7, StartIsEnough
  <2> QED
    BY <2>1, <2>2, <2>3 DEF Turned
<1> QED
  BY <1>0, <1>4, <1>5 DEF Closed

\* It then keeps what it promises.
EnoughIsRetained == LogInv /\ (s_ready => HasEnough) => Retention

\* Retention says the same with the floor computed first.
LEMMA EnoughRetained == EnoughIsRetained
<1> SUFFICES ASSUME LogInv, s_ready => HasEnough PROVE Retention
  BY DEF EnoughIsRetained
<1>1. PICK floor, size : floor = (NumSectors - 1) * RecordsPerSector
                         /\ size = Cardinality(VisibleIds)
  OBVIOUS
<1>2. floor \in Nat /\ size \in Nat /\ s_last_seq \in Nat
  BY <1>1, SectorsAssumption, SlotsAssumption, FiniteLog
     DEF LogInv, OrderInv, NumberingInv, TypeOK
<1>3. s_ready => size >= IF s_last_seq < floor THEN s_last_seq ELSE floor
  <2>1. s_ready => s_last_seq <= size \/ floor <= size
    BY <1>1 DEF HasEnough
  <2> QED
    BY <1>2, <2>1
<1> QED
  BY <1>1, <1>3 DEF Retention

\* Once the log has wrapped, it keeps all but one sector's worth of its records,
\* and all of them before, through any number of failed writes and erases, and
\* restarts, as long as a write that is cut short leaves the whole record or
\* nothing.  (advance_sector erases one sector, and ntc_history_init neither
\* closes a sector that has room nor erases another one than the next.)
THEOREM LogRetains ==
  ASSUME Tears = {}, ReadsFail = FALSE PROVE Spec => []Retention
<1>1. CASE NumSectors > 1
  <2>1. LogInv /\ ~Twins /\ UseInv => Retention
    BY <1>1, UsedEnough, EnoughRetained DEF UsedIsEnough, EnoughIsRetained
  <2>2. Spec => [](LogInv /\ ~Twins /\ UseInv)
    BY <1>1, UseInvariant
  <2> QED
    BY <2>1, <2>2, PTL
<1>2. CASE NumSectors = 1
  <2>1. LogInv => HasEnough
    BY <1>2, FiniteLog, SlotsAssumption DEF HasEnough
  <2>2. LogInv => Retention
    BY <2>1, EnoughRetained DEF EnoughIsRetained
  <2>3. Spec => []LogInv
    BY LogInvariant
  <2> QED
    BY <2>2, <2>3, PTL
<1> QED
  BY <1>1, <1>2, SectorsAssumption

-----------------------------------------------------------------------------
(***************************************************************************)
(* Putting records into the order of their numbers.                        *)
(***************************************************************************)
Ranked(S) ==
  /\ IsFiniteSet(S)
  /\ \A r \in S : r.seq \in Nat /\ r.id \in Nat
  /\ \A r, o \in S : r.seq = o.seq => r = o

Sorted(S) == [i \in 1 .. Cardinality(S) |-> Nth(i, S).id]

\* The records with a smaller number.
Earlier(r, S) == {o \in S : o.seq < r.seq}

\* A rank is a number: there are finitely many records before any other.
LEMMA RankIs ==
  ASSUME NEW S, Ranked(S), NEW r
  PROVE  /\ Earlier(r, S) \in SUBSET S
         /\ IsFiniteSet(Earlier(r, S))
         /\ Rank(r, S) = Cardinality(Earlier(r, S))
         /\ Rank(r, S) \in Nat
<1>1. Earlier(r, S) \in SUBSET S
  BY DEF Earlier
<1>2. IsFiniteSet(Earlier(r, S))
  BY <1>1, FS_Subset DEF Ranked
<1>3. Rank(r, S) = Cardinality(Earlier(r, S))
  BY Zenon DEF Rank, Earlier
<1> QED
  BY <1>1, <1>2, <1>3, FS_CardinalityType

\* Of two sets the smaller one has fewer members.
LEMMA FewerMembers ==
  ASSUME NEW T, IsFiniteSet(T), NEW S \in SUBSET T, NEW x \in T, x \notin S
  PROVE  Cardinality(S) < Cardinality(T)
<1>1. Cardinality(S) <= Cardinality(T) /\ Cardinality(S) # Cardinality(T) /\ IsFiniteSet(S)
  BY FS_Subset
<1> QED
  BY <1>1, FS_CardinalityType

\* A smaller number means a smaller rank.
LEMMA RankLess ==
  ASSUME NEW S, Ranked(S), NEW r \in S, NEW o \in S, r.seq < o.seq
  PROVE  Rank(r, S) < Rank(o, S)
<1>1. Earlier(r, S) \in SUBSET Earlier(o, S)
  BY DEF Earlier, Ranked
<1>2. r \in Earlier(o, S) /\ r \notin Earlier(r, S)
  BY DEF Earlier, Ranked
<1>3. IsFiniteSet(Earlier(o, S))
  BY RankIs
<1>4. Cardinality(Earlier(r, S)) < Cardinality(Earlier(o, S))
  BY <1>1, <1>2, <1>3, FewerMembers
<1> QED
  BY <1>4, RankIs

\* Each record has a rank of its own,
LEMMA RankUnique ==
  ASSUME NEW S, Ranked(S), NEW r \in S, NEW o \in S, Rank(r, S) = Rank(o, S)
  PROVE  r = o
<1>1. r.seq \in Nat /\ o.seq \in Nat /\ Rank(r, S) \in Nat
  BY RankIs DEF Ranked
<1>2. ~(r.seq < o.seq) /\ ~(o.seq < r.seq)
  BY <1>1, RankLess
<1> QED
  BY <1>1, <1>2 DEF Ranked

\* The ranks start at zero and stay below the number of records,
LEMMA RankRange ==
  ASSUME NEW S, Ranked(S), NEW r \in S
  PROVE  Rank(r, S) \in 0 .. Cardinality(S) - 1 /\ Cardinality(S) \in Nat
<1>1. Earlier(r, S) \in SUBSET S /\ r \notin Earlier(r, S) /\ IsFiniteSet(S)
  BY DEF Earlier, Ranked
<1>2. Cardinality(Earlier(r, S)) < Cardinality(S)
  BY <1>1, FewerMembers
<1>3. Cardinality(S) \in Nat
  BY <1>1, FS_CardinalityType
<1> QED
  BY <1>2, <1>3, RankIs

\* and each rank has a record.
LEMMA NthIs ==
  ASSUME NEW S, Ranked(S), NEW i \in 1 .. Cardinality(S)
  PROVE  Nth(i, S) \in S /\ Rank(Nth(i, S), S) = i - 1
<1>1. PICK n : n = Cardinality(S)
  OBVIOUS
<1>2. PICK D, f : D = 0 .. n - 1 /\ f = [r \in S |-> Rank(r, S)]
  OBVIOUS
<1>3. n \in Nat /\ IsFiniteSet(S)
  BY <1>1, FS_CardinalityType DEF Ranked
<1>4. IsFiniteSet(D) /\ Cardinality(D) = n
  BY <1>2, <1>3, FS_Interval
<1>5. f \in Injection(S, D)
  <2>1. \A r \in S : f[r] = Rank(r, S) /\ f[r] \in D
    BY <1>1, <1>2, RankRange
  <2>2. \A r, o \in S : f[r] = f[o] => r = o
    BY <2>1, RankUnique
  <2> QED
    BY <1>2, <2>1, <2>2 DEF Injection, IsInjective
<1>6. f \in Surjection(S, D)
  BY <1>1, <1>4, <1>5, FS_Injection
<1>7. i - 1 \in D
  BY <1>1, <1>2, <1>3
<1>8. \E r \in S : Rank(r, S) = i - 1
  <2>1. \E r \in S : f[r] = i - 1
    BY <1>6, <1>7 DEF Surjection
  <2> QED
    BY <1>2, <2>1
<1> QED
  BY <1>8, Zenon DEF Nth

\* So the record with a rank is the one that is listed there.
LEMMA NthUnique ==
  ASSUME NEW S, Ranked(S), NEW i \in 1 .. Cardinality(S), NEW r \in S, Rank(r, S) = i - 1
  PROVE  Nth(i, S) = r
BY NthIs, RankUnique

\* The list of the samples.
LEMMA SortedType ==
  ASSUME NEW S, Ranked(S)
  PROVE  Sorted(S) \in Seq(Nat) /\ Len(Sorted(S)) = Cardinality(S)
<1>1. PICK n \in Nat : n = Cardinality(S)
  BY FS_CardinalityType DEF Ranked
<1>2. \A i \in 1 .. n : Nth(i, S).id \in Nat
  BY <1>1, NthIs DEF Ranked
<1>3. Sorted(S) = [i \in 1 .. n |-> Nth(i, S).id]
  BY <1>1 DEF Sorted
<1>4. Sorted(S) \in [1 .. n -> Nat]
  BY <1>2, <1>3
<1> QED
  BY <1>1, <1>4

\* A record with the highest number comes last.
LEMMA SortedAppend ==
  ASSUME NEW S, NEW T, Ranked(S), Ranked(T), NEW x, x \notin S, T = S \cup {x},
         \A r \in S : r.seq < x.seq
  PROVE  Sorted(T) = Append(Sorted(S), x.id)
<1>1. PICK n \in Nat : n = Cardinality(S)
  BY FS_CardinalityType DEF Ranked
<1>2. Cardinality(T) = n + 1
  BY <1>1, FS_AddElement DEF Ranked
<1>3. ASSUME NEW i \in 1 .. n
      PROVE  Nth(i, T) = Nth(i, S)
  <2>1. PICK r \in S : r = Nth(i, S) /\ Rank(r, S) = i - 1
    BY <1>1, NthIs
  <2>2. ~(x.seq < r.seq)
    BY <2>1 DEF Ranked
  <2>3. Earlier(r, T) = Earlier(r, S)
    BY <2>2 DEF Earlier
  <2>4. Rank(r, T) = Rank(r, S)
    BY <2>3, RankIs
  <2> QED
    BY <1>2, <2>1, <2>4, NthUnique
<1>4. Nth(n + 1, T) = x
  <2>1. Earlier(x, T) = S
    BY DEF Earlier, Ranked
  <2>2. Rank(x, T) = n
    BY <1>1, <2>1, RankIs
  <2> QED
    BY <1>1, <1>2, <2>2, NthUnique
<1>5. Sorted(S) \in Seq(Nat) /\ Len(Sorted(S)) = n
  BY <1>1, SortedType
<1>6. \A i \in 1 .. n : Sorted(S)[i] = Nth(i, S).id
  BY <1>1 DEF Sorted
<1>7. Sorted(T) = [i \in 1 .. n + 1 |-> Nth(i, T).id]
  BY <1>2 DEF Sorted
<1>8. PICK q, y : q = Sorted(S) /\ y = x.id
  OBVIOUS
<1>9. Append(q, y) = [i \in 1 .. n + 1 |-> IF i = n + 1 THEN y ELSE q[i]]
  <2>1. q \in Seq(Nat) /\ Len(q) = n /\ y \in Nat
    BY <1>5, <1>8 DEF Ranked
  <2>2. Append(q, y) \in Seq(Nat) /\ Len(Append(q, y)) = n + 1
    BY <2>1
  <2>3. \A i \in 1 .. n + 1 : Append(q, y)[i] = IF i = n + 1 THEN y ELSE q[i]
    BY <2>1
  <2>4. PICK w : w = Append(q, y)
    OBVIOUS
  <2>5. w = [i \in 1 .. n + 1 |-> w[i]]
    <3>1. w \in Seq(Nat) /\ Len(w) = n + 1
      BY <2>2, <2>4, Zenon
    <3> QED
      BY <3>1
  <2>6. \A i \in 1 .. n + 1 : w[i] = IF i = n + 1 THEN y ELSE q[i]
    BY <2>3, <2>4
  <2> QED
    BY <2>4, <2>5, <2>6
<1>10. \A i \in 1 .. n + 1 : Nth(i, T).id = IF i = n + 1 THEN y ELSE q[i]
  <2>1. \A i \in 1 .. n : Nth(i, T).id = q[i]
    BY <1>3, <1>6, <1>8
  <2>2. \A i \in 1 .. n + 1 : i = n + 1 \/ i \in 1 .. n
    OBVIOUS
  <2>3. \A i \in 1 .. n : i # n + 1
    OBVIOUS
  <2> QED
    BY <1>4, <1>8, <2>1, <2>2, <2>3
<1> QED
  BY <1>7, <1>8, <1>9, <1>10

\* When the records with the lowest numbers go, the others move up.
LEMMA SortedDrop ==
  ASSUME NEW S, NEW D \in SUBSET S, NEW T, T = S \ D, Ranked(S), Ranked(T),
         \A d \in D, t \in T : d.seq < t.seq
  PROVE  Sorted(T) = SubSeq(Sorted(S), Cardinality(D) + 1, Len(Sorted(S)))
<1>1. PICK n \in Nat, k \in Nat : n = Cardinality(S) /\ k = Cardinality(D)
  BY FS_CardinalityType, FS_Subset DEF Ranked
<1>2. Cardinality(T) = n - k /\ k <= n
  <2>1. S \cap D = D
    OBVIOUS
  <2>2. Cardinality(S \cap D) = k
    BY <1>1, <2>1, Zenon
  <2>3. Cardinality(S \ D) = n - k
    BY <1>1, <2>2, FS_Difference DEF Ranked
  <2>4. k <= n
    BY <1>1, FS_Subset DEF Ranked
  <2>5. Cardinality(T) = Cardinality(S \ D)
    BY Zenon
  <2> QED
    BY <2>3, <2>4, <2>5
<1>3. ASSUME NEW i \in 1 .. n - k
      PROVE  Nth(i, T) = Nth(i + k, S)
  <2>1. PICK r \in T : r = Nth(i, T) /\ Rank(r, T) = i - 1
    BY <1>2, NthIs
  <2>2. Earlier(r, S) = Earlier(r, T) \cup D /\ Earlier(r, T) \cap D = {}
    BY DEF Earlier
  <2>3. PICK A, B : A = Earlier(r, T) /\ B = Earlier(r, S)
    OBVIOUS
  <2>4. /\ IsFiniteSet(A) /\ Cardinality(A) = i - 1 /\ Rank(r, S) = Cardinality(B)
        /\ IsFiniteSet(D) /\ Cardinality(A \cap D) = 0
    <3>1. Cardinality(A \cap D) = 0
      BY <2>2, <2>3, FS_EmptySet
    <3> QED
      BY <2>1, <2>3, <3>1, RankIs, FS_Subset DEF Ranked
  <2>5. Cardinality(A \cup D) = (i - 1) + k - 0
    BY <1>1, <2>4, FS_Union
  <2>6. B = A \cup D
    BY <2>2, <2>3
  <2>7. Cardinality(B) = Cardinality(A \cup D)
    BY <2>6, Zenon
  <2>8. Rank(r, S) = i + k - 1
    BY <2>4, <2>5, <2>7
  <2>9. i + k \in 1 .. Cardinality(S) /\ r \in S
    BY <1>1, <1>2
  <2> QED
    BY <2>1, <2>8, <2>9, NthUnique
<1>4. PICK q : q = Sorted(S)
  OBVIOUS
<1>5. q \in Seq(Nat) /\ Len(q) = n /\ \A j \in 1 .. n : q[j] = Nth(j, S).id
  BY <1>1, <1>4, SortedType DEF Sorted
<1>6. SubSeq(q, k + 1, n) = [i \in 1 .. n - k |-> q[i + k]]
  <2>1. Len(SubSeq(q, k + 1, n)) = n - k /\ SubSeq(q, k + 1, n) \in Seq(Nat)
    BY <1>2, <1>5
  <2>2. \A i \in 1 .. n - k : SubSeq(q, k + 1, n)[i] = q[i + k]
    BY <1>2, <1>5
  <2>3. SubSeq(q, k + 1, n) = [i \in 1 .. n - k |-> SubSeq(q, k + 1, n)[i]]
    BY <2>1
  <2> QED
    BY <2>2, <2>3
<1>7. Sorted(T) = [i \in 1 .. n - k |-> Nth(i, T).id]
  BY <1>2 DEF Sorted
<1>8. \A i \in 1 .. n - k : Nth(i, T).id = q[i + k]
  <2>1. \A i \in 1 .. n - k : i + k \in 1 .. n
    OBVIOUS
  <2> QED
    BY <1>3, <1>5, <2>1
<1> QED
  BY <1>1, <1>4, <1>5, <1>6, <1>7, <1>8

-----------------------------------------------------------------------------
(***************************************************************************)
(* The list of the readable samples.                                       *)
(***************************************************************************)
StoredRecord(r) == \E s \in Sectors, k \in Slots : Stored(s, k) /\ slot[s][k] = r

\* The readable records are the stored ones,
RecordsAreStored == TailInv => \A r : r \in VisibleRecords <=> StoredRecord(r)

\* since the readers stop at no slot in front of a stored one;
LEMMA RecordsAre == RecordsAreStored
<1> SUFFICES ASSUME TailInv, NEW r PROVE r \in VisibleRecords <=> StoredRecord(r)
  BY DEF RecordsAreStored
<1>1. r \in VisibleRecords <=>
        \E s \in Sectors, k \in Slots : Visible(s, k) /\ slot[s][k] = r
  <2>1. ASSUME NEW s \in Sectors, NEW k \in Slots, Visible(s, k), slot[s][k] = r
        PROVE  r \in VisibleRecords
    <3>1. <<s, k>> \in {q \in Sectors \X Slots : Visible(q[1], q[2])}
      BY <2>1
    <3> QED
      BY <2>1, <3>1 DEF VisibleRecords
  <2>2. ASSUME r \in VisibleRecords
        PROVE  \E s \in Sectors, k \in Slots : Visible(s, k) /\ slot[s][k] = r
    <3>1. PICK q \in Sectors \X Slots : Visible(q[1], q[2]) /\ slot[q[1]][q[2]] = r
      BY <2>2 DEF VisibleRecords
    <3>2. q[1] \in Sectors /\ q[2] \in Slots
      BY <3>1
    <3> QED
      BY <3>1, <3>2
  <2> QED
    BY <2>1, <2>2
<1> QED
  BY <1>1, VisibleStored DEF StoredRecord

\* Two places hold two numbers.
LEMMA OneNumberEach ==
  ASSUME LogInv, ~Twins, NEW s \in Sectors, NEW t \in Sectors, NEW j \in Slots,
         NEW k \in Slots, Stored(s, j), Stored(t, k), slot[s][j].seq = slot[t][k].seq
  PROVE  s = t /\ j = k
<1>1. /\ slot[s][j].seq = hdr[s] + j /\ slot[t][k].seq = hdr[t] + k
      /\ hdr[s] \in Nat /\ hdr[t] \in Nat /\ j \in Nat /\ k \in Nat
  BY SlotsAssumption
     DEF LogInv, OrderInv, NumberingInv, RecordNumbering, TypeOK, Stored, Slots
<1>2. hdr[s] + j = hdr[t] + k
  BY <1>1
<1>3. ~(hdr[s] < hdr[t]) /\ ~(hdr[t] < hdr[s])
  BY <1>2, <1>1 DEF LogInv, OrderInv, RangesApart
<1>4. hdr[s] = hdr[t]
  BY <1>1, <1>3
<1>5. s = t
  BY <1>4 DEF Twins, Stored
<1> QED
  BY <1>2, <1>1, <1>4, <1>5

\* finitely many, each with a number of its own,
RecordsAreRanked == LogInv /\ ~Twins => \A S : S = VisibleRecords => Ranked(S)

\* since each comes from a place of its own;
LEMMA RecordsRanked == RecordsAreRanked
<1> SUFFICES ASSUME LogInv, ~Twins, NEW S, S = VisibleRecords PROVE Ranked(S)
  BY DEF RecordsAreRanked
<1>1. TailInv /\ \A r : r \in S <=> StoredRecord(r)
  BY RecordsAre DEF LogInv, OrderInv, RecordsAreStored
<1>2. \A r \in S : r.seq \in Nat /\ r.id \in Nat
  BY <1>1, StoredSampled DEF StoredRecord
<1>3. \A r, o \in S : r.seq = o.seq => r = o
  <2> SUFFICES ASSUME NEW r \in S, NEW o \in S, r.seq = o.seq PROVE r = o
    OBVIOUS
  <2>1. PICK s \in Sectors, j \in Slots : Stored(s, j) /\ slot[s][j] = r
    BY <1>1 DEF StoredRecord
  <2>2. PICK t \in Sectors, k \in Slots : Stored(t, k) /\ slot[t][k] = o
    BY <1>1 DEF StoredRecord
  <2> QED
    BY <2>1, <2>2, OneNumberEach
<1>4. IsFiniteSet(S)
  <2>1. PICK P, f : /\ P = {p \in Sectors \X Slots : Stored(p[1], p[2])}
                    /\ f = [p \in P |-> slot[p[1]][p[2]]]
    OBVIOUS
  <2>2. IsFiniteSet(Sectors) /\ IsFiniteSet(Slots)
    BY SectorsAssumption, SlotsAssumption, FS_Interval DEF Sectors, Slots
  <2>3. IsFiniteSet(P)
    BY <2>1, <2>2, FS_Product, FS_Subset
  <2>4. \A p \in P : f[p] \in S
    <3>1. \A p \in P : p[1] \in Sectors /\ p[2] \in Slots /\ Stored(p[1], p[2])
      BY <2>1
    <3> QED
      BY <1>1, <2>1, <3>1 DEF StoredRecord
  <2>5. \A r \in S : \E p \in P : f[p] = r
    <3> SUFFICES ASSUME NEW r \in S PROVE \E p \in P : f[p] = r
      OBVIOUS
    <3>1. PICK s \in Sectors, j \in Slots : Stored(s, j) /\ slot[s][j] = r
      BY <1>1 DEF StoredRecord
    <3>2. <<s, j>> \in P /\ f[<<s, j>>] = slot[s][j]
      BY <2>1, <3>1
    <3> QED
      BY <3>1, <3>2
  <2>6. f \in Surjection(P, S)
    BY <2>1, <2>4, <2>5 DEF Surjection
  <2> QED
    BY <2>3, <2>6, FS_Surjection
<1> QED
  BY <1>2, <1>3, <1>4 DEF Ranked

\* and their samples are listed in the order of the numbers.
ListIsSorted == \A S : S = VisibleRecords => ReadableLog = Sorted(S)

\* by definition.
LEMMA ListSorted == ListIsSorted
BY DEF ListIsSorted, ReadableLog, Sorted

\* The log over a step.
LogStays == ReadableLog' = ReadableLog
LogGains(x) == ReadableLog' = Append(ReadableLog, x)
LogDrops ==
  /\ Len(ReadableLog) = NumSectors * RecordsPerSector
  /\ ReadableLog' = SubSeq(ReadableLog, RecordsPerSector + 1, Len(ReadableLog))

\* What ranks the records before and after a step, and lists them.
LEMMA ListStep ==
  ASSUME LogInv, ~Twins, LogInv', ~Twins'
  PROVE  \E S, T :
           /\ Ranked(S) /\ Ranked(T)
           /\ ReadableLog = Sorted(S) /\ ReadableLog' = Sorted(T)
           /\ \A r : r \in S <=> StoredRecord(r)
           /\ \A r : r \in T <=> StoredRecord(r)'
<1>1. PICK S, T : S = VisibleRecords /\ T = VisibleRecords'
  OBVIOUS
<1>2. Ranked(S) /\ ReadableLog = Sorted(S) /\ \A r : r \in S <=> StoredRecord(r)
  BY <1>1, RecordsAre, RecordsRanked, ListSorted
     DEF LogInv, OrderInv, RecordsAreStored, RecordsAreRanked, ListIsSorted
<1>3. RecordsAreStored' /\ RecordsAreRanked' /\ ListIsSorted'
  BY RecordsAre, RecordsRanked, ListSorted, PTL
<1>4. Ranked(T)
  BY <1>1, <1>3 DEF RecordsAreRanked, Ranked
<1>5. ReadableLog' = Sorted(T)
  BY <1>1, <1>3 DEF ListIsSorted, Sorted, Nth, Rank
<1>6. \A r : r \in T <=> StoredRecord(r)'
  BY <1>1, <1>3 DEF LogInv, OrderInv, RecordsAreStored
<1> QED
  BY <1>2, <1>4, <1>5, <1>6

\* The record at the cursor is on flash, from a write that failed.
OnFlash == Open /\ Stored(s_cur_sector, s_cur_slot)

\* The same records make the same list.
LEMMA ListKept ==
  ASSUME LogInv, ~Twins, LogInv', ~Twins',
         \A s \in Sectors, k \in Slots :
           /\ Stored(s, k)' <=> Stored(s, k)
           /\ Stored(s, k) => slot'[s][k] = slot[s][k]
  PROVE  LogStays
<1>1. PICK S, T : /\ ReadableLog = Sorted(S) /\ ReadableLog' = Sorted(T)
                  /\ \A r : r \in S <=> StoredRecord(r)
                  /\ \A r : r \in T <=> StoredRecord(r)'
  BY ListStep
<1>2. \A r : StoredRecord(r) <=> StoredRecord(r)'
  BY DEF StoredRecord
<1>3. S = T
  BY <1>1, <1>2
<1> QED
  BY <1>1, <1>3 DEF LogStays

\* So does the same flash.
LEMMA ListSameFlash ==
  ASSUME LogInv, ~Twins, LogInv', ~Twins', UNCHANGED flash
  PROVE  LogStays
<1>1. \A s, k : (Stored(s, k)' <=> Stored(s, k)) /\ slot'[s][k] = slot[s][k]
  BY DEF flash, Stored, record_is_valid
<1> QED
  BY <1>1, ListKept

\* A write at the cursor appends its sample, unless that is on flash already or
\* nothing is written.
LEMMA ListWritten ==
  ASSUME LogInv, ~Twins, LogInv', ~Twins', Tears = {}, Writing, NEW v, SetSlot(v),
         v \in {Program(OldSlot, NewRecord)} \cup Interrupted(OldSlot, NewRecord),
         UNCHANGED hdr
  PROVE  /\ v = Program(OldSlot, NewRecord) => v = NewRecord
         /\ Open /\ s_cur_sector \in Sectors /\ s_cur_slot \in Slots
         /\ hdr[s_cur_sector] # NoHeader /\ slot'[s_cur_sector][s_cur_slot] = v
         /\ \A k \in Slots : k # s_cur_slot =>
              slot'[s_cur_sector][k] = slot[s_cur_sector][k]
         /\ \/ UNCHANGED flash
            \/ ~OnFlash /\ LogGains(s_ram_buf[flush_i + 1]) /\ v = NewRecord
<1>0. OrderInv /\ TailInv /\ TypeOK /\ LockHolder /\ SampleInv
  BY DEF LogInv, OrderInv, NumberingInv
<1>1. AtCursor(v) /\ Free(OldSlot)
  BY <1>0, WrittenAtCursor
<1>2. /\ v = OldSlot \/ v = NewRecord
      /\ v = Program(OldSlot, NewRecord) => v = NewRecord
  BY <1>1, FreeSlot DEF Writing
<1>3. PICK c, n : c = s_cur_sector /\ n = s_cur_slot
  OBVIOUS
<1>4. /\ c \in Sectors /\ n \in Slots
      /\ \A s \in Sectors, k \in Slots :
           slot'[s][k] = IF s = c /\ k = n THEN v ELSE slot[s][k]
  BY <1>0, <1>1, <1>3, SetSlotTail
<1>5. Open /\ hdr[c] # NoHeader
  BY <1>0, <1>1, <1>3, WrittenOrder DEF IsHead
<1>6. v = OldSlot => UNCHANGED flash
  <2> SUFFICES ASSUME v = OldSlot PROVE slot' = slot
    BY DEF flash
  <2>1. \A s \in Sectors, k \in Slots : slot'[s][k] = slot[s][k]
    BY <1>3, <1>4 DEF OldSlot
  <2>2. /\ slot \in [Sectors -> [Slots -> SlotValue]]
        /\ slot' \in [Sectors -> [Slots -> SlotValue]]
    BY <1>0 DEF LogInv, OrderInv, NumberingInv, TypeOK
  <2>3. \A s \in Sectors : slot'[s] = slot[s]
    <3> SUFFICES ASSUME NEW s \in Sectors PROVE slot'[s] = slot[s]
      OBVIOUS
    <3>1. slot'[s] \in [Slots -> SlotValue] /\ slot[s] \in [Slots -> SlotValue]
      BY <2>2
    <3> QED
      BY <2>1, <3>1
  <2> QED
    BY <2>2, <2>3
<1>7. OnFlash => OldSlot = NewRecord
  <2>1. NewRecord \in SlotValue /\ OldSlot \in SlotValue
    BY <1>0, WritingType
  <2>2. OnFlash => OldSlot.st = "valid"
    BY DEF OnFlash, Stored, record_is_valid, OldSlot
  <2> QED
    BY <1>1, <2>1, <2>2 DEF Free, NewRecord, SlotValue
<1>8. ASSUME ~OnFlash, v = NewRecord
      PROVE  LogGains(s_ram_buf[flush_i + 1])
  <2>1. PICK S, T : /\ Ranked(S) /\ Ranked(T)
                    /\ ReadableLog = Sorted(S) /\ ReadableLog' = Sorted(T)
                    /\ \A r : r \in S <=> StoredRecord(r)
                    /\ \A r : r \in T <=> StoredRecord(r)'
    BY ListStep
  <2>2. PICK x : x = NewRecord
    OBVIOUS
  <2>3. /\ x.id = s_ram_buf[flush_i + 1] /\ x.seq = s_last_seq + 1
        /\ record_is_valid(x) /\ x.id = NextSample /\ x.id \in Nat
    BY <1>0, <2>2, NextSampleIs DEF NewRecord, record_is_valid, Writing
  <2>4. \A s \in Sectors, k \in Slots : Stored(s, k) => ~(s = c /\ k = n)
    BY <1>3, <1>5, <1>8 DEF OnFlash
  <2>5. \A s \in Sectors, k \in Slots :
          /\ Stored(s, k) => Stored(s, k)' /\ slot'[s][k] = slot[s][k]
          /\ Stored(s, k)' => Stored(s, k) \/ (s = c /\ k = n)
    BY <1>4, <2>4 DEF Stored, record_is_valid
  <2>6. Stored(c, n)' /\ slot'[c][n] = x
    BY <1>4, <1>5, <1>8, <2>2, <2>3 DEF Stored, record_is_valid
  <2>7. T = S \cup {x}
    <3>1. \A r \in S : r \in T
      BY <2>1, <2>5 DEF StoredRecord
    <3>2. x \in T
      BY <1>4, <2>1, <2>6 DEF StoredRecord
    <3>3. \A r \in T : r \in S \/ r = x
      BY <2>1, <2>5, <2>6 DEF StoredRecord
    <3> QED
      BY <3>1, <3>2, <3>3
  <2>8. \A r \in S : r.id # x.id /\ r.seq <= x.seq
    <3> SUFFICES ASSUME NEW r \in S PROVE r.id # x.id /\ r.seq <= x.seq
      OBVIOUS
    <3>1. PICK s \in Sectors, k \in Slots : Stored(s, k) /\ slot[s][k] = r
      BY <2>1 DEF StoredRecord
    <3>2. r.id < NextSample
      BY <1>3, <2>4, <3>1 DEF LogInv, IdInv
    <3>3. r.seq <= s_last_seq + 1
      BY <1>0, <1>5, <3>1, CursorHighest
    <3>4. r.id \in Nat
      BY <3>1, StoredSampled
    <3> QED
      BY <2>3, <3>2, <3>3, <3>4
  <2>9. \A r \in S : r.seq < x.seq
    <3>1. \A r \in S : r \in T /\ x \in T /\ r.seq \in Nat /\ x.seq \in Nat
      BY <2>1, <2>7 DEF Ranked
    <3>2. \A r \in S : r.seq # x.seq
      BY <2>1, <2>8, <3>1 DEF Ranked
    <3> QED
      BY <2>8, <3>1, <3>2
  <2>10. x \notin S
    BY <2>8
  <2>11. Sorted(T) = Append(Sorted(S), x.id)
    BY <2>1, <2>7, <2>9, <2>10, SortedAppend
  <2> QED
    BY <2>1, <2>3, <2>11 DEF LogGains
<1> QED
  BY <1>2, <1>3, <1>4, <1>5, <1>6, <1>7, <1>8

\* The sector that is renewed stores nothing, or the log is full and the sector
\* holds its oldest records.
LEMMA RenewedIsFull ==
  ASSUME LogInv, ~Twins, UseInv, NumSectors > 1, Closed, NEW m, m = Target,
         m \in Sectors, NEW k \in Slots, Stored(m, k)
  PROVE  /\ \A s \in Sectors : Full(s)
         /\ \A t \in Sectors \ {m} : hdr[m] < hdr[t]
<1>0. TypeOK /\ OldestNext
  BY DEF LogInv, OrderInv, NumberingInv
<1>1. PICK c, q : c = s_cur_sector /\ q = s_last_seq
  OBVIOUS
<1>2. Turned(c, m, q)
  <2>1. ~Untouched
    BY DEF Untouched, Unused, Stored
  <2> QED
    BY <1>1, <2>1 DEF UseInv
<1>3. c \in Sectors /\ m # c /\ q \in Nat
  BY <1>0, <1>1, <1>2, NextIsOther DEF Turned, TypeOK
<1>4. /\ Full(c) /\ hdr[c] # NoHeader /\ hdr[m] # NoHeader
      /\ q + 1 = hdr[c] + RecordsPerSector /\ RecordsPerSector \in Nat \ {0}
      /\ \A s \in Sectors : hdr[s] \in Nat
  BY <1>0, <1>2, SlotsAssumption DEF Turned, Full, Stored, TypeOK
<1>5. \/ \A t \in Sectors \ {m} : hdr[t] = NoHeader \/ hdr[m] <= hdr[t]
      \/ hdr[m] = hdr[c]
  BY <1>0, <1>1 DEF OldestNext, Others
<1>6. hdr[m] # q + 1
  BY <1>3, <1>4, <1>5
<1>7. hdr[m] < hdr[c] /\ Full(m) /\ AllUsed(Sectors \ {m}) /\ FullIfUsed(Sectors \ {m})
  BY <1>2, <1>4, <1>6 DEF Turned
<1>8. \A s \in Sectors : Full(s)
  BY <1>7 DEF AllUsed, FullIfUsed
<1>9. \A t \in Sectors \ {m} : hdr[t] # NoHeader /\ hdr[m] # hdr[t]
  BY <1>4, <1>8 DEF Full, Twins
<1>10. \A t \in Sectors \ {m} : hdr[m] <= hdr[t]
  BY <1>3, <1>4, <1>5, <1>7, <1>9
<1> QED
  BY <1>4, <1>8, <1>9, <1>10

\* Every slot of a full log counts.
LEMMA FullCount ==
  ASSUME LogInv, ~Twins, \A s \in Sectors : Full(s),
         NEW S, \A r : r \in S <=> StoredRecord(r)
  PROVE  Cardinality(S) = NumSectors * RecordsPerSector
<1>1. PICK P, f : P = Sectors \X Slots /\ f = [p \in P |-> slot[p[1]][p[2]]]
  OBVIOUS
<1>2. /\ IsFiniteSet(Sectors) /\ Cardinality(Sectors) = NumSectors
      /\ IsFiniteSet(Slots) /\ Cardinality(Slots) = RecordsPerSector
  BY SectorsAssumption, SlotsAssumption, FS_Interval DEF Sectors, Slots
<1>3. IsFiniteSet(P) /\ Cardinality(P) = NumSectors * RecordsPerSector
  BY <1>1, <1>2, FS_Product
<1>4. \A p \in P : p[1] \in Sectors /\ p[2] \in Slots /\ p = <<p[1], p[2]>>
  BY <1>1
<1>5. \A s \in Sectors, k \in Slots : Stored(s, k)
  BY DEF Full, Stored
<1>6. \A p \in P : f[p] \in S
  BY <1>1, <1>4, <1>5 DEF StoredRecord
<1>7. \A r \in S : \E p \in P : f[p] = r
  <2> SUFFICES ASSUME NEW r \in S PROVE \E p \in P : f[p] = r
    OBVIOUS
  <2>1. PICK s \in Sectors, k \in Slots : slot[s][k] = r
    BY DEF StoredRecord
  <2>2. <<s, k>> \in P /\ f[<<s, k>>] = slot[s][k]
    BY <1>1
  <2> QED
    BY <2>1, <2>2
<1>8. \A p, r \in P : f[p] = f[r] => p = r
  <2> SUFFICES ASSUME NEW p \in P, NEW r \in P, f[p] = f[r] PROVE p = r
    OBVIOUS
  <2>1. slot[p[1]][p[2]].seq = slot[r[1]][r[2]].seq
    BY <1>1
  <2>2. p[1] = r[1] /\ p[2] = r[2]
    BY <1>4, <1>5, <2>1, OneNumberEach
  <2> QED
    BY <1>4, <2>2
<1>9. f \in Surjection(P, S) /\ f \in Injection(P, S)
  <2>1. f \in [P -> S]
    BY <1>1, <1>6
  <2>2. f \in Surjection(P, S)
    BY <1>7, <2>1 DEF Surjection
  <2>3. f \in Injection(P, S)
    BY <1>8, <2>1 DEF Injection, IsInjective
  <2> QED
    BY <2>2, <2>3
<1>10. Cardinality(S) = Cardinality(P)
  BY <1>3, <1>9, FS_Surjection
<1> QED
  BY <1>3, <1>10

\* The records of one full sector.
LEMMA SectorCount ==
  ASSUME LogInv, ~Twins, NEW m \in Sectors, Full(m)
  PROVE  \E D : /\ Cardinality(D) = RecordsPerSector
                /\ \A r : r \in D <=> \E k \in Slots : slot[m][k] = r
<1>1. PICK D, f : /\ D = {slot[m][k] : k \in Slots}
                  /\ f = [k \in Slots |-> slot[m][k]]
  OBVIOUS
<1>2. IsFiniteSet(Slots) /\ Cardinality(Slots) = RecordsPerSector
  BY SlotsAssumption, FS_Interval DEF Slots
<1>3. \A k \in Slots : Stored(m, k)
  BY DEF Full, Stored
<1>4. \A j, k \in Slots : f[j] = f[k] => j = k
  BY <1>1, <1>3, OneNumberEach
<1>5. f \in Surjection(Slots, D) /\ f \in Injection(Slots, D)
  BY <1>1, <1>4 DEF Surjection, Injection, IsInjective
<1>6. Cardinality(D) = RecordsPerSector
  BY <1>2, <1>5, FS_Surjection
<1> QED
  BY <1>1, <1>6

\* Renewing a sector takes nothing from the list, or its first block.
LEMMA ListRenewed ==
  ASSUME LogInv, ~Twins, UseInv, LogInv', ~Twins', NumSectors > 1,
         NEW m, NEW h, NEW d, Renews(m, h, d)
  PROVE  (LogStays \/ LogDrops) /\ (pc = "header" => LogStays)
<1>0. OrderInv /\ TypeOK /\ LockHolder
  BY DEF LogInv, OrderInv, NumberingInv
<1>1. /\ Closed /\ m = Target /\ m \in Sectors /\ m = next
      /\ \A t \in Sectors \ {m} : hdr'[t] = hdr[t] /\ slot'[t] = slot[t]
      /\ \A k \in Slots : ~Stored(m, k)'
  BY <1>0, RenewedTarget DEF Others, Renews
<1>2. \A t \in Sectors \ {m}, k \in Slots :
        (Stored(t, k)' <=> Stored(t, k)) /\ slot'[t][k] = slot[t][k]
  BY <1>1 DEF Stored, record_is_valid
<1>3. pc = "header" => \A k \in Slots : ~Stored(m, k)
  BY <1>0, <1>1 DEF LockHolder, Stored
<1>4. (\A k \in Slots : ~Stored(m, k)) => LogStays
  BY <1>1, <1>2, ListKept
<1>5. ASSUME NEW n \in Slots, Stored(m, n)
      PROVE  LogDrops
  <2>1. (\A s \in Sectors : Full(s)) /\ \A t \in Sectors \ {m} : hdr[m] < hdr[t]
    BY <1>1, <1>5, RenewedIsFull
  <2>2. PICK S, T : /\ Ranked(S) /\ Ranked(T)
                    /\ ReadableLog = Sorted(S) /\ ReadableLog' = Sorted(T)
                    /\ \A r : r \in S <=> StoredRecord(r)
                    /\ \A r : r \in T <=> StoredRecord(r)'
    BY ListStep
  <2>3. PICK D : /\ Cardinality(D) = RecordsPerSector
                 /\ \A r : r \in D <=> \E k \in Slots : slot[m][k] = r
    BY <1>1, <2>1, SectorCount
  <2>4. \A s \in Sectors, k \in Slots : Stored(s, k)
    BY <2>1 DEF Full, Stored
  <2>5. D \in SUBSET S
    BY <1>1, <2>2, <2>3, <2>4 DEF StoredRecord
  <2>6. \A r \in D, o \in T : r.seq < o.seq
    <3> SUFFICES ASSUME NEW r \in D, NEW o \in T PROVE r.seq < o.seq
      OBVIOUS
    <3>1. PICK j \in Slots : slot[m][j] = r
      BY <2>3
    <3>2. PICK t \in Sectors, k \in Slots : Stored(t, k)' /\ slot'[t][k] = o
      BY <2>2 DEF StoredRecord
    <3>3. t # m /\ slot[t][k] = o
      BY <1>1, <1>2, <3>2
    <3>4. hdr[m] + j < hdr[t]
      BY <1>0, <1>1, <2>1, <2>4, <3>3 DEF OrderInv, RangesApart
    <3>5. r.seq = hdr[m] + j /\ o.seq = hdr[t] + k
      BY <1>1, <2>4, <3>1, <3>3 DEF LogInv, OrderInv, NumberingInv, RecordNumbering, Stored
    <3>6. hdr[m] \in Nat /\ hdr[t] \in Nat /\ j \in Nat /\ k \in Nat
      BY <1>0, <1>1, SlotsAssumption DEF TypeOK, Slots
    <3> QED
      BY <3>4, <3>5, <3>6
  <2>7. T = S \ D
    <3>1. \A r \in T : r \in S
      BY <1>1, <1>2, <2>2 DEF StoredRecord
    <3>2. \A r \in T : r \notin D
      BY <2>2, <2>6 DEF Ranked
    <3>3. \A r \in S \ D : r \in T
      <4> SUFFICES ASSUME NEW r \in S \ D PROVE StoredRecord(r)'
        BY <2>2
      <4>1. PICK t \in Sectors, k \in Slots : Stored(t, k) /\ slot[t][k] = r
        BY <2>2 DEF StoredRecord
      <4>2. t # m
        BY <2>3, <4>1
      <4> QED
        BY <1>2, <4>1, <4>2 DEF StoredRecord
    <3> QED
      BY <3>1, <3>2, <3>3
  <2>8. Sorted(T) = SubSeq(Sorted(S), Cardinality(D) + 1, Len(Sorted(S)))
    BY <2>2, <2>5, <2>6, <2>7, SortedDrop
  <2>9. Len(Sorted(S)) = NumSectors * RecordsPerSector
    BY <2>1, <2>2, FullCount, SortedType
  <2> QED
    BY <2>2, <2>3, <2>8, <2>9 DEF LogDrops
<1> QED
  BY <1>3, <1>4, <1>5

-----------------------------------------------------------------------------
(***************************************************************************)
(* The samples that wait.                                                  *)
(***************************************************************************)
\* All but the last element of a sequence.
LEMMA FrontSeq ==
  ASSUME NEW u \in Seq(Nat), NEW x \in Nat
  PROVE  SubSeq(Append(u, x), 1, Len(Append(u, x)) - 1) = u
<1>1. PICK w, v : w = Append(u, x) /\ v = SubSeq(w, 1, Len(u))
  OBVIOUS
<1>2. w \in Seq(Nat) /\ Len(w) = Len(u) + 1 /\ \A i \in 1 .. Len(u) : w[i] = u[i]
  BY <1>1
<1>3. v \in Seq(Nat) /\ Len(v) = Len(u) /\ \A i \in 1 .. Len(u) : v[i] = u[i]
  BY <1>1, <1>2
<1>4. v = u
  BY <1>3, SeqEqual
<1>5. Len(w) - 1 = Len(u)
  BY <1>2
<1> QED
  BY <1>1, <1>4, <1>5

\* What is buffered: what flush_locked has not written, and the one being added.
BufferIs ==
  LET kept == FlushKeeps(flush_i) IN
  LogInv =>
    /\ kept \in Seq(Nat) /\ Len(kept) = Len(s_ram_buf) - flush_i
    /\ flush_i < Len(s_ram_buf) => kept # <<>> /\ Head(kept) = s_ram_buf[flush_i + 1]
    /\ Buffered = IF pend = NoSample THEN kept ELSE Append(kept, pend)
    /\ Buffered \in Seq(Nat)

\* It is a sequence of samples.
LEMMA BufferedIs == BufferIs
<1> SUFFICES ASSUME LogInv, NEW kept, kept = FlushKeeps(flush_i)
             PROVE  /\ kept \in Seq(Nat) /\ Len(kept) = Len(s_ram_buf) - flush_i
                    /\ flush_i < Len(s_ram_buf) =>
                         kept # <<>> /\ Head(kept) = s_ram_buf[flush_i + 1]
                    /\ Buffered = IF pend = NoSample THEN kept ELSE Append(kept, pend)
                    /\ Buffered \in Seq(Nat)
  BY DEF BufferIs
<1>1. /\ s_ram_buf \in Seq(Nat) /\ flush_i \in 0 .. Len(s_ram_buf) /\ pend \in Nat
  BY DEF LogInv, OrderInv, NumberingInv, TypeOK
<1>2. /\ kept \in Seq(Nat) /\ Len(kept) = Len(s_ram_buf) - flush_i
      /\ \A j \in 1 .. Len(s_ram_buf) - flush_i : kept[j] = s_ram_buf[flush_i + j]
  BY <1>1, KeptSamples
<1>3. flush_i < Len(s_ram_buf) => kept # <<>> /\ Head(kept) = s_ram_buf[flush_i + 1]
  <2> SUFFICES ASSUME flush_i < Len(s_ram_buf)
               PROVE  kept # <<>> /\ Head(kept) = s_ram_buf[flush_i + 1]
    OBVIOUS
  <2>1. 1 \in 1 .. Len(s_ram_buf) - flush_i
    BY <1>1
  <2>2. Len(kept) > 0 /\ kept[1] = s_ram_buf[flush_i + 1]
    BY <1>2, <2>1
  <2> QED
    BY <1>2, <2>2
<1>4. Buffered = IF pend = NoSample THEN kept ELSE Append(kept, pend)
  BY DEF Buffered, FlushKeeps
<1>5. Buffered \in Seq(Nat)
  BY <1>1, <1>2, <1>4, AppendProperties
<1> QED
  BY <1>2, <1>3, <1>4, <1>5

\* The sample that is written next is buffered first.
LEMMA FirstBuffered ==
  ASSUME LogInv, flush_i < Len(s_ram_buf)
  PROVE  /\ Buffered \in Seq(Nat) /\ Buffered # <<>>
         /\ Head(Buffered) = s_ram_buf[flush_i + 1]
<1>1. PICK kept : /\ kept \in Seq(Nat) /\ kept # <<>>
                  /\ Head(kept) = s_ram_buf[flush_i + 1] /\ Buffered \in Seq(Nat)
                  /\ Buffered = IF pend = NoSample THEN kept ELSE Append(kept, pend)
  BY BufferedIs DEF BufferIs
<1>2. pend \in Nat
  BY DEF LogInv, OrderInv, NumberingInv, TypeOK
<1>3. Append(kept, pend) # <<>> /\ Head(Append(kept, pend)) = Head(kept)
  BY <1>1, <1>2, AppendProperties, HeadTailAppend
<1> QED
  BY <1>1, <1>3, Zenon

\* All of it waits, but for a first sample that is on flash already.
WaitersAre ==
  LogInv =>
    /\ OnFlash => flush_i < Len(s_ram_buf)
    /\ Waiting = IF OnFlash THEN Tail(Buffered) ELSE Buffered

\* A sample that is on flash already stands at the cursor, and is the next to write.
LEMMA WaitingIs == WaitersAre
<1> SUFFICES ASSUME LogInv
             PROVE  /\ OnFlash => flush_i < Len(s_ram_buf)
                    /\ Waiting = IF OnFlash THEN Tail(Buffered) ELSE Buffered
  BY DEF WaitersAre
<1>0. TypeOK /\ SampleInv /\ TailInv /\ LockHolder
  BY DEF LogInv, OrderInv, NumberingInv
<1>1. PICK c, n : c = s_cur_sector /\ n = s_cur_slot
  OBVIOUS
<1>2. OnFlash => /\ c \in Sectors /\ n \in Slots /\ Stored(c, n)
                 /\ flush_i < Len(s_ram_buf) /\ slot[c][n].id = s_ram_buf[flush_i + 1]
  <2> SUFFICES ASSUME OnFlash
               PROVE  /\ c \in Sectors /\ n \in Slots /\ Stored(c, n)
                      /\ flush_i < Len(s_ram_buf) /\ slot[c][n].id = s_ram_buf[flush_i + 1]
    OBVIOUS
  <2>1. c \in Sectors /\ n \in Slots /\ Stored(c, n) /\ s_ready
    BY <1>0, <1>1, SlotsAssumption DEF OnFlash, Open, TypeOK, Slots
  <2>2. Free(slot[c][n]) /\ slot[c][n].st # "empty"
    BY <1>0, <1>1, <2>1 DEF TailInv, CursorTail, Stored, record_is_valid
  <2> QED
    BY <2>1, <2>2 DEF Free
<1>3. PICK kept : /\ kept = FlushKeeps(flush_i)
                  /\ kept \in Seq(Nat) /\ Len(kept) = Len(s_ram_buf) - flush_i
                  /\ Buffered = IF pend = NoSample THEN kept ELSE Append(kept, pend)
  BY BufferedIs DEF BufferIs
<1>4. /\ flush_i < Len(s_ram_buf) => Buffered # <<>>
      /\ Buffered # <<>> => Head(Buffered) = NextSample /\ NextSample <= sampled
  <2>1. CASE flush_i < Len(s_ram_buf)
    BY <1>0, <2>1, FirstBuffered, NextSampleIs
  <2>2. CASE ~(flush_i < Len(s_ram_buf)) /\ pend # NoSample
    <3>1. kept = <<>>
      BY <1>0, <1>3, <2>2 DEF TypeOK
    <3>2. Head(Buffered) = pend
      BY <1>0, <1>3, <2>2, <3>1, HeadTailAppend DEF TypeOK
    <3>3. NextSample = pend /\ pend <= sampled
      BY <1>0, <2>2 DEF NextSample, SampleInv
    <3> QED
      BY <2>2, <3>2, <3>3
  <2>3. CASE ~(flush_i < Len(s_ram_buf)) /\ pend = NoSample
    <3>1. Buffered = <<>>
      BY <1>0, <1>3, <2>3 DEF TypeOK
    <3> QED
      BY <2>3, <3>1
  <2> QED
    BY <2>1, <2>2, <2>3
<1>5. NextSample \in VisibleIds => OnFlash
  <2> SUFFICES ASSUME NextSample \in VisibleIds PROVE OnFlash
    OBVIOUS
  <2>1. PICK s \in Sectors, k \in Slots : Stored(s, k) /\ slot[s][k].id = NextSample
    BY <1>0, VisibleIdsAre DEF VisibleAreStored, StoredId
  <2>2. ~(NextSample < NextSample)
    BY <1>0, NextSampleIs
  <2> QED
    BY <2>1, <2>2 DEF LogInv, IdInv, OnFlash
<1>6. OnFlash => NextSample \in VisibleIds
  BY <1>0, <1>2, NextSampleIs, VisibleIdsAre DEF VisibleAreStored, StoredId
<1>7. Waiting = IF OnFlash THEN Tail(Buffered) ELSE Buffered
  BY <1>2, <1>4, <1>5, <1>6 DEF Waiting
<1> QED
  BY <1>2, <1>7

\* When a flush returns, what it kept waits; only the sample that was being added
\* may be gone, when the buffer is still full.
LEMMA QueueSurvives ==
  ASSUME LogInv, FinishFlush(flush_i)
  PROVE  /\ Buffered' \in Ring!Survivors(Buffered)
         /\ flush_i < Len(s_ram_buf) =>
              Tail(Buffered') \in Ring!Survivors(Tail(Buffered))
<1>1. PICK kept, B : /\ kept = FlushKeeps(flush_i) /\ B = Buffered
                     /\ kept \in Seq(Nat)
                     /\ flush_i < Len(s_ram_buf) => kept # <<>>
                     /\ B = IF pend = NoSample THEN kept ELSE Append(kept, pend)
  BY BufferedIs DEF BufferIs
<1>2. pend \in Nat /\ RamRecords \in Nat
  BY RamAssumption DEF LogInv, OrderInv, NumberingInv, TypeOK
<1>3. Buffered' = IF pend # NoSample /\ Len(kept) < RamRecords
                    THEN Append(kept, pend) ELSE kept
  <2>1. PICK b : b = IF pend # NoSample /\ Len(kept) < RamRecords
                       THEN Append(kept, pend) ELSE kept
    OBVIOUS
  <2>2. b \in Seq(Nat)
    BY <1>1, <1>2, <2>1, AppendProperties
  <2>3. s_ram_buf' = b /\ flush_i' = 0 /\ pend' = NoSample
    BY <1>1, <2>1 DEF FinishFlush
  <2>4. SubSeq(b, 0 + 1, Len(b)) = b
    BY <2>2, SubSeqFull
  <2> QED
    BY <2>1, <2>3, <2>4 DEF Buffered
<1>4. CASE Buffered' = B
  BY <1>1, <1>4 DEF Ring!Survivors
<1>5. CASE Buffered' # B
  <2>1. /\ B = Append(kept, pend) /\ Buffered' = kept /\ ~(Len(kept) < RamRecords)
    BY <1>1, <1>3, <1>5
  <2>2. kept \in Ring!Survivors(B)
    <3>1. Len(B) = Len(kept) + 1 /\ Len(kept) \in Nat
      BY <1>1, <1>2, <2>1, AppendProperties
    <3>2. SubSeq(B, 1, Len(B) - 1) = kept
      BY <1>1, <1>2, <2>1, FrontSeq
    <3>3. Len(B) >= RamRecords
      BY <1>2, <2>1, <3>1
    <3> QED
      BY <3>2, <3>3 DEF Ring!Survivors
  <2>3. ASSUME flush_i < Len(s_ram_buf)
        PROVE  Tail(kept) \in Ring!Survivors(Tail(B))
    <3>1. PICK K, L : K = Tail(kept) /\ L = Tail(B)
      OBVIOUS
    <3>2. K \in Seq(Nat) /\ Len(kept) = Len(K) + 1
      BY <1>1, <2>3, <3>1, HeadTailProperties
    <3>3. L = Append(K, pend)
      BY <1>1, <1>2, <2>1, <2>3, <3>1, HeadTailAppend
    <3>4. Len(L) = Len(K) + 1 /\ Len(K) \in Nat
      BY <1>2, <3>2, <3>3, AppendProperties
    <3>5. SubSeq(L, 1, Len(L) - 1) = K
      BY <1>2, <3>2, <3>3, FrontSeq
    <3>6. Len(L) >= RamRecords
      BY <1>2, <2>1, <3>2, <3>4
    <3> QED
      BY <3>1, <3>5, <3>6 DEF Ring!Survivors
  <2> QED
    BY <1>1, <2>1, <2>2, <2>3
<1> QED
  BY <1>4, <1>5

\* A new sample comes last.
LEMMA QueueOffered ==
  ASSUME LogInv, AddRecord
  PROVE  /\ Buffered' = Append(Buffered, sampled + 1)
         /\ Buffered \in Seq(Nat) /\ Len(Buffered) <= RamRecords
         /\ OnFlash => Buffered # <<>>
<1>1. /\ s_ram_buf \in Seq(Nat) /\ Len(s_ram_buf) <= RamRecords /\ sampled \in Nat
      /\ flush_i = 0 /\ pend = NoSample
  BY BoundsAssumption
     DEF LogInv, OrderInv, NumberingInv, TypeOK, SampleInv, AddRecord
<1>2. SubSeq(s_ram_buf, 0 + 1, Len(s_ram_buf)) = s_ram_buf
  BY <1>1, SubSeqFull
<1>3. Buffered = s_ram_buf
  BY <1>1, <1>2 DEF Buffered
<1>4. sampled + 1 # NoSample /\ flush_i' = 0
  BY <1>1 DEF NoSample, AddRecord
<1>5. CASE Len(s_ram_buf) >= RamRecords
  <2>1. pend' = sampled + 1 /\ s_ram_buf' = s_ram_buf
    BY <1>5 DEF AddRecord
  <2>2. Buffered' = Append(SubSeq(s_ram_buf, 0 + 1, Len(s_ram_buf)), sampled + 1)
    BY <1>4, <2>1 DEF Buffered
  <2>3. Buffered' = Append(Buffered, sampled + 1)
    BY <1>2, <1>3, <2>2, Zenon
  <2> QED
    BY <1>1, <1>3, <2>3, WaitingIs DEF WaitersAre
<1>6. CASE ~(Len(s_ram_buf) >= RamRecords)
  <2>1. PICK b : b = Append(s_ram_buf, sampled + 1)
    OBVIOUS
  <2>2. b \in Seq(Nat)
    BY <1>1, <2>1, AppendProperties
  <2>3. pend' = NoSample /\ s_ram_buf' = b
    BY <1>1, <1>6, <2>1 DEF AddRecord
  <2>4. SubSeq(b, 0 + 1, Len(b)) = b
    BY <2>2, SubSeqFull
  <2>5. Buffered' = b
    BY <1>4, <2>3, <2>4 DEF Buffered
  <2> QED
    BY <1>1, <1>3, <2>1, <2>5, WaitingIs DEF WaitersAre
<1> QED
  BY <1>5, <1>6

\* A written one leaves at the head.
LEMMA QueueStored ==
  ASSUME LogInv, Writing, flush_i' = flush_i + 1, UNCHANGED <<s_ram_buf, pend>>
  PROVE  /\ Buffered' = Tail(Buffered) /\ Buffered # <<>>
         /\ Head(Buffered) = s_ram_buf[flush_i + 1] /\ Buffered \in Seq(Nat)
<1>1. PICK kept, B : /\ kept = FlushKeeps(flush_i) /\ B = Buffered
                     /\ kept \in Seq(Nat) /\ kept # <<>>
                     /\ B = IF pend = NoSample THEN kept ELSE Append(kept, pend)
  BY BufferedIs DEF BufferIs, Writing
<1>2. /\ s_ram_buf \in Seq(Nat) /\ pend \in Nat
      /\ flush_i + 1 \in 1 .. Len(s_ram_buf)
      /\ Len(s_ram_buf) \in flush_i + 1 .. Len(s_ram_buf)
  BY DEF LogInv, OrderInv, NumberingInv, TypeOK, Writing
<1>3. FlushKeeps(flush_i + 1) = Tail(kept)
  <2>1. SubSeq(s_ram_buf, flush_i + 1 + 1, Len(s_ram_buf))
          = Tail(SubSeq(s_ram_buf, flush_i + 1, Len(s_ram_buf)))
    BY <1>2, HeadTailOfSubSeq
  <2> QED
    BY <1>1, <2>1, Zenon DEF FlushKeeps
<1>4. Tail(Append(kept, pend)) = Append(Tail(kept), pend)
  <2>1. kept \in Seq(Nat) /\ kept # <<>> /\ pend \in Nat
    BY <1>1, <1>2
  <2> QED
    BY <2>1, HeadTailAppend
<1>5. Buffered' = IF pend = NoSample THEN FlushKeeps(flush_i + 1)
                                     ELSE Append(FlushKeeps(flush_i + 1), pend)
  BY Zenon DEF Buffered, FlushKeeps
<1>6. Buffered' = Tail(B)
  BY <1>1, <1>3, <1>4, <1>5, Zenon
<1> QED
  BY <1>1, <1>6, FirstBuffered DEF Writing

-----------------------------------------------------------------------------
(***************************************************************************)
(* The steps of the log are steps of the ring.                             *)
(***************************************************************************)
RingInv == LogInv /\ ~Twins /\ UseInv

\* What a step does to the list and, at most, to the queue, which it leaves as q.
LogMoves(q) ==
  \/ q = Waiting /\ (LogStays \/ LogDrops)
  \/ q = Tail(Waiting) /\ Waiting # <<>> /\ LogGains(Head(Waiting))

\* Each of them is one of the moves of the ring.
LEMMA MovesAre ==
  ASSUME NEW q, LogMoves(q)
  PROVE  \E m \in Ring!Moves : ReadableLog' = m[1] /\ m[2] = q
<1>1. PICK m : m = <<ReadableLog', q>>
  OBVIOUS
<1>2. m \in Ring!Moves
  <2>1. CASE q = Waiting /\ LogStays
    <3>1. m = <<ReadableLog, Waiting>>
      BY <1>1, <2>1 DEF LogStays
    <3> QED
      BY <3>1, Zenon DEF Ring!Moves
  <2>2. CASE q = Waiting /\ LogDrops
    <3>1. m \in Ring!Dropped
      BY <1>1, <2>2 DEF LogDrops, Ring!Dropped
    <3> QED
      BY <3>1, Zenon DEF Ring!Moves
  <2>3. CASE q = Tail(Waiting) /\ Waiting # <<>> /\ LogGains(Head(Waiting))
    <3>1. m = <<Append(ReadableLog, Head(Waiting)), Tail(Waiting)>>
      BY <1>1, <2>3 DEF LogGains
    <3>2. m \in Ring!Stored
      BY <2>3, <3>1, Zenon DEF Ring!Stored
    <3> QED
      BY <3>2, Zenon DEF Ring!Moves
  <2> QED
    BY <2>1, <2>2, <2>3 DEF LogMoves
<1>3. ReadableLog' = m[1] /\ m[2] = q
  BY <1>1
<1> QED
  BY <1>2, <1>3

\* The device keeps running,
LEMMA MoveIs ==
  ASSUME pc # "boot", pc' # "boot", UNCHANGED sampled, NEW q, LogMoves(q),
         Waiting' \in Ring!Survivors(q)
  PROVE  Ring!Move
<1>1. \E m \in Ring!Moves : ReadableLog' = m[1] /\ Waiting' \in Ring!Survivors(m[2])
  BY MovesAre
<1>2. UNCHANGED <<sampled, (pc # "boot")>>
  OBVIOUS
<1> QED
  BY <1>1, <1>2, Zenon DEF Ring!Move

\* or goes down.
LEMMA FallIs ==
  ASSUME pc # "boot", pc' = "boot", UNCHANGED sampled, NEW q, LogMoves(q),
         Waiting' = <<>>
  PROVE  Ring!GoDown
<1>1. \E m \in Ring!Moves : ReadableLog' = m[1]
  BY MovesAre
<1>2. (pc # "boot")' = FALSE
  OBVIOUS
<1> QED
  BY <1>1, <1>2, Zenon DEF Ring!GoDown

\* What may happen to the flash happens to the list.
LEMMA FlashMoves ==
  ASSUME RingInv, RingInv', NumSectors > 1, Tears = {},
         HalfWrite \/ HalfErase \/ HalfHeader \/ UNCHANGED flash
  PROVE  \/ UNCHANGED flash /\ LogStays
         \/ pc \in {"erase", "header"} /\ (LogStays \/ LogDrops)
         \/ /\ Writing /\ Open /\ ~OnFlash /\ LogGains(s_ram_buf[flush_i + 1])
            /\ hdr'[s_cur_sector] # NoHeader
            /\ record_is_valid(slot'[s_cur_sector][s_cur_slot])
<1>0. LogInv /\ ~Twins /\ UseInv /\ LogInv' /\ ~Twins' /\ OrderInv
  BY DEF RingInv, LogInv
<1>1. CASE HalfWrite
  <2>1. PICK v : /\ Writing /\ SetSlot(v) /\ UNCHANGED hdr
                 /\ v \in Interrupted(OldSlot, NewRecord)
    BY <1>1 DEF HalfWrite
  <2>2. /\ Open /\ hdr[s_cur_sector] # NoHeader /\ slot'[s_cur_sector][s_cur_slot] = v
        /\ \/ UNCHANGED flash
           \/ ~OnFlash /\ LogGains(s_ram_buf[flush_i + 1]) /\ v = NewRecord
    BY <1>0, <2>1, ListWritten
  <2>3. record_is_valid(NewRecord)
    BY DEF NewRecord, record_is_valid
  <2> QED
    BY <1>0, <2>1, <2>2, <2>3, ListSameFlash
<1>2. CASE HalfErase \/ HalfHeader
  <2>1. UNCHANGED flash \/ \E m, h, d : Renews(m, h, d)
    BY <1>0, <1>2, Renewing
  <2>2. pc \in {"erase", "header"}
    BY <1>2 DEF HalfErase, HalfHeader
  <2> QED
    BY <1>0, <2>1, <2>2, ListSameFlash, ListRenewed
<1>3. CASE UNCHANGED flash
  BY <1>0, <1>3, ListSameFlash
<1> QED
  BY <1>1, <1>2, <1>3

\* ntc_history_add_record offers a sample.
LEMMA OfferStep ==
  ASSUME RingInv, RingInv', AddRecord PROVE Ring!Offer
<1>0. LogInv /\ ~Twins /\ LogInv' /\ ~Twins'
  BY DEF RingInv
<1>1. pc = "idle" /\ pc' # "boot" /\ sampled < MaxSamples /\ sampled' = sampled + 1
      /\ UNCHANGED <<flash, cursor>>
  BY DEF AddRecord
<1>2. LogStays
  BY <1>0, <1>1, ListSameFlash DEF flash
<1>3. /\ Buffered' = Append(Buffered, sampled + 1) /\ Buffered \in Seq(Nat)
      /\ Len(Buffered) <= RamRecords
      /\ OnFlash => Buffered # <<>>
  BY <1>0, QueueOffered
<1>4. OnFlash' <=> OnFlash
  BY <1>1 DEF OnFlash, Open, Stored, record_is_valid, flash, cursor
<1>5. /\ Waiting = IF OnFlash THEN Tail(Buffered) ELSE Buffered
      /\ Waiting' = IF OnFlash THEN Tail(Buffered') ELSE Buffered'
  <2>1. WaitersAre'
    BY WaitingIs, PTL
  <2> QED
    BY <1>0, <1>4, <2>1, WaitingIs DEF WaitersAre
<1>6. sampled + 1 \in Nat /\ RamRecords \in Nat
  BY <1>0, BoundsAssumption, RamAssumption DEF LogInv, OrderInv, NumberingInv, TypeOK
<1>7. /\ Waiting' = Append(Waiting, sampled + 1)
      /\ Len(Waiting) <= RamRecords
  <2>1. CASE OnFlash
    <3>1. PICK B, W : B = Buffered /\ W = Tail(B)
      OBVIOUS
    <3>2. Tail(Append(B, sampled + 1)) = Append(W, sampled + 1)
      BY <1>3, <1>6, <2>1, <3>1, HeadTailAppend
    <3>3. Len(W) = Len(B) - 1 /\ Len(B) \in Nat
      BY <1>3, <2>1, <3>1, HeadTailProperties
    <3>4. Len(W) <= RamRecords
      BY <1>3, <1>6, <3>1, <3>3
    <3> QED
      BY <1>3, <1>5, <2>1, <3>1, <3>2, <3>4, Zenon
  <2>2. CASE ~OnFlash
    BY <1>3, <1>5, <2>2, Zenon
  <2> QED
    BY <2>1, <2>2
<1>8. pc # "boot" /\ (pc # "boot")' = (pc # "boot")
  BY <1>1
<1> QED
  BY <1>1, <1>2, <1>7, <1>8, Zenon DEF Ring!Offer, LogStays

\* The queue before and after a step.
LEMMA QueueIs ==
  ASSUME LogInv, LogInv'
  PROVE  /\ Waiting = IF OnFlash THEN Tail(Buffered) ELSE Buffered
         /\ Waiting' = IF OnFlash' THEN Tail(Buffered') ELSE Buffered'
         /\ OnFlash => flush_i < Len(s_ram_buf)
<1>1. WaitersAre /\ WaitersAre'
  BY WaitingIs, PTL
<1> QED
  BY <1>1, Zenon DEF WaitersAre

\* Where flash, cursor and buffer stay as they are, so do list and queue.
LEMMA QuietStep ==
  ASSUME LogInv, ~Twins, LogInv', ~Twins', UNCHANGED <<flash, cursor, buffer, sampled>>,
         pc' = "boot" <=> pc = "boot"
  PROVE  UNCHANGED <<ReadableLog, Waiting, sampled, (pc # "boot")>>
<1>1. LogStays
  BY ListSameFlash DEF flash
<1>2. Buffered' = Buffered /\ (OnFlash' <=> OnFlash)
  BY DEF Buffered, OnFlash, Open, Stored, record_is_valid, flash, cursor, buffer
<1>3. Waiting' = Waiting
  <2>1. CASE OnFlash
    BY <1>2, <2>1, QueueIs, Zenon
  <2>2. CASE ~OnFlash
    BY <1>2, <2>2, QueueIs, Zenon
  <2> QED
    BY <2>1, <2>2
<1>4. (pc # "boot")' = (pc # "boot")
  BY Zenon
<1> QED
  BY <1>1, <1>3, <1>4 DEF LogStays

\* A flush that has written everything lets nothing go.
LEMMA FlushedStep ==
  ASSUME RingInv, RingInv', FlushDone PROVE Ring!Move
<1>0. LogInv /\ ~Twins /\ LogInv' /\ ~Twins'
  BY DEF RingInv
<1>1. /\ pc # "boot" /\ pc' # "boot" /\ UNCHANGED <<flash, cursor, sampled>>
      /\ FinishFlush(flush_i) /\ ~(flush_i < Len(s_ram_buf))
  <2>1. flush_i \in Nat /\ Len(s_ram_buf) \in Nat
    BY <1>0 DEF LogInv, OrderInv, NumberingInv, TypeOK
  <2>2. pc = "flush" /\ flush_i = Len(s_ram_buf) /\ FinishFlush(flush_i)
        /\ UNCHANGED <<flash, cursor, sampled>>
    BY DEF FlushDone
  <2> QED
    BY <2>1, <2>2 DEF FinishFlush
<1>2. LogStays
  BY <1>0, <1>1, ListSameFlash DEF flash
<1>3. ~OnFlash /\ ~OnFlash'
  <2>1. OnFlash' <=> OnFlash
    BY <1>1 DEF OnFlash, Open, Stored, record_is_valid, flash, cursor
  <2> QED
    BY <1>0, <1>1, <2>1, QueueIs
<1>4. Waiting' \in Ring!Survivors(Waiting)
  BY <1>0, <1>1, <1>3, QueueIs, QueueSurvives, Zenon
<1> QED
  BY <1>1, <1>2, <1>4, MoveIs DEF LogMoves

\* Renewing a sector touches the list only.
LEMMA RenewStep ==
  ASSUME RingInv, RingInv', NumSectors > 1, EraseSector \/ WriteHeader PROVE Ring!Move
<1>0. /\ LogInv /\ ~Twins /\ UseInv /\ LogInv' /\ ~Twins'
      /\ TypeOK /\ LockHolder /\ OrderInv
  BY DEF RingInv, LogInv, OrderInv, NumberingInv
<1>1. /\ pc \in {"erase", "header"} /\ pc' # "boot" /\ UNCHANGED <<buffer, sampled>>
  BY DEF EraseSector, WriteHeader
<1>2. LogStays \/ LogDrops
  <2>1. UNCHANGED flash \/ \E m, h, d : Renews(m, h, d)
    BY <1>0, Renewing
  <2> QED
    BY <1>0, <2>1, ListSameFlash, ListRenewed
<1>3. ~Open
  BY <1>0, <1>1, SlotsAssumption DEF LockHolder, Open, TypeOK
<1>4. ~OnFlash'
  <2>1. CASE EraseSector
    BY <1>3, <2>1 DEF EraseSector, OnFlash, Open, cursor
  <2>2. CASE WriteHeader
    <3>1. s_cur_sector' = next /\ s_cur_slot' = 0 /\ slot' = slot /\ next \in Sectors
      BY <1>0, <2>2 DEF WriteHeader, CursorAfterAdvance, TypeOK
    <3>2. slot[next] = BlankSlots /\ 0 \in Slots
      BY <1>0, <2>2, SlotsAssumption DEF WriteHeader, LockHolder, Slots
    <3>3. slot'[next][0].st = "empty"
      BY <3>1, <3>2 DEF BlankSlots, Empty
    <3> QED
      BY <3>1, <3>3 DEF OnFlash, Stored, record_is_valid
  <2> QED
    BY <2>1, <2>2
<1>5. ~OnFlash
  BY <1>3 DEF OnFlash
<1>6. Buffered' = Buffered
  BY <1>1 DEF Buffered, buffer
<1>7. Waiting' = Waiting
  BY <1>0, <1>4, <1>5, <1>6, QueueIs, Zenon
<1>8. Waiting' \in Ring!Survivors(Waiting)
  BY <1>7, Zenon DEF Ring!Survivors
<1> QED
  BY <1>1, <1>2, <1>8, MoveIs DEF LogMoves

\* A record is stored, or found stored.
LEMMA StoreStep ==
  ASSUME RingInv, RingInv', Tears = {}, WriteRecord
  PROVE  \/ Ring!Move
         \/ UNCHANGED <<ReadableLog, Waiting, sampled, (pc # "boot")>>
<1>0. /\ LogInv /\ ~Twins /\ LogInv' /\ ~Twins' /\ TypeOK /\ TailInv /\ TypeOK'
  BY DEF RingInv, LogInv, OrderInv, NumberingInv
<1>1. /\ Writing /\ UNCHANGED <<hdr, sampled, s_ram_buf, pend, s_cur_sector, s_ready, pc>>
      /\ flush_i' = flush_i + 1 /\ s_cur_slot' = s_cur_slot + 1
      /\ pc # "boot" /\ pc' # "boot"
  BY DEF WriteRecord, Writing
<1>2. PICK v : v = Program(OldSlot, NewRecord) /\ SetSlot(v)
  BY DEF WriteRecord
<1>3. /\ v = NewRecord /\ Open /\ s_cur_sector \in Sectors /\ s_cur_slot \in Slots
      /\ hdr[s_cur_sector] # NoHeader /\ slot'[s_cur_sector][s_cur_slot] = v
      /\ \A k \in Slots : k # s_cur_slot =>
           slot'[s_cur_sector][k] = slot[s_cur_sector][k]
      /\ \/ UNCHANGED flash
         \/ ~OnFlash /\ LogGains(s_ram_buf[flush_i + 1])
  BY <1>0, <1>1, <1>2, ListWritten
<1>4. ~OnFlash'
  <2> SUFFICES ASSUME s_cur_slot' < RecordsPerSector PROVE ~OnFlash'
    BY DEF OnFlash, Open
  <2>1. s_cur_slot + 1 \in Slots /\ s_cur_slot + 1 > s_cur_slot /\ s_cur_slot + 1 # s_cur_slot
    BY <1>1, <1>3, SlotsAssumption DEF Slots
  <2>2. slot[s_cur_sector][s_cur_slot + 1].st = "empty"
    BY <1>0, <1>3, <2>1 DEF TailInv, CursorTail, Open
  <2>3. slot'[s_cur_sector'][s_cur_slot'].st = "empty"
    BY <1>1, <1>3, <2>1, <2>2
  <2> QED
    BY <2>3 DEF OnFlash, Stored, record_is_valid
<1>5. /\ Buffered' = Tail(Buffered) /\ Buffered # <<>>
      /\ Head(Buffered) = s_ram_buf[flush_i + 1]
  BY <1>0, <1>1, QueueStored
<1>6. Waiting' = Tail(Buffered)
  BY <1>0, <1>4, <1>5, QueueIs, Zenon
<1>7. CASE OnFlash
  <2>1. LogStays
    BY <1>0, <1>3, <1>7, ListSameFlash
  <2>2. Waiting' = Waiting
    BY <1>0, <1>6, <1>7, QueueIs, Zenon
  <2>3. (pc # "boot")' = (pc # "boot")
    BY <1>1
  <2> QED
    BY <1>1, <2>1, <2>2, <2>3 DEF LogStays
<1>8. CASE ~OnFlash
  <2>1. LogGains(s_ram_buf[flush_i + 1])
    <3>1. record_is_valid(slot'[s_cur_sector][s_cur_slot])
      BY <1>3 DEF NewRecord, record_is_valid
    <3>2. ~UNCHANGED flash
      BY <1>3, <1>8, <3>1 DEF OnFlash, Stored, record_is_valid, flash
    <3> QED
      BY <1>3, <3>2
  <2>2. Waiting = Buffered
    BY <1>0, <1>8, QueueIs, Zenon
  <2>3. LogMoves(Tail(Waiting))
    BY <1>5, <2>1, <2>2, Zenon DEF LogMoves
  <2>4. Waiting' \in Ring!Survivors(Tail(Waiting))
    BY <1>6, <2>2, Zenon DEF Ring!Survivors
  <2> QED
    BY <1>1, <2>3, <2>4, MoveIs
<1> QED
  BY <1>7, <1>8

\* A flash operation that fails leaves what it has moved; with the queue full it
\* costs the sample that came last.
LEMMA FailStep ==
  ASSUME RingInv, RingInv', NumSectors > 1, Tears = {}, FlashError, s_ready
  PROVE  Ring!Move
<1>0. /\ LogInv /\ ~Twins /\ LogInv' /\ ~Twins' /\ TypeOK /\ LockHolder
  BY DEF RingInv, LogInv, OrderInv, NumberingInv
<1>1. /\ FinishFlush(flush_i) /\ UNCHANGED <<cursor, sampled>>
      /\ HalfWrite \/ HalfErase \/ HalfHeader
  BY DEF FlashError
<1>2. pc # "boot" /\ pc' # "boot"
  BY <1>1 DEF HalfWrite, HalfErase, HalfHeader, Writing, FinishFlush
<1>3. PICK B, C, W, V : B = Buffered /\ C = Buffered' /\ W = Waiting /\ V = Waiting'
  OBVIOUS
<1>4. /\ W = IF OnFlash THEN Tail(B) ELSE B
      /\ V = IF OnFlash' THEN Tail(C) ELSE C
      /\ OnFlash => flush_i < Len(s_ram_buf)
  BY <1>0, <1>3, QueueIs, Zenon
<1>5. /\ C \in Ring!Survivors(B)
      /\ flush_i < Len(s_ram_buf) => Tail(C) \in Ring!Survivors(Tail(B))
  BY <1>0, <1>1, <1>3, QueueSurvives, Zenon
<1>6. CASE UNCHANGED flash /\ LogStays
  <2>1. OnFlash' <=> OnFlash
    BY <1>1, <1>6 DEF OnFlash, Open, Stored, record_is_valid, flash, cursor
  <2>2. CASE OnFlash
    <3>1. V = Tail(C) /\ W = Tail(B) /\ flush_i < Len(s_ram_buf)
      BY <1>4, <2>1, <2>2, Zenon
    <3> QED
      BY <1>2, <1>1, <1>3, <1>5, <1>6, <3>1, MoveIs DEF LogMoves
  <2>3. CASE ~OnFlash
    <3>1. V = C /\ W = B
      BY <1>4, <2>1, <2>3, Zenon
    <3> QED
      BY <1>2, <1>1, <1>3, <1>5, <1>6, <3>1, MoveIs DEF LogMoves
  <2> QED
    BY <2>2, <2>3
<1>7. CASE pc \in {"erase", "header"} /\ (LogStays \/ LogDrops)
  <2>1. ~Open /\ ~Open'
    BY <1>0, <1>1, <1>7, SlotsAssumption DEF LockHolder, Open, TypeOK, cursor
  <2>2. V = C /\ W = B
    BY <1>4, <2>1, Zenon DEF OnFlash
  <2> QED
    BY <1>2, <1>1, <1>3, <1>5, <1>7, <2>2, MoveIs DEF LogMoves
<1>8. CASE /\ Writing /\ Open /\ ~OnFlash /\ LogGains(s_ram_buf[flush_i + 1])
           /\ hdr'[s_cur_sector] # NoHeader
           /\ record_is_valid(slot'[s_cur_sector][s_cur_slot])
  <2>1. OnFlash'
    BY <1>1, <1>8 DEF OnFlash, Open, Stored, record_is_valid, cursor
  <2>2. flush_i < Len(s_ram_buf)
    BY <1>8 DEF Writing
  <2>3. V = Tail(C) /\ W = B
    BY <1>4, <1>8, <2>1, Zenon
  <2>4. B # <<>> /\ Head(B) = s_ram_buf[flush_i + 1]
    BY <1>0, <1>3, <2>2, FirstBuffered
  <2>5. LogMoves(Tail(W))
    BY <1>3, <1>8, <2>3, <2>4, Zenon DEF LogMoves
  <2>6. V \in Ring!Survivors(Tail(W))
    BY <1>5, <2>2, <2>3, Zenon
  <2> QED
    BY <1>1, <1>2, <1>3, <2>5, <2>6, MoveIs
<1> QED
  BY <1>0, <1>1, <1>6, <1>7, <1>8, FlashMoves

\* A reset, in whatever flash operation, empties the queue.
LEMMA ResetStep ==
  ASSUME RingInv, RingInv', NumSectors > 1, Tears = {},
         (FlashError /\ ~s_ready) \/ PowerLoss
  PROVE  Ring!GoDown
<1>0. LogInv /\ LogInv'
  BY DEF RingInv
<1>1. /\ Reset /\ UNCHANGED sampled /\ pc # "boot"
      /\ HalfWrite \/ HalfErase \/ HalfHeader \/ UNCHANGED flash
  BY DEF FlashError, PowerLoss, HalfWrite, HalfErase, HalfHeader, Writing
<1>2. pc' = "boot" /\ s_ram_buf' = <<>> /\ flush_i' = 0 /\ pend' = NoSample
  BY <1>1 DEF Reset
<1>3. Buffered' = <<>>
  <2>1. SubSeq(<<>>, 0 + 1, Len(<<>>)) = <<>>
    OBVIOUS
  <2> QED
    BY <1>2, <2>1 DEF Buffered
<1>4. Waiting' = <<>>
  BY <1>3 DEF Waiting
<1>5. \E q : LogMoves(q)
  <2>1. CASE LogStays \/ LogDrops
    BY <2>1 DEF LogMoves
  <2>2. CASE Writing /\ ~OnFlash /\ LogGains(s_ram_buf[flush_i + 1])
    <3>1. /\ Waiting = Buffered /\ Buffered # <<>>
          /\ Head(Buffered) = s_ram_buf[flush_i + 1]
      BY <1>0, <2>2, QueueIs, FirstBuffered DEF Writing
    <3>2. LogMoves(Tail(Waiting))
      BY <2>2, <3>1, Zenon DEF LogMoves
    <3> QED
      BY <3>2
  <2> QED
    BY <1>1, <2>1, <2>2, FlashMoves
<1> QED
  BY <1>1, <1>2, <1>4, <1>5, FallIs

\* A boot finds the log as it was.
LEMMA BootStep ==
  ASSUME RingInv, RingInv', Boot PROVE Ring!ComeUp
<1>0. LogInv /\ ~Twins /\ LogInv' /\ ~Twins' /\ SampleInv /\ LockHolder
  BY DEF RingInv, LogInv, OrderInv, NumberingInv
<1>1. pc = "boot" /\ pc' # "boot" /\ UNCHANGED <<flash, buffer, sampled>>
  BY DEF Boot, BootFormat, BootResume
<1>2. LogStays
  BY <1>0, <1>1, ListSameFlash DEF flash
<1>3. s_ram_buf = <<>> /\ flush_i = 0 /\ pend = NoSample
  BY <1>0, <1>1 DEF SampleInv, LockHolder
<1>4. Buffered = <<>> /\ Buffered' = <<>>
  <2>1. SubSeq(<<>>, 0 + 1, Len(<<>>)) = <<>>
    OBVIOUS
  <2>2. Buffered = <<>>
    BY <1>3, <2>1 DEF Buffered
  <2>3. Buffered' = Buffered
    BY <1>1 DEF Buffered, buffer
  <2> QED
    BY <2>2, <2>3
<1>5. Waiting = <<>> /\ Waiting' = <<>>
  BY <1>4 DEF Waiting
<1>6. ~(pc # "boot") /\ (pc # "boot")' = TRUE
  BY <1>1
<1> QED
  BY <1>1, <1>2, <1>5, <1>6, Zenon DEF Ring!ComeUp, LogStays

\* The log of a new device is empty.
LEMMA RingStart == Init => Ring!RingInit
<1> SUFFICES ASSUME Init PROVE Ring!RingInit
  OBVIOUS
<1>1. VisibleRecords = {}
  <2>1. \A s \in Sectors : hdr[s] = NoHeader
    BY DEF Init
  <2>2. ~\E r : r \in VisibleRecords
    <3> SUFFICES ASSUME NEW r \in VisibleRecords PROVE FALSE
      OBVIOUS
    <3>1. PICK p \in Sectors \X Slots : Visible(p[1], p[2])
      BY DEF VisibleRecords
    <3> QED
      BY <2>1, <3>1 DEF Visible
  <2> QED
    BY <2>2
<1>2. ReadableLog = <<>>
  <2>1. Cardinality(VisibleRecords) = 0
    BY <1>1, FS_EmptySet
  <2> QED
    BY <2>1 DEF ReadableLog
<1>3. Waiting = <<>>
  <2>1. SubSeq(<<>>, 0 + 1, Len(<<>>)) = <<>>
    OBVIOUS
  <2>2. Buffered = <<>>
    BY <2>1 DEF Init, Buffered
  <2> QED
    BY <2>2 DEF Waiting
<1>4. sampled = 0 /\ ~(pc # "boot")
  BY DEF Init
<1> QED
  BY <1>2, <1>3, <1>4 DEF Ring!RingInit

\* Every step of the log is a step of the ring, or none.
LEMMA RingSteps ==
  ASSUME RingInv, RingInv', NumSectors > 1, Tears = {}, [Next]_vars
  PROVE  [Ring!RingNext]_<<ReadableLog, Waiting, sampled, (pc # "boot")>>
<1>0. LogInv /\ ~Twins /\ LogInv' /\ ~Twins'
  BY DEF RingInv
<1>1. CASE AddRecord
  BY <1>1, OfferStep DEF Ring!RingNext
<1>2. CASE Flush \/ AdvanceSector \/ UNCHANGED vars
  <2>1. UNCHANGED <<flash, cursor, buffer, sampled>> /\ (pc' = "boot" <=> pc = "boot")
    BY <1>2 DEF Flush, AdvanceSector, vars
  <2> QED
    BY <1>0, <2>1, QuietStep
<1>3. CASE FlushDone
  BY <1>3, FlushedStep DEF Ring!RingNext
<1>4. CASE EraseSector \/ WriteHeader
  BY <1>4, RenewStep DEF Ring!RingNext
<1>5. CASE WriteRecord
  BY <1>5, StoreStep DEF Ring!RingNext
<1>6. CASE FlashError /\ s_ready
  BY <1>6, FailStep DEF Ring!RingNext
<1>7. CASE (FlashError /\ ~s_ready) \/ PowerLoss
  BY <1>7, ResetStep DEF Ring!RingNext
<1>8. CASE Boot
  BY <1>8, BootStep DEF Ring!RingNext
<1> QED
  BY <1>1, <1>2, <1>3, <1>4, <1>5, <1>6, <1>7, <1>8 DEF Next, LogStep

\* ntc_history.h: the log is "a flash-based ring buffer".  It implements RingLog:
\* every step of ntc_history.c, over flash errors and power losses, takes a sample,
\* stores the oldest waiting one behind the others, drops the oldest sector of a
\* full log, or changes nothing a reader sees; a sample is lost only by a reset, or
\* as the last of a full buffer.
THEOREM LogImplementsRing ==
  ASSUME NumSectors > 1, Tears = {}, ReadsFail = FALSE
  PROVE  Spec => ImplementsRing
<1>1. Spec => []RingInv
  BY UseInvariant DEF RingInv
<1>2. RingInv /\ RingInv' /\ [Next]_vars
        => [Ring!RingNext]_<<ReadableLog, Waiting, sampled, (pc # "boot")>>
  BY RingSteps
<1>3. Init => Ring!RingInit
  BY RingStart
<1> QED
  BY <1>1, <1>2, <1>3, PTL DEF Spec, ImplementsRing, Ring!RingSpec
=============================================================================
