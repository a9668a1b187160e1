------------------------- MODULE HistoryReadersProofs -------------------------
(***************************************************************************)
(* Theorems about reading the log while it is written, for every size of   *)
(* the log and of an answer, and any number of samples and faults.         *)
(***************************************************************************)
EXTENDS HistoryReaders, NtcHistoryOrderProofs, FiniteSetTheorems

(***************************************************************************)
(* Lemmas about the operators of HistoryReaders.                           *)
(***************************************************************************)
\* A reader of sector s gets as far as slot k.
Reached(s, k) == \A j \in 0 .. k : record_is_valid(slot[s][j])

\* What the reader finds in a sector: the samples of the slots before the first
\* one that holds no valid record.
LEMMA SectorRecordsAre ==
  ASSUME TypeOK, NEW s \in Sectors
  PROVE  /\ SectorRecords(s) \in Seq(Nat)
         /\ Len(SectorRecords(s)) \in Nat
         /\ \A i \in 1 .. Len(SectorRecords(s)) :
              /\ i - 1 \in Slots /\ Reached(s, i - 1)
              /\ SectorRecords(s)[i] = slot[s][i - 1].id
         /\ \A k \in Slots : Reached(s, k) => k + 1 \in 1 .. Len(SectorRecords(s))
<1> DEFINE D == {k \in Slots : Reached(s, k)}
           n == Cardinality(D)
<1>1. \A k \in D : 0 .. k \subseteq D
  <2> SUFFICES ASSUME NEW k \in D, NEW i \in 0 .. k PROVE i \in D
    OBVIOUS
  <2>1. k \in Nat /\ i \in Slots /\ 0 .. i \subseteq 0 .. k
    BY SlotsAssumption DEF Slots
  <2> QED
    BY <2>1 DEF Reached
<1>2. IsFiniteSet(D) /\ n \in Nat
  <2>1. IsFiniteSet(Slots)
    BY SlotsAssumption, FS_Interval DEF Slots
  <2>2. D \in SUBSET Slots
    OBVIOUS
  <2> HIDE DEF D
  <2>3. IsFiniteSet(D)
    BY <2>1, <2>2, FS_Subset
  <2> QED
    BY <2>3, FS_CardinalityType
<1>3. \A k \in D : k + 1 \in 1 .. n
  <2> SUFFICES ASSUME NEW k \in D PROVE k + 1 \in 1 .. n
    OBVIOUS
  <2>1. k \in Nat
    BY DEF Slots
  <2>2. Cardinality(0 .. k) = k + 1
    BY <2>1, FS_Interval
  <2>3. Cardinality(0 .. k) <= n
    BY <1>1, <1>2, FS_Subset
  <2> QED
    BY <1>2, <2>1, <2>2, <2>3
<1>4. \A i \in 1 .. n : i - 1 \in D
  <2> SUFFICES ASSUME NEW i \in 1 .. n, i - 1 \notin D PROVE FALSE
    OBVIOUS
  <2>1. i \in Nat /\ i >= 1 /\ i <= n
    BY <1>2
  <2>2. D \subseteq 0 .. i - 2
    <3> SUFFICES ASSUME NEW k \in D, ~(k < i - 1) PROVE FALSE
      BY <2>1 DEF Slots
    <3>1. k \in Nat /\ i - 1 \in 0 .. k
      BY <2>1 DEF Slots
    <3> QED
      BY <1>1, <3>1
  <2>3. IsFiniteSet(0 .. i - 2) /\ Cardinality(0 .. i - 2) = i - 1
    <3>1. i - 2 \in Int /\ 0 \in Int
      BY <2>1
    <3>2. /\ IsFiniteSet(0 .. i - 2)
          /\ Cardinality(0 .. i - 2) = IF 0 > i - 2 THEN 0 ELSE i - 2 - 0 + 1
      BY <3>1, FS_Interval
    <3> QED
      BY <2>1, <3>2
  <2>4. n <= i - 1
    BY <2>2, <2>3, FS_Subset
  <2> QED
    BY <1>2, <2>1, <2>4
<1>5. SectorRecords(s) = [i \in 1 .. n |-> slot[s][i - 1].id]
  BY DEF SectorRecords, Reached
<1> HIDE DEF n, D
<1>6. \A i \in 1 .. n : i - 1 \in Slots /\ Reached(s, i - 1) /\ slot[s][i - 1].id \in Nat
  BY <1>4 DEF D, TypeOK, SlotValue
<1>7. SectorRecords(s) \in Seq(Nat) /\ Len(SectorRecords(s)) = n
  BY <1>2, <1>5, <1>6
<1>8. \A k \in Slots : Reached(s, k) => k + 1 \in 1 .. n
  BY <1>3 DEF D
<1> QED
  BY <1>2, <1>5, <1>6, <1>7, <1>8

\* A list of sectors has each of them once, in the order of their numbers.
LEMMA SectorListsAre ==
  ASSUME NEW S \in SUBSET Sectors, NEW q \in SectorLists(S)
  PROVE  /\ q \in Seq(Sectors) /\ Len(q) \in Nat
         /\ \A i \in 1 .. Len(q) : q[i] \in S
         /\ \A i, j \in 1 .. Len(q) : q[i] = q[j] => i = j
         /\ \A i, j \in 1 .. Len(q) : i < j => hdr[q[i]] <= hdr[q[j]]
         /\ \A s \in S : \E i \in 1 .. Len(q) : q[i] = s
<1> DEFINE n == Cardinality(S)
<1>1. IsFiniteSet(S) /\ n \in Nat
  <2>1. IsFiniteSet(Sectors)
    BY SectorsAssumption, FS_Interval DEF Sectors
  <2> QED
    BY <2>1, FS_Subset, FS_CardinalityType
<1>2. /\ q \in [1 .. n -> S]
      /\ \A i, j \in 1 .. n : i # j => q[i] # q[j]
  BY DEF SectorLists, SetToSeqs
<1>3. \A i, j \in 1 .. Len(q) : i < j => hdr[q[i]] <= hdr[q[j]]
  BY DEF SectorLists
<1>4. IsFiniteSet(1 .. n) /\ Cardinality(1 .. n) = n
  BY <1>1, FS_Interval
<1>5. q \in Injection(1 .. n, S)
  BY <1>2 DEF Injection, IsInjective
<1>6. q \in Surjection(1 .. n, S)
  BY <1>1, <1>4, <1>5, FS_Injection
<1>7. \A s \in S : \E i \in 1 .. n : q[i] = s
  BY <1>6 DEF Surjection
<1> HIDE DEF n
<1>8. q \in Seq(Sectors) /\ Len(q) = n
  BY <1>1, <1>2
<1> QED
  BY <1>1, <1>2, <1>3, <1>7, <1>8

\* A step of the readers, or of anything that may run beside them, is a step of
\* the log or leaves it alone.
LEMMA LogOrReader ==
  ASSUME [ReadersNext]_allvars
  PROVE  /\ [Next]_vars
         /\ \/ Writer(Next)
            \/ (Request \/ List \/ Read) /\ UNCHANGED vars
            \/ UNCHANGED allvars
BY DEF ReadersNext, Writer, allvars

\* Reading a sector skips d records of it and passes on t behind them.
Passes(d, t) ==
  LET recs == SectorRecords(Head(sectors)) IN
    /\ d \in Nat /\ d <= Len(recs) /\ d <= skip /\ (d = skip \/ d = Len(recs))
    /\ t \in Int /\ t <= Len(recs) - d
    /\ skip' = skip - d
    /\ rows' = rows \o SubSeq(recs, d + 1, d + t)
    /\ met' = met \cup {recs[i] : i \in 1 .. d + t}
    /\ \/ /\ sectors' = Tail(sectors) /\ r_pc' = r_pc /\ t = Len(recs) - d
          /\ kind = "get_records" => t < MaxRows - Len(rows)
       \/ /\ sectors' = <<>> /\ r_pc' = "done" /\ t = MaxRows - Len(rows)
          /\ kind = "get_records"

\* A sector on the list of sectors is one.
LEMMA HeadSector ==
  ASSUME ReadersTypeOK, sectors # <<>>
  PROVE  /\ Len(sectors) \in Nat /\ 1 \in 1 .. Len(sectors)
         /\ Head(sectors) \in Sectors /\ Head(sectors) = sectors[1]
         /\ Tail(sectors) \in Seq(Sectors) /\ Len(Tail(sectors)) = Len(sectors) - 1
         /\ \A i \in 1 .. Len(Tail(sectors)) :
              i + 1 \in 1 .. Len(sectors) /\ Tail(sectors)[i] = sectors[i + 1]
<1>1. sectors \in Seq(Sectors)
  BY DEF ReadersTypeOK
<1>2. Len(sectors) \in Nat \ {0}
  BY <1>1, EmptySeq
<1>3. Head(sectors) = sectors[1]
  BY <1>1, <1>2
<1>4. /\ Head(sectors) \in Sectors
      /\ Tail(sectors) \in Seq(Sectors) /\ Len(Tail(sectors)) = Len(sectors) - 1
      /\ \A i \in 1 .. Len(Tail(sectors)) : Tail(sectors)[i] = sectors[i + 1]
  BY <1>1, HeadTailProperties
<1> QED
  BY <1>2, <1>3, <1>4

\* So does the callback, for either of its two users.
LEMMA CopySectorPasses ==
  ASSUME TypeOK, ReadersTypeOK, CopySector
  PROVE  \E d, t : Passes(d, t)
<1>1. sectors # <<>> /\ skip \in Nat /\ rows \in Seq(Nat)
  BY DEF CopySector, ReadersTypeOK
<1>2. Head(sectors) \in Sectors
  BY <1>1, HeadSector
<1> DEFINE recs == SectorRecords(Head(sectors))
           drop == Smaller(skip, Len(recs))
           left == Len(recs) - drop
           room == MaxRows - Len(rows)
           full == kind = "get_records" /\ left >= room
           take == IF full THEN room ELSE left
<1>3. /\ Len(recs) \in Nat /\ Len(rows) \in Nat /\ MaxRows \in Nat
      /\ \A i \in 1 .. Len(recs) : recs[i] \in Nat
  BY <1>1, <1>2, SectorRecordsAre, MaxRowsAssumption
<1>4. /\ skip' = skip - drop
      /\ rows' = rows \o SubSeq(recs, drop + 1, drop + take)
      /\ met' = met \cup ToSet(SubSeq(recs, 1, drop + take))
      /\ IF full THEN r_pc' = "done" /\ sectors' = <<>>
                 ELSE sectors' = Tail(sectors) /\ UNCHANGED r_pc
  BY DEF CopySector
<1> HIDE DEF recs
<1>5. /\ drop \in Nat /\ drop <= Len(recs) /\ drop <= skip
      /\ drop = skip \/ drop = Len(recs)
  BY <1>1, <1>3 DEF Smaller
<1> HIDE DEF drop
<1>6. /\ take \in Int /\ take <= left /\ (full => take = room /\ kind = "get_records")
      /\ ~full => take = left /\ (kind = "get_records" => take < room)
  BY <1>3, <1>5
<1> HIDE DEF full, take
<1>7. ToSet(SubSeq(recs, 1, drop + take)) = {recs[i] : i \in 1 .. drop + take}
  <2>1. PICK m \in Int : m = drop + take /\ m <= Len(recs)
    BY <1>3, <1>5, <1>6
  <2>2. \A i \in 1 .. m : recs[i] \in Nat
    BY <1>3, <2>1
  <2>3. PICK part : part = SubSeq(recs, 1, m)
    OBVIOUS
  <2>4. /\ part \in Seq(Nat)
        /\ Len(part) = IF 1 <= m THEN m - 1 + 1 ELSE 0
        /\ \A i \in 1 .. m - 1 + 1 : part[i] = recs[1 + i - 1]
    BY <2>1, <2>2, <2>3, SubSeqProperties
  <2>5. 1 .. Len(part) = 1 .. m /\ \A i \in 1 .. m : part[i] = recs[i]
    BY <2>1, <2>4
  <2>6. DOMAIN part = 1 .. m
    BY <2>4, <2>5
  <2> QED
    BY <2>1, <2>3, <2>5, <2>6 DEF ToSet
<1>8. met' = met \cup {recs[i] : i \in 1 .. drop + take}
  BY <1>4, <1>7, Zenon
<1>9. /\ skip' = skip - drop
      /\ rows' = rows \o SubSeq(recs, drop + 1, drop + take)
      /\ \/ full /\ r_pc' = "done" /\ sectors' = <<>>
         \/ ~full /\ sectors' = Tail(sectors) /\ r_pc' = r_pc
  BY <1>4
<1>10. Passes(drop, take)
  BY <1>5, <1>6, <1>8, <1>9 DEF Passes, recs
<1> QED
  BY <1>10

\* What can be read are samples.
LEMMA VisibleIdsType == ASSUME TypeOK PROVE VisibleIds \in SUBSET Nat
<1> SUFFICES ASSUME NEW x \in VisibleIds PROVE x \in Nat
  OBVIOUS
<1>1. PICK p \in Sectors \X Slots : x = slot[p[1]][p[2]].id
  BY DEF VisibleIds
<1> QED
  BY <1>1 DEF TypeOK, SlotValue

-----------------------------------------------------------------------------
(***************************************************************************)
(* Type correctness.                                                       *)
(***************************************************************************)
\* The reader is well formed before its first request and after each.
LEMMA NoReaderType == NoReader => ReadersTypeOK'
<1> SUFFICES ASSUME NoReader PROVE ReadersTypeOK'
  OBVIOUS
<1>1. <<>> \in Seq(Sectors) /\ <<>> \in Seq(Nat)
  BY EmptySeq
<1> QED
  BY <1>1 DEF NoReader, ReadersTypeOK

\* So it is after every step.
LEMMA ReadersTypeStep ==
  ASSUME TypeOK, ReadersTypeOK, [ReadersNext]_allvars
  PROVE  TypeOK' /\ ReadersTypeOK'
<1>0. TypeOK'
  BY LogOrReader, TypeStep
<1> SUFFICES ReadersTypeOK'
  BY <1>0
<1>1. CASE Writer(Next)
  BY <1>1, NoReaderType DEF Writer, reader, ReadersTypeOK
<1>2. CASE Request
  BY <1>2 DEF Request, ReadersTypeOK
<1>3. CASE List
  <2>1. PICK p, q : ListSectors(p, q) /\ q \in {"counting", "copying"}
    BY <1>3 DEF List, ListToCount, ListToCopy
  <2>2. PICK S \in SUBSET {s \in Sectors : hdr[s] # NoHeader} : sectors' \in SectorLists(S)
    BY <2>1 DEF ListSectors
  <2>3. S \in SUBSET Sectors
    BY <2>2
  <2>4. sectors' \in Seq(Sectors)
    BY <2>2, <2>3, SectorListsAre
  <2>5. r_pc' \in {"counting", "copying"} /\ failed' \in BOOLEAN
    BY <2>1 DEF ListSectors, ReadersTypeOK
  <2>6. /\ kind' = kind /\ emitted' = emitted /\ skip' = skip /\ rows' = rows /\ met' = met
        /\ known' \in {known, VisibleIds} /\ old' \in {old, VisibleIds}
    BY <1>3 DEF List, ListToCount, ListToCopy
  <2> QED
    BY <2>4, <2>5, <2>6, VisibleIdsType DEF ReadersTypeOK
<1>4. CASE CountSector
  <2>1. Tail(sectors) \in Seq(Sectors) /\ Head(sectors) \in Sectors
    BY <1>4, HeadSector DEF CountSector
  <2>2. emitted + Len(SectorRecords(Head(sectors))) \in Nat
    BY <2>1, SectorRecordsAre DEF ReadersTypeOK
  <2>3. emitted' \in Nat /\ failed' \in BOOLEAN
    BY <1>4, <2>2 DEF CountSector, ReadersTypeOK
  <2> QED
    BY <1>4, <2>1, <2>3 DEF CountSector, ReadersTypeOK
<1>5. CASE Counted
  <2>1. ToSkip(emitted) \in Nat /\ ToSkip(0) \in Nat
    BY MaxRowsAssumption DEF ToSkip, ReadersTypeOK
  <2>2. skip' \in Nat /\ failed' \in BOOLEAN
    BY <1>5, <2>1 DEF Counted, ReadersTypeOK
  <2> QED
    BY <1>5, <2>2 DEF Counted, ReadersTypeOK
<1>6. CASE CopySector
  <2>1. PICK d, t : Passes(d, t)
    BY <1>6, CopySectorPasses
  <2> DEFINE recs == SectorRecords(Head(sectors))
  <2>2. Tail(sectors) \in Seq(Sectors) /\ Head(sectors) \in Sectors
    BY <1>6, HeadSector DEF CopySector
  <2>3. /\ recs \in Seq(Nat) /\ Len(recs) \in Nat
        /\ \A i \in 1 .. Len(recs) : recs[i] \in Nat
    BY <2>2, SectorRecordsAre
  <2>4. d \in Nat /\ t \in Int /\ d + t <= Len(recs) /\ skip - d \in Nat
    BY <2>1, <2>3 DEF Passes, ReadersTypeOK
  <2>5. /\ skip' = skip - d /\ met' = met \cup {recs[i] : i \in 1 .. d + t}
        /\ rows' = rows \o SubSeq(recs, d + 1, d + t)
        /\ sectors' \in {Tail(sectors), <<>>} /\ r_pc' \in {r_pc, "done"}
    BY <2>1 DEF Passes
  <2> HIDE DEF recs
  <2>6. SubSeq(recs, d + 1, d + t) \in Seq(Nat)
    <3>1. \A i \in d + 1 .. d + t : recs[i] \in Nat
      BY <2>3, <2>4
    <3>2. d + 1 \in Int /\ d + t \in Int
      BY <2>4
    <3> QED
      BY <3>1, <3>2, SubSeqProperties
  <2>7. {recs[i] : i \in 1 .. d + t} \in SUBSET Nat
    BY <2>3, <2>4
  <2>8. rows' \in Seq(Nat)
    BY <2>5, <2>6, ConcatProperties DEF ReadersTypeOK
  <2>9. sectors' \in Seq(Sectors)
    BY <2>2, <2>5, EmptySeq
  <2> QED
    BY <1>6, <2>4, <2>5, <2>7, <2>8, <2>9 DEF CopySector, ReadersTypeOK
<1>7. CASE SkipUnreadable
  BY <1>7, HeadSector DEF SkipUnreadable, ReadersTypeOK
<1>8. CASE Copied
  BY <1>8 DEF Copied, ReadersTypeOK
<1>9. CASE Answer
  BY <1>9, NoReaderType DEF Answer
<1>10. CASE UNCHANGED allvars
  BY <1>10 DEF allvars, reader, ReadersTypeOK
<1> QED
  BY <1>0, <1>1, <1>2, <1>3, <1>4, <1>5, <1>6, <1>7, <1>8, <1>9, <1>10, LogOrReader DEF Read

\* A request stays well formed: what it lists are sectors, what it passes on are
\* samples, and it never skips a negative number of records.
THEOREM ReadersTypeCorrect == ReadersSpec => []ReadersTypeOK
<1>1. ReadersInit => TypeOK /\ ReadersTypeOK
  <2> SUFFICES ASSUME ReadersInit PROVE TypeOK /\ ReadersTypeOK
    OBVIOUS
  <2>1. <<>> \in Seq(Sectors) /\ <<>> \in Seq(Nat)
    BY EmptySeq
  <2> QED
    BY <2>1, InitType DEF ReadersInit, ReaderInit, ReadersTypeOK
<1>2. TypeOK /\ ReadersTypeOK /\ [ReadersNext]_allvars => TypeOK' /\ ReadersTypeOK'
  BY ReadersTypeStep
<1> QED
  BY <1>1, <1>2, PTL DEF ReadersSpec

-----------------------------------------------------------------------------
(***************************************************************************)
(* The place of a record.  A sample can be read in one place only: of two  *)
(* sectors with the same number one holds nothing, and a sector without a  *)
(* header holds nothing valid.                                             *)
(***************************************************************************)
TwinsTorn ==
  \A s, t \in Sectors :
    s # t /\ hdr[s] # NoHeader /\ hdr[s] = hdr[t] => Torn0(s) \/ Torn0(t)

Headless ==
  \A s \in Sectors, k \in Slots : hdr[s] = NoHeader => ~record_is_valid(slot[s][k])

PlaceInv == LogInv /\ TwinsTorn /\ Headless

\* What a step of the log does to the flash: nothing, a write at the cursor,
\* whole or not, or the renewal of Target.
LEMMA FlashStep ==
  ASSUME OrderInv, "ghost" \notin Tears, [Next]_vars
  PROVE  \/ UNCHANGED flash
         \/ /\ Writing /\ UNCHANGED hdr
            /\ \E v : SetSlot(v) /\ AtCursor(v) /\ Free(OldSlot)
         \/ \E m, h, c : Renews(m, h, c)
<1>1. HalfWrite \/ WriteRecord =>
        /\ Writing /\ UNCHANGED hdr
        /\ \E v \in {Program(OldSlot, NewRecord)} \cup Interrupted(OldSlot, NewRecord) :
             SetSlot(v)
  BY DEF HalfWrite, WriteRecord
<1>2. HalfWrite \/ WriteRecord =>
        /\ Writing /\ UNCHANGED hdr
        /\ \E v : SetSlot(v) /\ AtCursor(v) /\ Free(OldSlot)
  BY <1>1, WrittenAtCursor DEF OrderInv
<1>3. EraseSector \/ WriteHeader \/ HalfErase \/ HalfHeader =>
        UNCHANGED flash \/ \E m, h, c : Renews(m, h, c)
  BY Renewing
<1> QED
  BY <1>2, <1>3
     DEF Next, LogStep, Boot, AddRecord, Flush, FlushDone, AdvanceSector, FlashError,
         PowerLoss, vars, flash

\* Of two sectors with the same number, the one that is written is the last of
\* the ring, and so is one that gets a header.
LEMMA TwinsTornStep ==
  ASSUME OrderInv, TwinsTorn, "ghost" \notin Tears, [Next]_vars
  PROVE  TwinsTorn'
<1>1. CASE UNCHANGED flash
  BY <1>1 DEF flash, TwinsTorn, Torn0
<1>2. CASE \E v : Writing /\ UNCHANGED hdr /\ SetSlot(v) /\ AtCursor(v)
  <2>1. PICK v : Writing /\ UNCHANGED hdr /\ SetSlot(v) /\ AtCursor(v)
    BY <1>2
  <2>2. PICK c : c = s_cur_sector
    OBVIOUS
  <2>3. c \in Sectors /\ IsHead(c, Sectors)'
    BY <2>1, <2>2, WrittenOrder
  <2>4. \A s \in Sectors : s # c => slot'[s] = slot[s]
    BY <2>1, <2>2 DEF SetSlot, OrderInv, NumberingInv, TypeOK
  <2>5. \A t \in Sectors : t # c /\ hdr'[t] = hdr'[c] => Torn0(t)'
    BY <2>3 DEF IsHead
  <2> SUFFICES ASSUME NEW s \in Sectors, NEW t \in Sectors,
                      s # t, hdr'[s] # NoHeader, hdr'[s] = hdr'[t]
               PROVE  Torn0(s)' \/ Torn0(t)'
    BY DEF TwinsTorn
  <2>6. CASE s = c \/ t = c
    BY <2>5, <2>6
  <2>7. CASE s # c /\ t # c
    BY <2>1, <2>4, <2>7 DEF TwinsTorn, Torn0
  <2> QED
    BY <2>6, <2>7
<1>3. CASE \E m, h, c : Renews(m, h, c)
  <2>1. PICK m, h, c : Renews(m, h, c)
    BY <1>3
  <2>2. /\ Closed /\ m = Target /\ m \in Sectors /\ hdr'[m] = h
        /\ \A t \in Others : t \in Sectors /\ hdr'[t] = hdr[t] /\ slot'[t] = slot[t]
        /\ \A t \in Sectors : t = m \/ t \in Others
    BY <2>1, RenewedTarget
  <2>3. \A t \in Others : hdr[t] = h /\ h # NoHeader => Torn0(t)
    BY <2>1, <2>2 DEF Renews, HeaderSeq, OrderInv, ClosedInv
  <2> SUFFICES ASSUME NEW s \in Sectors, NEW t \in Sectors,
                      s # t, hdr'[s] # NoHeader, hdr'[s] = hdr'[t]
               PROVE  Torn0(s)' \/ Torn0(t)'
    BY DEF TwinsTorn
  <2>4. CASE s = m \/ t = m
    BY <2>2, <2>3, <2>4 DEF Torn0
  <2>5. CASE s # m /\ t # m
    BY <2>2, <2>5 DEF TwinsTorn, Torn0
  <2> QED
    BY <2>4, <2>5
<1> QED
  BY <1>1, <1>2, <1>3, FlashStep

\* The sector that is written has a header; one that is erased is blank or holds
\* remains.
LEMMA HeadlessStep ==
  ASSUME OrderInv, Headless, "ghost" \notin Tears, [Next]_vars
  PROVE  Headless'
<1>0. TypeOK
  BY DEF OrderInv, NumberingInv
<1>1. CASE UNCHANGED flash
  BY <1>1 DEF flash, Headless
<1>2. CASE \E v : Writing /\ UNCHANGED hdr /\ SetSlot(v)
  <2>1. s_ready
    BY <1>2 DEF Writing, OrderInv, NumberingInv, LockHolder
  <2>2. hdr[s_cur_sector] # NoHeader
    BY <1>2, <2>1 DEF Writing, OrderInv, NumberingInv, CursorNumbering
  <2>3. \A s \in Sectors : s # s_cur_sector => slot'[s] = slot[s]
    BY <1>0, <1>2 DEF SetSlot, TypeOK
  <2> QED
    BY <1>2, <2>2, <2>3 DEF Headless
<1>3. CASE \E m, h, c : Renews(m, h, c)
  <2>1. PICK m, h, c : Renews(m, h, c)
    BY <1>3
  <2>2. m \in Sectors /\ c \in {BlankSlots, GarbageSlots}
    BY <1>0, <2>1 DEF Renews, TypeOK
  <2>3. \A s \in Sectors : /\ hdr'[s] = IF s = m THEN h ELSE hdr[s]
                           /\ slot'[s] = IF s = m THEN c ELSE slot[s]
    BY <1>0, <2>1, <2>2 DEF Renews, TypeOK
  <2>4. \A k \in Slots : ~record_is_valid(c[k])
    BY <2>2 DEF BlankSlots, GarbageSlots, Empty, Garbage, record_is_valid
  <2> QED
    BY <2>3, <2>4 DEF Headless
<1> QED
  BY <1>1, <1>2, <1>3, FlashStep

\* A new partition has no headers, and holds nothing or remains.
LEMMA PlaceInit == Init => TwinsTorn /\ Headless
<1> SUFFICES ASSUME Init PROVE TwinsTorn /\ Headless
  OBVIOUS
<1>1. TwinsTorn
  BY DEF Init, TwinsTorn
<1>2. PICK c \in {BlankSlots, GarbageSlots} : slot = [s \in Sectors |-> c]
  BY DEF Init
<1>3. \A k \in Slots : ~record_is_valid(c[k])
  BY DEF BlankSlots, GarbageSlots, Empty, Garbage, record_is_valid
<1>4. Headless
  BY <1>2, <1>3 DEF Headless
<1> QED
  BY <1>1, <1>4

\* PlaceInv is inductive.
LEMMA PlaceStep ==
  ASSUME PlaceInv, "ghost" \notin Tears, ReadsFail = FALSE, [Next]_vars
  PROVE  PlaceInv'
BY LogInvStep, TwinsTornStep, HeadlessStep DEF PlaceInv, LogInv

\* A record that a reader comes to before another one was sampled before it.
LEMMA StoredInOrder ==
  ASSUME PlaceInv, NEW s \in Sectors, NEW t \in Sectors, NEW j \in Slots, NEW k \in Slots,
         Stored(s, j), Stored(t, k), (s # t /\ hdr[s] <= hdr[t]) \/ (s = t /\ j < k)
  PROVE  slot[s][j].id < slot[t][k].id
<1>1. /\ slot[s][j].seq = hdr[s] + j /\ slot[t][k].seq = hdr[t] + k
      /\ hdr[s] \in Nat /\ hdr[t] \in Nat /\ j \in Nat /\ k \in Nat
      /\ hdr[s] # NoHeader /\ TailInv
  BY SlotsAssumption
     DEF PlaceInv, LogInv, OrderInv, NumberingInv, RecordNumbering, Stored, TypeOK, Slots
<1>2. s # t => hdr[s] # hdr[t]
  BY <1>1, StoredNotTorn DEF PlaceInv, TwinsTorn
<1>3. hdr[s] < hdr[t] => hdr[s] + j < hdr[t]
  BY DEF PlaceInv, LogInv, OrderInv, RangesApart
<1>4. slot[s][j].seq < slot[t][k].seq
  BY <1>1, <1>2, <1>3
<1> QED
  BY <1>4 DEF PlaceInv, LogInv, IdOrder

\* What a reader finds in a sector is stored there, also in one that was erased
\* since it was listed.
LEMMA SectorRecordsStored ==
  ASSUME PlaceInv, NEW s \in Sectors, NEW i \in 1 .. Len(SectorRecords(s))
  PROVE  /\ i - 1 \in Slots /\ Stored(s, i - 1)
         /\ SectorRecords(s)[i] = slot[s][i - 1].id
<1>0. TypeOK
  BY DEF PlaceInv, LogInv, OrderInv, NumberingInv
<1>1. /\ i - 1 \in Slots /\ Reached(s, i - 1)
      /\ SectorRecords(s)[i] = slot[s][i - 1].id
  BY <1>0, SectorRecordsAre
<1>2. i - 1 \in 0 .. i - 1
  BY <1>1 DEF Slots
<1>3. record_is_valid(slot[s][i - 1])
  BY <1>1, <1>2 DEF Reached
<1> QED
  BY <1>1, <1>3 DEF Stored, PlaceInv, Headless

-----------------------------------------------------------------------------
(***************************************************************************)
(* Order.  The records a reader looks for are those that could be read     *)
(* when it listed the sectors.  While it reads, records are written and    *)
(* sectors erased, but no such record turns up at another place: the one   *)
(* that is written next is none of them, unless it is there already, left  *)
(* by a write that failed with its whole effect done (IsPast).  So the     *)
(* sectors that are left to read hold the records of old that are newer    *)
(* than those read before, in the order of the list.                       *)
(***************************************************************************)
\* Of the samples of X, none is still to be written to another place.
IsPast(X) ==
  \A x \in X :
    \/ x \in Nat /\ x < NextSample
    \/ /\ Open /\ Stored(s_cur_sector, s_cur_slot)
       /\ x = slot[s_cur_sector][s_cur_slot].id

\* What can be read has been written.
LEMMA VisiblePast == ASSUME LogInv PROVE IsPast(VisibleIds)
<1> SUFFICES ASSUME NEW x \in VisibleIds
             PROVE  \/ x \in Nat /\ x < NextSample
                    \/ /\ Open /\ Stored(s_cur_sector, s_cur_slot)
                       /\ x = slot[s_cur_sector][s_cur_slot].id
  BY DEF IsPast
<1>1. PICK s \in Sectors, k \in Slots : Stored(s, k) /\ slot[s][k].id = x
  BY VisibleIdsAre DEF VisibleAreStored, StoredId, LogInv, OrderInv
<1>2. x \in Nat
  BY <1>1, StoredSampled
<1> QED
  BY <1>1, <1>2 DEF LogInv, IdInv

\* The record at the cursor, if there is one, is the one that is written next.
LEMMA CursorRecord ==
  ASSUME LogInv, Open, Stored(s_cur_sector, s_cur_slot)
  PROVE  /\ s_cur_sector \in Sectors /\ s_cur_slot \in Slots
         /\ slot[s_cur_sector][s_cur_slot].id = NextSample
<1>1. s_cur_sector \in Sectors /\ s_cur_slot \in Slots
  BY SlotsAssumption DEF Open, LogInv, OrderInv, NumberingInv, TypeOK, Slots
<1>2. Free(slot[s_cur_sector][s_cur_slot])
  BY <1>1 DEF Open, LogInv, OrderInv, TailInv, CursorTail
<1> QED
  BY <1>1, <1>2 DEF Free, Stored, record_is_valid, NextSample

\* It is that as long as the device runs.
LEMMA PastStep ==
  ASSUME LogInv, "ghost" \notin Tears, ReadsFail = FALSE, [Next]_vars,
         pc' # "boot", s_ready, NEW X, IsPast(X)
  PROVE  IsPast(X)'
<1>0. /\ TypeOK /\ LockHolder /\ SampleInv
      /\ NextSample <= NextSample' /\ NextSample \in Nat /\ NextSample' \in Nat
  BY SampleStep, NextSampleIs, NextSampleType, TypeStep
     DEF LogInv, OrderInv, NumberingInv
<1> SUFFICES ASSUME NEW x \in X
             PROVE  \/ x \in Nat /\ x < NextSample'
                    \/ /\ Open' /\ Stored(s_cur_sector, s_cur_slot)'
                       /\ x = slot'[s_cur_sector'][s_cur_slot'].id
  BY DEF IsPast
<1>1. CASE x \in Nat /\ x < NextSample
  BY <1>0, <1>1
<1>2. CASE /\ Open /\ Stored(s_cur_sector, s_cur_slot)
           /\ x = slot[s_cur_sector][s_cur_slot].id
  <2>1. /\ s_cur_sector \in Sectors /\ s_cur_slot \in Slots /\ x = NextSample
    BY <1>2, CursorRecord
  <2>2. pc \notin {"erase", "header", "boot"}
    BY <1>0, <1>2, SlotsAssumption DEF Open, LockHolder, TypeOK
  <2>3. UNCHANGED cursor \/ WriteRecord
    BY <2>2 DEF Next, LogStep, Boot, EraseSector, WriteHeader, AddRecord, Flush, FlushDone,
                AdvanceSector, FlashError, PowerLoss, Reset, vars
  <2>4. CASE WriteRecord
    BY <1>0, <2>1, <2>4, WrittenSample
  <2>5. CASE UNCHANGED cursor
    <3>1. /\ Stored(s_cur_sector, s_cur_slot)'
          /\ slot'[s_cur_sector][s_cur_slot].id = x
      <4>1. PICK s \in Sectors, k \in Slots : s = s_cur_sector /\ k = s_cur_slot
        BY <2>1
      <4>2. Stored(s, k)' /\ slot'[s][k].id = slot[s][k].id
        BY <1>2, <2>2, <4>1, StoredKept
      <4>3. s_cur_sector' = s /\ s_cur_slot' = k
        BY <2>5, <4>1 DEF cursor
      <4> QED
        BY <1>2, <4>1, <4>2, <4>3 DEF Stored
    <3>2. Open'
      BY <1>2, <2>5 DEF Open, cursor
    <3> QED
      BY <2>5, <3>1, <3>2 DEF cursor
  <2> QED
    BY <2>3, <2>4, <2>5
<1> QED
  BY <1>1, <1>2 DEF IsPast

\* A sample of the past that is stored after a step was stored there before.
LEMMA PastPlaces ==
  ASSUME LogInv, "ghost" \notin Tears, [Next]_vars,
         NEW X, IsPast(X), NEW s \in Sectors, NEW k \in Slots,
         Stored(s, k)', slot'[s][k].id \in X
  PROVE  Stored(s, k) /\ slot[s][k].id = slot'[s][k].id
<1>0. OrderInv /\ TailInv /\ TypeOK
  BY DEF LogInv, OrderInv, NumberingInv
<1>1. CASE UNCHANGED flash \/ \E m, h, c : Renews(m, h, c)
  BY <1>0, <1>1, RenewedKeeps DEF KeepsRecords
<1>2. CASE /\ Writing /\ UNCHANGED hdr
           /\ \E v : SetSlot(v) /\ AtCursor(v) /\ Free(OldSlot)
  <2>1. PICK v : SetSlot(v) /\ AtCursor(v) /\ Free(OldSlot)
    BY <1>2
  <2>2. \A t \in Sectors, j \in Slots :
          slot'[t][j] = IF t = s_cur_sector /\ j = s_cur_slot THEN v ELSE slot[t][j]
    BY <1>0, <1>2, <2>1, SetSlotTail
  <2>3. CASE ~(s = s_cur_sector /\ k = s_cur_slot)
    BY <1>2, <2>2, <2>3 DEF Stored
  <2>4. CASE s = s_cur_sector /\ k = s_cur_slot
    <3>1. /\ NextSample = s_ram_buf[flush_i + 1] /\ NextSample \in Nat
          /\ OldSlot = slot[s][k] /\ hdr[s] = hdr'[s]
      BY <1>2, <2>4, NextSampleIs DEF Writing, LogInv, OrderInv, NumberingInv, OldSlot
    <3>2. v.id = NextSample \/ v = OldSlot
      BY <3>1, <2>1 DEF AtCursor, NewRecord
    <3>3. CASE v = OldSlot
      BY <2>2, <2>4, <3>1, <3>3 DEF Stored
    <3>4. CASE v.id = NextSample
      <4>1. Stored(s, k) /\ NextSample = slot[s][k].id
        BY <2>2, <2>4, <3>1, <3>4 DEF IsPast
      <4> QED
        BY <2>2, <2>4, <3>4, <4>1
    <3> QED
      BY <3>2, <3>3, <3>4
  <2> QED
    BY <2>3, <2>4
<1> QED
  BY <1>0, <1>1, <1>2, FlashStep

\* Of the records of old, those in the sectors that are left come in order, and
\* behind those that were passed on.
ListInOrder ==
  \A i, j \in 1 .. Len(sectors), k, l \in Slots :
    /\ i < j
    /\ Stored(sectors[i], k) /\ slot[sectors[i]][k].id \in old
    /\ Stored(sectors[j], l) /\ slot[sectors[j]][l].id \in old
    => slot[sectors[i]][k].id < slot[sectors[j]][l].id

RowsBeforeList ==
  \A n \in 1 .. Len(rows), i \in 1 .. Len(sectors), k \in Slots :
    /\ rows[n] \in old
    /\ Stored(sectors[i], k) /\ slot[sectors[i]][k].id \in old
    => rows[n] < slot[sectors[i]][k].id

\* A request is served only while the log is ready, and passes nothing on before
\* it lists the sectors for the second time.
Waiting ==
  /\ r_pc # "none" => s_ready
  /\ r_pc \in {"none", "count", "counting", "copy"} =>
       rows = <<>> /\ old = {} /\ met = {}

ReadInv ==
  /\ PlaceInv /\ ReadersTypeOK /\ Waiting
  /\ IsPast(old) /\ ListInOrder /\ RowsBeforeList /\ OldRowsInOrder

\* A reader that looks for nothing has nothing in the wrong order.
LEMMA NothingPassed == old = {} => IsPast(old) /\ ListInOrder /\ RowsBeforeList /\ OldRowsInOrder
BY DEF IsPast, ListInOrder, RowsBeforeList, OldRowsInOrder

\* The same after a step.
LEMMA NothingPassedNext ==
  /\ old' = {} => IsPast(old)' /\ ListInOrder' /\ RowsBeforeList' /\ OldRowsInOrder'
  /\ NoReader => old' = {} /\ Waiting'
<1>1. NoReader => old' = {} /\ Waiting'
  BY DEF NoReader, Waiting
<1>2. old' = {} => IsPast(old)' /\ ListInOrder' /\ RowsBeforeList' /\ OldRowsInOrder'
  BY DEF IsPast, ListInOrder, RowsBeforeList, OldRowsInOrder
<1> QED
  BY <1>1, <1>2

\* A step of the log changes nothing for the records of old.
LEMMA ReadInvWriter ==
  ASSUME ReadInv, "ghost" \notin Tears, ReadsFail = FALSE, Writer(Next)
  PROVE  Waiting' /\ IsPast(old)' /\ ListInOrder' /\ RowsBeforeList' /\ OldRowsInOrder'
<1>0. LogInv /\ TypeOK /\ LockHolder /\ [Next]_vars
  BY DEF ReadInv, PlaceInv, LogInv, OrderInv, NumberingInv, Writer
<1>1. CASE pc' = "boot"
  <2>1. NoReader
    BY <1>1 DEF Writer
  <2> QED
    BY <2>1, NothingPassedNext
<1>2. CASE pc' # "boot"
  <2>1. UNCHANGED reader
    BY <1>2 DEF Writer
  <2>2. /\ r_pc' = r_pc /\ sectors' = sectors /\ rows' = rows /\ old' = old /\ met' = met
    BY <2>1 DEF reader
  <2>3. s_ready => s_ready'
    BY <1>0, <1>2 DEF Next, LogStep, Boot, BootFormat, BootResume, EraseSector, WriteHeader,
                AddRecord, Flush, FlushDone, AdvanceSector, WriteRecord, FlashError,
                PowerLoss, Reset, LockHolder, vars, cursor
  <2>4. Waiting'
    BY <2>2, <2>3 DEF ReadInv, Waiting
  <2>5. CASE ~s_ready
    <3>1. old = {}
      BY <2>5 DEF ReadInv, Waiting
    <3> QED
      BY <2>2, <2>4, <3>1, NothingPassedNext
  <2>6. CASE s_ready
    <3>1. IsPast(old)'
      <4>1. PICK X : X = old
        OBVIOUS
      <4>2. IsPast(X)'
        BY <1>0, <1>2, <2>6, <4>1, PastStep DEF ReadInv
      <4> QED
        BY <2>2, <4>1, <4>2 DEF IsPast
    <3>2. \A s \in Sectors, k \in Slots : Stored(s, k)' /\ slot'[s][k].id \in old =>
            Stored(s, k) /\ slot[s][k].id = slot'[s][k].id
      BY <1>0, PastPlaces DEF ReadInv
    <3>3. \A i \in 1 .. Len(sectors) : sectors[i] \in Sectors
      BY DEF ReadInv, ReadersTypeOK
    <3>4. ListInOrder'
      <4> SUFFICES ASSUME NEW i \in 1 .. Len(sectors), NEW j \in 1 .. Len(sectors),
                          NEW k \in Slots, NEW l \in Slots, i < j,
                          Stored(sectors[i], k)', slot'[sectors[i]][k].id \in old,
                          Stored(sectors[j], l)', slot'[sectors[j]][l].id \in old
                   PROVE  slot'[sectors[i]][k].id < slot'[sectors[j]][l].id
        BY <2>2 DEF ListInOrder, Stored
      <4>1. /\ Stored(sectors[i], k) /\ slot[sectors[i]][k].id = slot'[sectors[i]][k].id
            /\ Stored(sectors[j], l) /\ slot[sectors[j]][l].id = slot'[sectors[j]][l].id
        BY <2>2, <3>2, <3>3 DEF Stored
      <4> QED
        BY <4>1 DEF ReadInv, ListInOrder
    <3>5. RowsBeforeList'
      <4> SUFFICES ASSUME NEW n \in 1 .. Len(rows), NEW i \in 1 .. Len(sectors),
                          NEW k \in Slots, rows[n] \in old,
                          Stored(sectors[i], k)', slot'[sectors[i]][k].id \in old
                   PROVE  rows[n] < slot'[sectors[i]][k].id
        BY <2>2 DEF RowsBeforeList, Stored
      <4>1. Stored(sectors[i], k) /\ slot[sectors[i]][k].id = slot'[sectors[i]][k].id
        BY <2>2, <3>2, <3>3 DEF Stored
      <4> QED
        BY <4>1 DEF ReadInv, RowsBeforeList
    <3>6. OldRowsInOrder'
      BY <2>2 DEF ReadInv, OldRowsInOrder
    <3> QED
      BY <2>4, <3>1, <3>4, <3>5, <3>6
  <2> QED
    BY <2>5, <2>6
<1> QED
  BY <1>1, <1>2

\* The second list of sectors is in the order of the records they hold.
LEMMA ReadInvList ==
  ASSUME ReadInv, ListToCopy, UNCHANGED vars
  PROVE  Waiting' /\ IsPast(old)' /\ ListInOrder' /\ RowsBeforeList' /\ OldRowsInOrder'
<1>0. LogInv /\ PlaceInv
  BY DEF ReadInv, PlaceInv
<1>1. /\ r_pc = "copy" /\ r_pc' = "copying" /\ rows' = rows /\ old' = VisibleIds
      /\ rows = <<>>
  BY DEF ListToCopy, ListSectors, ReadInv, Waiting
<1>2. PICK S \in SUBSET {s \in Sectors : hdr[s] # NoHeader} : sectors' \in SectorLists(S)
  BY DEF ListToCopy, ListSectors
<1>3. PICK q \in SectorLists(S) : q = sectors'
  BY <1>2
<1>4. /\ Len(q) \in Nat
      /\ \A i \in 1 .. Len(q) : q[i] \in Sectors
      /\ \A i, j \in 1 .. Len(q) : q[i] = q[j] => i = j
      /\ \A i, j \in 1 .. Len(q) : i < j => hdr[q[i]] <= hdr[q[j]]
  BY <1>2, SectorListsAre
<1>5. hdr' = hdr /\ slot' = slot /\ s_ready' = s_ready
  BY DEF vars, flash, cursor
<1>6. Waiting'
  BY <1>1, <1>5 DEF Waiting, ReadInv
<1>7. IsPast(old)'
  <2>1. PICK X : X = VisibleIds
    OBVIOUS
  <2>2. IsPast(X)
    BY <1>0, <2>1, VisiblePast
  <2>3. IsPast(X)'
    BY <1>5, <2>2 DEF IsPast, Open, Stored, NextSample, vars, cursor, buffer
  <2> QED
    BY <1>1, <2>1, <2>3 DEF IsPast
<1>8. ListInOrder'
  <2> SUFFICES ASSUME NEW i \in 1 .. Len(q), NEW j \in 1 .. Len(q),
                      NEW k \in Slots, NEW l \in Slots, i < j,
                      Stored(q[i], k), Stored(q[j], l)
               PROVE  slot[q[i]][k].id < slot[q[j]][l].id
    BY <1>3, <1>5 DEF ListInOrder, Stored
  <2> QED
    BY <1>0, <1>4, StoredInOrder
<1>9. RowsBeforeList' /\ OldRowsInOrder'
  BY <1>1 DEF RowsBeforeList, OldRowsInOrder
<1> QED
  BY <1>6, <1>7, <1>8, <1>9

\* What is passed on, is in front of or comes from the sector.
LEMMA PassedRows ==
  ASSUME TypeOK, ReadersTypeOK, sectors # <<>>, NEW d, NEW t, Passes(d, t),
         NEW recs, recs = SectorRecords(Head(sectors))
  PROVE  /\ Len(rows) \in Nat /\ Len(rows') \in Nat /\ d \in Nat
         /\ Len(rows') = Len(rows) + (IF t > 0 THEN t ELSE 0)
         /\ \A n \in 1 .. Len(rows') :
              \/ n <= Len(rows) /\ rows'[n] = rows[n]
              \/ /\ n > Len(rows) /\ rows'[n] = recs[d + n - Len(rows)]
                 /\ d + n - Len(rows) \in 1 .. Len(recs)
<1>1. /\ rows \in Seq(Nat) /\ Len(rows) \in Nat
      /\ recs \in Seq(Nat) /\ Len(recs) \in Nat
      /\ \A i \in 1 .. Len(recs) : recs[i] \in Nat
  BY HeadSector, SectorRecordsAre DEF ReadersTypeOK
<1>2. /\ d \in Nat /\ t \in Int /\ d + t <= Len(recs)
      /\ rows' = rows \o SubSeq(recs, d + 1, d + t)
  BY <1>1 DEF Passes
<1> DEFINE part == SubSeq(recs, d + 1, d + t)
<1>3. /\ part \in Seq(Nat)
      /\ Len(part) = IF t > 0 THEN t ELSE 0
      /\ \A i \in 1 .. Len(part) : part[i] = recs[d + i]
  <2>1. \A i \in d + 1 .. d + t : recs[i] \in Nat
    BY <1>1, <1>2
  <2>2. d + 1 \in Int /\ d + t \in Int
    BY <1>2
  <2>3. /\ part \in Seq(Nat)
        /\ Len(part) = IF d + 1 <= d + t THEN (d + t) - (d + 1) + 1 ELSE 0
        /\ \A i \in 1 .. (d + t) - (d + 1) + 1 : part[i] = recs[(d + 1) + i - 1]
    BY <2>1, <2>2, SubSeqProperties
  <2> QED
    BY <1>2, <2>3
<1> HIDE DEF part
<1>4. /\ rows' = rows \o part /\ Len(rows') = Len(rows) + Len(part)
      /\ Len(part) \in Nat
      /\ \A n \in 1 .. Len(rows) + Len(part) :
           (rows \o part)[n] = IF n <= Len(rows) THEN rows[n] ELSE part[n - Len(rows)]
  BY <1>1, <1>2, <1>3, ConcatProperties DEF part
<1>5. ASSUME NEW n \in 1 .. Len(rows')
      PROVE  \/ n <= Len(rows) /\ rows'[n] = rows[n]
             \/ /\ n > Len(rows) /\ rows'[n] = recs[d + n - Len(rows)]
                /\ d + n - Len(rows) \in 1 .. Len(recs)
  <2>1. CASE n <= Len(rows)
    BY <1>4, <2>1
  <2>2. CASE n > Len(rows)
    <3>1. n - Len(rows) \in 1 .. Len(part)
      BY <1>1, <1>4, <2>2
    <3>2. rows'[n] = recs[d + (n - Len(rows))]
      BY <1>1, <1>3, <1>4, <2>2, <3>1
    <3>3. d + (n - Len(rows)) = d + n - Len(rows)
      BY <1>1, <1>2
    <3>4. Len(part) > 0 => Len(part) = t
      BY <1>3
    <3>5. d + n - Len(rows) \in 1 .. Len(recs)
      <4>1. PICK k \in 1 .. Len(part) : k = n - Len(rows)
        BY <3>1
      <4>2. k \in Nat /\ 1 <= k /\ k <= t
        BY <3>4, <4>1, SMT
      <4>3. d + k \in 1 .. Len(recs)
        <5>1. /\ Len(recs) \in Nat /\ d \in Nat /\ t \in Int /\ d + t <= Len(recs)
          BY <1>1, <1>2
        <5> QED
          BY <4>2, <5>1
      <4> QED
        BY <3>3, <4>1, <4>3
    <3> QED
      BY <2>2, <3>2, <3>3, <3>5
  <2> QED
    BY <1>1, <2>1, <2>2
<1>6. Len(rows') = Len(rows) + (IF t > 0 THEN t ELSE 0)
  BY <1>3, <1>4
<1>7. Len(rows') \in Nat
  BY <1>1, <1>4
<1> QED
  BY <1>1, <1>2, <1>5, <1>6, <1>7

\* Passing on a sector keeps to the order of the list and of its slots.
LEMMA ReadInvCopy ==
  ASSUME ReadInv, CopySector, UNCHANGED vars
  PROVE  Waiting' /\ IsPast(old)' /\ ListInOrder' /\ RowsBeforeList' /\ OldRowsInOrder'
<1>0. /\ PlaceInv /\ ReadersTypeOK /\ TypeOK /\ sectors # <<>>
      /\ r_pc = "copying" /\ old' = old
      /\ hdr' = hdr /\ slot' = slot /\ s_ready' = s_ready
  BY DEF CopySector, ReadInv, PlaceInv, LogInv, OrderInv, NumberingInv, vars, flash, cursor
<1>1. PICK d, t : Passes(d, t)
  BY <1>0, CopySectorPasses
<1>2. PICK s : s = Head(sectors)
  OBVIOUS
<1>3. PICK recs : recs = SectorRecords(s)
  OBVIOUS
<1>4. /\ s \in Sectors /\ s = sectors[1] /\ Len(sectors) \in Nat /\ 1 \in 1 .. Len(sectors)
      /\ Len(Tail(sectors)) = Len(sectors) - 1
      /\ \A i \in 1 .. Len(Tail(sectors)) :
           i + 1 \in 1 .. Len(sectors) /\ Tail(sectors)[i] = sectors[i + 1]
  BY <1>0, <1>2, HeadSector
<1>5. /\ Len(rows) \in Nat /\ Len(rows') \in Nat /\ d \in Nat
      /\ \A n \in 1 .. Len(rows') :
           \/ n <= Len(rows) /\ rows'[n] = rows[n]
           \/ /\ n > Len(rows) /\ rows'[n] = recs[d + n - Len(rows)]
              /\ d + n - Len(rows) \in 1 .. Len(recs)
  BY <1>0, <1>1, <1>2, <1>3, PassedRows
<1>6. \A i \in 1 .. Len(recs) :
        i - 1 \in Slots /\ Stored(s, i - 1) /\ recs[i] = slot[s][i - 1].id
  BY <1>0, <1>3, <1>4, SectorRecordsStored
<1>7. /\ \A i \in 1 .. Len(sectors') : /\ i + 1 \in 1 .. Len(sectors)
                                        /\ sectors'[i] = sectors[i + 1]
      /\ Len(sectors') \in Nat
  <2>1. sectors' = Tail(sectors) \/ sectors' = <<>>
    BY <1>1 DEF Passes
  <2> QED
    BY <1>4, <2>1
<1>8. Waiting'
  <2>1. r_pc' \in {"copying", "done"}
    BY <1>0, <1>1 DEF Passes
  <2> QED
    BY <1>0, <2>1 DEF Waiting, ReadInv
<1>9. IsPast(old)'
  BY <1>0 DEF ReadInv, IsPast, Open, Stored, NextSample, vars, cursor, buffer
<1>10. ListInOrder'
  <2> SUFFICES ASSUME NEW i \in 1 .. Len(sectors'), NEW j \in 1 .. Len(sectors'),
                      NEW k \in Slots, NEW l \in Slots, i < j,
                      Stored(sectors'[i], k), slot[sectors'[i]][k].id \in old,
                      Stored(sectors'[j], l), slot[sectors'[j]][l].id \in old
               PROVE  slot[sectors'[i]][k].id < slot[sectors'[j]][l].id
    BY <1>0 DEF ListInOrder, Stored
  <2>1. i + 1 < j + 1 /\ i + 1 \in 1 .. Len(sectors) /\ j + 1 \in 1 .. Len(sectors)
    BY <1>7
  <2>2. sectors'[i] = sectors[i + 1] /\ sectors'[j] = sectors[j + 1]
    BY <1>7
  <2> QED
    BY <2>1, <2>2 DEF ReadInv, ListInOrder
<1>11. RowsBeforeList'
  <2> SUFFICES ASSUME NEW n \in 1 .. Len(rows'), NEW i \in 1 .. Len(sectors'),
                      NEW k \in Slots, rows'[n] \in old,
                      Stored(sectors'[i], k), slot[sectors'[i]][k].id \in old
               PROVE  rows'[n] < slot[sectors'[i]][k].id
    BY <1>0 DEF RowsBeforeList, Stored
  <2>1. i + 1 \in 1 .. Len(sectors) /\ sectors'[i] = sectors[i + 1] /\ 1 < i + 1
    BY <1>7
  <2>2. CASE n <= Len(rows) /\ rows'[n] = rows[n]
    <3>1. n \in 1 .. Len(rows)
      BY <1>5, <2>2
    <3> QED
      BY <2>1, <2>2, <3>1 DEF ReadInv, RowsBeforeList
  <2>3. CASE /\ n > Len(rows) /\ rows'[n] = recs[d + n - Len(rows)]
             /\ d + n - Len(rows) \in 1 .. Len(recs)
    <3>1. PICK j \in 1 .. Len(recs) : j = d + n - Len(rows)
      BY <2>3
    <3>2. j - 1 \in Slots /\ Stored(s, j - 1) /\ rows'[n] = slot[s][j - 1].id
      BY <1>6, <2>3, <3>1
    <3> QED
      BY <1>4, <2>1, <3>2 DEF ReadInv, ListInOrder
  <2> QED
    BY <1>5, <2>2, <2>3
<1>12. OldRowsInOrder'
  <2> SUFFICES ASSUME NEW m \in 1 .. Len(rows'), NEW n \in 1 .. Len(rows'),
                      m < n, rows'[m] \in old, rows'[n] \in old
               PROVE  rows'[m] < rows'[n]
    BY <1>0 DEF OldRowsInOrder
  <2>1. CASE n <= Len(rows)
    <3>1. m \in 1 .. Len(rows) /\ n \in 1 .. Len(rows)
      BY <1>5, <2>1
    <3>2. rows'[m] = rows[m] /\ rows'[n] = rows[n]
      BY <1>5, <2>1, <3>1
    <3>3. rows[m] \in old /\ rows[n] \in old
      BY <1>0, <3>2
    <3>4. rows[m] < rows[n]
      BY <3>1, <3>3 DEF ReadInv, OldRowsInOrder
    <3> QED
      BY <3>2, <3>4
  <2>2. CASE n > Len(rows)
    <3>0. ~(n <= Len(rows))
      BY <1>5, <2>2
    <3>1. PICK j \in 1 .. Len(recs) : j = d + n - Len(rows) /\ rows'[n] = recs[j]
      <4>1. /\ rows'[n] = recs[d + n - Len(rows)]
            /\ d + n - Len(rows) \in 1 .. Len(recs)
        BY <1>5, <3>0, Zenon
      <4> QED
        BY <4>1, Zenon
    <3>2. j - 1 \in Slots /\ Stored(s, j - 1) /\ rows'[n] = slot[s][j - 1].id
      BY <1>6, <3>1
    <3>3. CASE m <= Len(rows)
      <4>1. m \in 1 .. Len(rows) /\ rows'[m] = rows[m]
        BY <1>5, <3>3
      <4> QED
        BY <1>4, <3>2, <4>1 DEF ReadInv, RowsBeforeList
    <3>4. CASE m > Len(rows)
      <4>1. PICK i \in 1 .. Len(recs) : i = d + m - Len(rows) /\ rows'[m] = recs[i]
        BY <1>5, <3>4
      <4>2. i - 1 \in Slots /\ Stored(s, i - 1) /\ rows'[m] = slot[s][i - 1].id
        BY <1>6, <4>1
      <4>3. i - 1 < j - 1
        BY <1>5, <3>1, <4>1
      <4> QED
        BY <1>0, <1>4, <3>2, <4>2, <4>3, StoredInOrder
    <3> QED
      BY <1>5, <3>3, <3>4
  <2> QED
    BY <1>5, <2>1, <2>2
<1> QED
  BY <1>8, <1>9, <1>10, <1>11, <1>12

\* The other steps of a reader pass nothing on and list nothing for that.
LEMMA ReadInvRest ==
  ASSUME ReadInv, UNCHANGED vars, [ReadersNext]_allvars,
         ~ListToCopy, ~CopySector, ~Writer(Next)
  PROVE  Waiting' /\ IsPast(old)' /\ ListInOrder' /\ RowsBeforeList' /\ OldRowsInOrder'
<1>0. hdr' = hdr /\ slot' = slot /\ s_ready' = s_ready
  BY DEF vars, flash, cursor
<1>1. CASE Request \/ ListToCount \/ CountSector \/ Counted
  <2>1. /\ rows' = rows /\ old' = old /\ met' = met
        /\ r_pc \in {"none", "count", "counting"} /\ (r_pc = "none" => s_ready)
        /\ r_pc' \in {"count", "counting", "copy"}
    BY <1>1 DEF Request, ListToCount, ListSectors, CountSector, Counted
  <2>2. old' = {} /\ Waiting'
    BY <1>0, <2>1 DEF ReadInv, Waiting
  <2> QED
    BY <2>2, NothingPassedNext
<1>2. CASE Answer
  BY <1>2, NothingPassedNext DEF Answer
<1>3. CASE SkipUnreadable \/ Copied \/ UNCHANGED allvars
  <2>1. /\ rows' = rows /\ old' = old /\ met' = met
        /\ r_pc' = r_pc \/ (r_pc # "none" /\ r_pc' = "done")
    BY <1>3 DEF SkipUnreadable, Copied, allvars, reader
  <2>2. Waiting' /\ OldRowsInOrder'
    BY <1>0, <2>1 DEF ReadInv, Waiting, OldRowsInOrder
  <2>3. IsPast(old)'
    BY <1>0, <2>1 DEF ReadInv, IsPast, Open, Stored, NextSample, vars, cursor, buffer
  <2>4. CASE sectors' = sectors
    BY <1>0, <2>1, <2>2, <2>3, <2>4 DEF ReadInv, ListInOrder, RowsBeforeList, Stored
  <2>5. CASE sectors # <<>> /\ sectors' = Tail(sectors)
    <3>1. /\ Len(sectors) \in Nat /\ Len(sectors') = Len(sectors) - 1
          /\ \A i \in 1 .. Len(sectors') :
               i + 1 \in 1 .. Len(sectors) /\ sectors'[i] = sectors[i + 1]
      BY <2>5, HeadSector DEF ReadInv
    <3>2. RowsBeforeList'
      BY <1>0, <2>1, <3>1 DEF ReadInv, RowsBeforeList, Stored
    <3>3. ListInOrder'
      <4> SUFFICES ASSUME NEW i \in 1 .. Len(sectors'), NEW j \in 1 .. Len(sectors'),
                          NEW k \in Slots, NEW l \in Slots, i < j,
                          Stored(sectors'[i], k), slot[sectors'[i]][k].id \in old,
                          Stored(sectors'[j], l), slot[sectors'[j]][l].id \in old
                   PROVE  slot[sectors'[i]][k].id < slot[sectors'[j]][l].id
        BY <1>0, <2>1 DEF ListInOrder, Stored
      <4>1. i + 1 < j + 1 /\ i + 1 \in 1 .. Len(sectors) /\ j + 1 \in 1 .. Len(sectors)
        BY <3>1
      <4>2. sectors'[i] = sectors[i + 1] /\ sectors'[j] = sectors[j + 1]
        BY <3>1
      <4> QED
        BY <4>1, <4>2 DEF ReadInv, ListInOrder
    <3> QED
      BY <2>2, <2>3, <3>2, <3>3
  <2> QED
    BY <1>3, <2>4, <2>5 DEF SkipUnreadable, Copied, allvars, reader
<1> QED
  BY <1>1, <1>2, <1>3 DEF ReadersNext, List, Read

\* ReadInv is inductive.
LEMMA ReadInvStep ==
  ASSUME ReadInv, "ghost" \notin Tears, ReadsFail = FALSE, [ReadersNext]_allvars
  PROVE  ReadInv'
<1>1. [Next]_vars /\ (Writer(Next) \/ UNCHANGED vars)
  BY LogOrReader DEF allvars
<1>2. PlaceInv' /\ ReadersTypeOK'
  BY <1>1, PlaceStep, ReadersTypeStep DEF ReadInv, PlaceInv, LogInv, OrderInv, NumberingInv
<1>3. Waiting' /\ IsPast(old)' /\ ListInOrder' /\ RowsBeforeList' /\ OldRowsInOrder'
  BY <1>1, ReadInvWriter, ReadInvList, ReadInvCopy, ReadInvRest
<1> QED
  BY <1>2, <1>3 DEF ReadInv

\* ReadInv holds in every reachable state.
LEMMA ReadInvariant ==
  ASSUME "ghost" \notin Tears, ReadsFail = FALSE PROVE ReadersSpec => []ReadInv
<1>1. ReadersInit => ReadersTypeOK /\ TwinsTorn /\ Headless /\ Waiting /\ old = {}
  <2> SUFFICES ASSUME ReadersInit
               PROVE  ReadersTypeOK /\ TwinsTorn /\ Headless /\ Waiting /\ old = {}
    OBVIOUS
  <2>1. <<>> \in Seq(Sectors) /\ <<>> \in Seq(Nat)
    BY EmptySeq
  <2> QED
    BY <2>1, PlaceInit DEF ReadersInit, ReaderInit, ReadersTypeOK, Waiting
<1>2. ReadersInit /\ LogInv => ReadInv
  BY <1>1, NothingPassed DEF ReadInv, PlaceInv
<1>3. ReadInv /\ [ReadersNext]_allvars => ReadInv'
  BY ReadInvStep
<1>4. ReadersInit => Init
  BY DEF ReadersInit
<1>5. [ReadersNext]_allvars => [Next]_vars
  BY LogOrReader
<1>6. ReadersSpec => []LogInv
  BY <1>4, <1>5, LogInvariant, PTL DEF ReadersSpec, Spec
<1> QED
  BY <1>2, <1>3, <1>6, PTL DEF ReadersSpec

\* Of the records that were on flash when the copying began, none is passed on
\* twice or after a newer one, although sectors are erased and written again
\* while they are read, and writes are torn and the device restarts.
THEOREM RowsStayInOrder ==
  ASSUME "ghost" \notin Tears, ReadsFail = FALSE PROVE ReadersSpec => []OldRowsInOrder
<1>1. ReadInv => OldRowsInOrder
  BY DEF ReadInv
<1> QED
  BY <1>1, ReadInvariant, PTL

-----------------------------------------------------------------------------
(***************************************************************************)
(* Number.  The first iteration counts at least the records of known that  *)
(* can still be read, so after the skip at most MaxRows of them are left   *)
(* to be passed on, and what is passed on beyond that was not in known.    *)
(***************************************************************************)
\* The records in the sectors that are left to read.
LeftId(x) ==
  \E i \in 1 .. Len(sectors), k \in Slots :
    Stored(sectors[i], k) /\ slot[sectors[i]][k].id = x

Left == {x \in VisibleIds : LeftId(x)}

NoRepeats == \A i, j \in 1 .. Len(sectors) : sectors[i] = sectors[j] => i = j

\* A sample is stored in one place.
LEMMA OnePlace ==
  ASSUME PlaceInv, NEW s \in Sectors, NEW t \in Sectors, NEW j \in Slots, NEW k \in Slots,
         Stored(s, j), Stored(t, k), slot[s][j].id = slot[t][k].id
  PROVE  s = t /\ j = k
<1>1. slot[s][j].id \in Nat /\ slot[t][k].id \in Nat
  BY StoredSampled DEF PlaceInv
<1>2. hdr[s] \in Nat /\ hdr[t] \in Nat /\ j \in Nat /\ k \in Nat
  BY SlotsAssumption DEF PlaceInv, LogInv, OrderInv, NumberingInv, TypeOK, Slots
<1>3. CASE s # t /\ hdr[s] <= hdr[t]
  BY <1>1, <1>3, StoredInOrder
<1>4. CASE s # t /\ hdr[t] <= hdr[s]
  BY <1>1, <1>4, StoredInOrder
<1>5. CASE s = t /\ j < k
  BY <1>1, <1>5, StoredInOrder
<1>6. CASE s = t /\ k < j
  BY <1>1, <1>6, StoredInOrder
<1> QED
  BY <1>2, <1>3, <1>4, <1>5, <1>6

\* Samples of the past are finitely many numbers.
LEMMA PastFinite ==
  ASSUME LogInv, NEW X, IsPast(X)
  PROVE  /\ X \in SUBSET Nat /\ IsFiniteSet(X)
         /\ \A U \in SUBSET X : IsFiniteSet(U) /\ Cardinality(U) \in Nat
<1>1. NextSample \in Nat /\ NextSample <= sampled + 1 /\ sampled \in Nat
  BY NextSampleIs DEF LogInv, OrderInv, NumberingInv
<1>2. X \in SUBSET (0 .. sampled)
  <2> SUFFICES ASSUME NEW x \in X PROVE x \in 0 .. sampled
    OBVIOUS
  <2>1. CASE x \in Nat /\ x < NextSample
    BY <1>1, <2>1
  <2>2. CASE /\ Open /\ Stored(s_cur_sector, s_cur_slot)
             /\ x = slot[s_cur_sector][s_cur_slot].id
    <3>1. s_cur_sector \in Sectors /\ s_cur_slot \in Slots
      BY <2>2, CursorRecord
    <3>2. x \in Nat /\ x <= sampled
      BY <2>2, <3>1, StoredSampled
    <3> QED
      BY <1>1, <3>2
  <2> QED
    BY <2>1, <2>2 DEF IsPast
<1>3. IsFiniteSet(0 .. sampled)
  BY <1>1, FS_Interval
<1>4. \A U \in SUBSET X : IsFiniteSet(U) /\ Cardinality(U) \in Nat
  <2> SUFFICES ASSUME NEW U \in SUBSET X PROVE IsFiniteSet(U) /\ Cardinality(U) \in Nat
    OBVIOUS
  <2>1. U \in SUBSET (0 .. sampled)
    BY <1>2
  <2>2. IsFiniteSet(U)
    BY <1>3, <2>1, FS_Subset
  <2> QED
    BY <2>2, FS_CardinalityType
<1>5. X \in SUBSET Nat
  BY <1>1, <1>2
<1> QED
  BY <1>4, <1>5

\* While the device runs, no sample of the past joins the records that can be
\* read, or those in the sectors that are left, or leaves only the latter.
LEMMA LeftWriter ==
  ASSUME PlaceInv, ReadersTypeOK, "ghost" \notin Tears, ReadsFail = FALSE, [Next]_vars,
         sectors' = sectors, NEW X, IsPast(X), NEW x \in X, x \in VisibleIds'
  PROVE  /\ x \in VisibleIds
         /\ x \in Left' <=> x \in Left
<1>0. LogInv /\ TailInv /\ TailInv'
  BY LogInvStep DEF PlaceInv, LogInv, OrderInv
<1>1. VisibleAreStored /\ VisibleAreStored'
  <2>1. VisibleAreStored'
    BY VisibleIdsAre, PTL
  <2> QED
    BY <2>1, VisibleIdsAre
<1>2. PICK s \in Sectors, k \in Slots : Stored(s, k)' /\ slot'[s][k].id = x
  BY <1>0, <1>1 DEF VisibleAreStored, StoredId
<1>3. Stored(s, k) /\ slot[s][k].id = x
  BY <1>0, <1>2, PastPlaces
<1>4. x \in VisibleIds
  BY <1>0, <1>1, <1>3 DEF VisibleAreStored, StoredId
<1>5. \A i \in 1 .. Len(sectors) : sectors[i] \in Sectors
  BY DEF ReadersTypeOK
<1>6. ASSUME x \in Left PROVE x \in Left'
  <2>1. PICK i \in 1 .. Len(sectors), j \in Slots :
          Stored(sectors[i], j) /\ slot[sectors[i]][j].id = x
    BY <1>6 DEF Left, LeftId
  <2>2. s = sectors[i] /\ k = j
    BY <1>3, <1>5, <2>1, OnePlace
  <2>3. i \in 1 .. Len(sectors') /\ sectors'[i] = s
    BY <2>2
  <2>4. LeftId(x)'
    BY <1>2, <2>3 DEF LeftId, Stored
  <2> QED
    BY <2>4 DEF Left
<1>7. ASSUME x \in Left' PROVE x \in Left
  <2>1. PICK i \in 1 .. Len(sectors), j \in Slots :
          Stored(sectors[i], j)' /\ slot'[sectors[i]][j].id = x
    BY <1>7 DEF Left, LeftId, Stored
  <2>2. PICK t \in Sectors : t = sectors[i]
    BY <1>5
  <2>3. Stored(t, j)' /\ slot'[t][j].id = x
    BY <2>1, <2>2 DEF Stored
  <2>4. Stored(t, j) /\ slot[t][j].id = x
    BY <1>0, <2>3, PastPlaces
  <2> QED
    BY <1>4, <2>2, <2>4 DEF Left, LeftId
<1> QED
  BY <1>4, <1>6, <1>7

\* All that can be read is in the sectors of a list that is complete.
LEMMA LeftList ==
  ASSUME PlaceInv, UNCHANGED vars,
         sectors' \in SectorLists({s \in Sectors : hdr[s] # NoHeader})
  PROVE  Left' = VisibleIds /\ VisibleIds' = VisibleIds
<1>0. TailInv
  BY DEF PlaceInv, LogInv, OrderInv
<1>1. hdr' = hdr /\ slot' = slot
  BY DEF vars, flash
<1>2. VisibleIds' = VisibleIds
  BY <1>1 DEF VisibleIds, Visible
<1>3. PICK S \in SUBSET Sectors : S = {s \in Sectors : hdr[s] # NoHeader}
  OBVIOUS
<1>4. PICK q \in SectorLists(S) : q = sectors'
  BY <1>3
<1>5. \A s \in S : \E i \in 1 .. Len(q) : q[i] = s
  BY SectorListsAre
<1> SUFFICES ASSUME NEW x \in VisibleIds PROVE LeftId(x)'
  BY <1>2 DEF Left
<1>6. PICK s \in Sectors, k \in Slots : Stored(s, k) /\ slot[s][k].id = x
  BY <1>0, VisibleIdsAre DEF VisibleAreStored, StoredId
<1>7. PICK i \in 1 .. Len(q) : q[i] = s
  BY <1>3, <1>5, <1>6 DEF Stored
<1> QED
  BY <1>1, <1>4, <1>6, <1>7 DEF LeftId, Stored

\* The first m records of a sector that is read are m of those that are left.
LEMMA FirstRecords ==
  ASSUME PlaceInv, ReadersTypeOK, sectors # <<>>,
         NEW recs, recs = SectorRecords(Head(sectors)),
         NEW m \in Nat, m <= Len(recs), NEW P, P = {recs[i] : i \in 1 .. m}
  PROVE  P \subseteq Left /\ IsFiniteSet(P) /\ Cardinality(P) = m
<1>0. TailInv /\ TypeOK
  BY DEF PlaceInv, LogInv, OrderInv, NumberingInv
<1>1. PICK s : s = Head(sectors)
  OBVIOUS
<1>2. s \in Sectors /\ s = sectors[1] /\ 1 \in 1 .. Len(sectors)
  BY <1>1, HeadSector
<1>3. \A i \in 1 .. m :
        i - 1 \in Slots /\ Stored(s, i - 1) /\ recs[i] = slot[s][i - 1].id
  <2>1. Len(recs) \in Nat
    BY <1>0, <1>1, <1>2, SectorRecordsAre
  <2>2. \A i \in 1 .. Len(recs) :
          i - 1 \in Slots /\ Stored(s, i - 1) /\ recs[i] = slot[s][i - 1].id
    BY <1>1, <1>2, SectorRecordsStored
  <2> QED
    BY <2>1, <2>2
<1>4. P \subseteq Left
  <2> SUFFICES ASSUME NEW i \in 1 .. m PROVE recs[i] \in Left
    OBVIOUS
  <2>1. PICK k \in Slots : Stored(s, k) /\ slot[s][k].id = recs[i]
    BY <1>3
  <2>2. recs[i] \in VisibleIds
    BY <1>0, <1>2, <2>1, VisibleIdsAre DEF VisibleAreStored, StoredId
  <2> QED
    BY <1>2, <2>1, <2>2 DEF Left, LeftId
<1>5. \A i, j \in 1 .. m : recs[i] = recs[j] => i = j
  <2> SUFFICES ASSUME NEW i \in 1 .. m, NEW j \in 1 .. m, recs[i] = recs[j]
               PROVE  i = j
    OBVIOUS
  <2>1. PICK k \in Slots : k = i - 1 /\ Stored(s, k) /\ recs[i] = slot[s][k].id
    BY <1>3
  <2>2. PICK l \in Slots : l = j - 1 /\ Stored(s, l) /\ recs[j] = slot[s][l].id
    BY <1>3
  <2>3. slot[s][k].id = slot[s][l].id
    BY <2>1, <2>2
  <2>4. k = l
    BY <1>2, <2>1, <2>2, <2>3, OnePlace
  <2> QED
    BY <2>1, <2>2, <2>4
<1>6. PICK D : D = 1 .. m
  OBVIOUS
<1>7. IsFiniteSet(D) /\ Cardinality(D) = m
  BY <1>6, FS_Interval
<1>8. PICK f : f = [i \in D |-> recs[i]]
  OBVIOUS
<1>9. f \in [D -> P] /\ \A y \in P : \E i \in D : f[i] = y
  BY <1>6, <1>8
<1>10. \A i, j \in D : f[i] = f[j] => i = j
  BY <1>5, <1>6, <1>8
<1>11. f \in Injection(D, P)
  BY <1>9, <1>10 DEF Injection, IsInjective
<1>12. f \in Surjection(D, P)
  BY <1>9 DEF Surjection
<1>13. IsFiniteSet(P) /\ Cardinality(P) = Cardinality(D)
  BY <1>7, <1>11, <1>12, FS_Surjection
<1> QED
  BY <1>4, <1>7, <1>13

\* Reading a sector takes its records from those that are left.
LEMMA LeftTail ==
  ASSUME PlaceInv, ReadersTypeOK, NoRepeats, UNCHANGED vars,
         sectors # <<>>, sectors' = Tail(sectors),
         NEW R, R = ToSet(SectorRecords(Head(sectors)))
  PROVE  /\ Left = Left' \cup R /\ Left' \cap R = {}
         /\ VisibleIds' = VisibleIds /\ R \subseteq VisibleIds
         /\ IsFiniteSet(R) /\ Cardinality(R) = Len(SectorRecords(Head(sectors)))
         /\ NoRepeats'
<1>0. TailInv /\ TypeOK
  BY DEF PlaceInv, LogInv, OrderInv, NumberingInv
<1>1. hdr' = hdr /\ slot' = slot
  BY DEF vars, flash
<1>2. VisibleIds' = VisibleIds
  BY <1>1 DEF VisibleIds, Visible
<1>3. PICK s : s = Head(sectors)
  OBVIOUS
<1>4. /\ s \in Sectors /\ s = sectors[1] /\ Len(sectors) \in Nat /\ 1 \in 1 .. Len(sectors)
      /\ Len(sectors') = Len(sectors) - 1
      /\ \A i \in 1 .. Len(sectors') :
           i + 1 \in 1 .. Len(sectors) /\ sectors'[i] = sectors[i + 1]
  BY <1>3, HeadSector
<1>5. PICK recs : recs = SectorRecords(s)
  OBVIOUS
<1>6. \A i \in 1 .. Len(recs) :
        i - 1 \in Slots /\ Stored(s, i - 1) /\ recs[i] = slot[s][i - 1].id
  BY <1>4, <1>5, SectorRecordsStored
<1>7. /\ Len(recs) \in Nat /\ recs \in Seq(Nat)
      /\ \A k \in Slots : Reached(s, k) => k + 1 \in 1 .. Len(recs)
  BY <1>0, <1>4, <1>5, SectorRecordsAre
<1>8. \A x : x \in R <=> \E k \in Slots : Stored(s, k) /\ slot[s][k].id = x
  <2>1. ASSUME NEW x \in R PROVE \E k \in Slots : Stored(s, k) /\ slot[s][k].id = x
    <3>1. PICK i \in 1 .. Len(recs) : x = recs[i]
      BY <1>3, <1>5 DEF ToSet
    <3> QED
      BY <1>6, <3>1
  <2>2. ASSUME NEW k \in Slots, Stored(s, k) PROVE slot[s][k].id \in R
    <3>1. Visible(s, k)
      BY <1>0, <1>4, <2>2, VisibleStored
    <3>2. k + 1 \in 1 .. Len(recs)
      BY <1>7, <3>1 DEF Visible, Reached
    <3>3. recs[k + 1] = slot[s][k].id
      BY <1>6, <3>2, SlotsAssumption DEF Slots
    <3> QED
      BY <1>3, <1>5, <3>2, <3>3 DEF ToSet
  <2> QED
    BY <2>1, <2>2
<1>9. R \subseteq VisibleIds
  BY <1>0, <1>4, <1>8, VisibleIdsAre DEF VisibleAreStored, StoredId
<1>10. \A x : LeftId(x) <=> LeftId(x)' \/ x \in R
  <2>1. ASSUME NEW x, LeftId(x) PROVE LeftId(x)' \/ x \in R
    <3>1. PICK i \in 1 .. Len(sectors), k \in Slots :
            Stored(sectors[i], k) /\ slot[sectors[i]][k].id = x
      BY <2>1 DEF LeftId
    <3>2. CASE i = 1
      BY <1>4, <1>8, <3>1, <3>2
    <3>3. CASE i # 1
      <4>1. i - 1 \in 1 .. Len(sectors') /\ sectors'[i - 1] = sectors[i]
        BY <1>4, <3>3
      <4> QED
        BY <1>1, <3>1, <4>1 DEF LeftId, Stored
    <3> QED
      BY <3>2, <3>3
  <2>2. ASSUME NEW x, LeftId(x)' PROVE LeftId(x)
    BY <1>1, <1>4, <2>2 DEF LeftId, Stored
  <2>3. ASSUME NEW x \in R PROVE LeftId(x)
    BY <1>4, <1>8, <2>3 DEF LeftId
  <2> QED
    BY <2>1, <2>2, <2>3
<1>11. ASSUME NEW x \in R, LeftId(x)' PROVE FALSE
  <2>1. PICK k \in Slots : Stored(s, k) /\ slot[s][k].id = x
    BY <1>8, <1>11
  <2>2. PICK i \in 1 .. Len(sectors'), l \in Slots :
          Stored(sectors[i + 1], l) /\ slot[sectors[i + 1]][l].id = x
    BY <1>1, <1>4, <1>11 DEF LeftId, Stored
  <2>3. i + 1 \in 1 .. Len(sectors) /\ sectors[i + 1] \in Sectors
    BY <1>4, <2>2 DEF ReadersTypeOK
  <2>4. s = sectors[i + 1]
    BY <1>4, <2>1, <2>2, <2>3, OnePlace
  <2>5. i + 1 # 1
    BY <1>4
  <2> QED
    BY <1>4, <2>3, <2>4, <2>5 DEF NoRepeats
<1>12. Left = Left' \cup R /\ Left' \cap R = {}
  BY <1>2, <1>9, <1>10, <1>11 DEF Left
<1>13. IsFiniteSet(R) /\ Cardinality(R) = Len(recs)
  <2>1. R = {recs[i] : i \in 1 .. Len(recs)}
    BY <1>3, <1>5 DEF ToSet
  <2> QED
    BY <1>3, <1>5, <1>7, <2>1, FirstRecords
<1>14. NoRepeats'
  <2> SUFFICES ASSUME NEW i \in 1 .. Len(sectors'), NEW j \in 1 .. Len(sectors'),
                      sectors'[i] = sectors'[j]
               PROVE  i = j
    BY DEF NoRepeats
  <2>1. i + 1 = j + 1
    BY <1>4 DEF NoRepeats
  <2> QED
    BY <1>4, <2>1
<1> QED
  BY <1>2, <1>3, <1>5, <1>9, <1>12, <1>13, <1>14

\* A sector that was closed by writing begins with a record.
ReadyFull ==
  s_ready /\ Closed /\ s_cur_sector # Target =>
    record_is_valid(slot[s_cur_sector][0])

\* What is known are samples of the past, older than what was written since;
\* what was met is of the past and is not met again.
SeenInv ==
  /\ ReadInv /\ ReadyFull /\ NoRepeats
  /\ r_pc \in {"none", "count"} => known = {}
  /\ r_pc # "counting" => emitted = 0
  /\ IsPast(known) /\ IsPast(met) /\ met \cap Left = {}
  /\ \A x \in known, y \in VisibleIds \ known : x < y

\* The first iteration counts the records of known that can still be read, and
\* none that is not among them or the records that can be read now, at least as
\* long as there are any of known.
CountInv ==
  /\ r_pc = "counting" /\ ~failed =>
       /\ Cardinality((known \cap VisibleIds) \ Left) <= emitted
       /\ known \cap VisibleIds # {} =>
            emitted + Cardinality(Left) <= Cardinality(known \cup VisibleIds)
  /\ r_pc = "copy" /\ ~failed =>
       /\ Cardinality(known \cap VisibleIds) <= MaxRows + skip
       /\ skip > 0 /\ known \cap VisibleIds # {} =>
            MaxRows + skip <= Cardinality(known \cup VisibleIds)

\* The second iteration passes nothing on while it skips.  What is passed on and
\* those records known and listed that it has not come to are at most MaxRows, but
\* for as many that were written since.
ExcessInv ==
  /\ r_pc \in {"copying", "done"} /\ ~failed =>
       /\ known \cap VisibleIds \subseteq old
       /\ skip > 0 => rows = <<>>
       /\ Len(rows) + Cardinality((known \cap old) \ met)
            <= MaxRows + skip + Cardinality(met \ known)
  /\ r_pc = "copying" /\ kind = "get_records" => Len(rows) < MaxRows
  /\ ExcessIsNew

\* The array of get_records is full.
Filled == r_pc = "done" /\ kind = "get_records" /\ Len(rows) = MaxRows

\* A record listed for the second time is still to be read or was met, unless the
\* array is full, and if it was met it was passed on or is outdated.
NewestInv ==
  r_pc \in {"copying", "done"} /\ ~failed =>
    /\ r_pc = "done" => sectors = <<>>
    /\ old \cap VisibleIds \subseteq Left \cup met \/ Filled
    /\ skip > 0 /\ known \cap VisibleIds # {} =>
         MaxRows + skip + Cardinality(met) <= Cardinality(known \cup old)
    /\ \A x \in (known \cap VisibleIds \cap met) \ ToSet(rows) : Outdated(x)

\* A sector is closed by filling it, and keeps its records while it is the last.
LEMMA ReadyFullStep ==
  ASSUME OrderInv, ReadyFull, "ghost" \notin Tears, [Next]_vars
  PROVE  ReadyFull'
<1>0. /\ TypeOK /\ TypeOK' /\ LockHolder /\ LockHolder' /\ TailInv
      /\ RecordsPerSector \in Nat \ {0} /\ 0 \in Slots
  BY TypeStep, LockHolderStep, SlotsAssumption DEF OrderInv, NumberingInv, Slots
<1> SUFFICES ASSUME s_ready', ~Open', s_cur_sector' # Target'
             PROVE  record_is_valid(slot'[s_cur_sector'][0])
  BY DEF ReadyFull, Closed
<1>1. ASSUME s_ready, ~Open, s_cur_sector' = s_cur_sector,
             slot'[s_cur_sector] = slot[s_cur_sector] \/ s_cur_sector = Target
      PROVE  record_is_valid(slot'[s_cur_sector'][0])
  <2>1. Target' = Target /\ Closed
    BY <1>0, <1>1 DEF Target, Closed, LockHolder
  <2> QED
    BY <1>1, <2>1 DEF ReadyFull
<1>2. CASE Boot \/ WriteHeader \/ PowerLoss
  <2>1. s_cur_slot' \in Int
    BY <1>0 DEF TypeOK
  <2>2. CASE Boot
    <3>1. s_ready' => s_cur_slot' < RecordsPerSector
      BY <1>0, <2>1, <2>2 DEF Boot, BootFormat, BootResume
    <3> QED
      BY <3>1 DEF Open
  <2> QED
    BY <1>0, <1>2, <2>2 DEF WriteHeader, CursorAfterAdvance, PowerLoss, Reset, Open
<1>3. CASE WriteRecord
  <2>1. PICK v : v = Program(OldSlot, NewRecord)
    OBVIOUS
  <2>2. Writing /\ SetSlot(v) /\ UNCHANGED hdr /\ AtCursor(v) /\ Free(OldSlot)
    BY <1>0, <1>3, <2>1, WrittenAtCursor DEF WriteRecord
  <2>3. v = NewRecord
    BY <2>1, <2>2, FreeSlot DEF Writing
  <2>4. /\ s_cur_slot \in Slots /\ s_cur_sector \in Sectors
        /\ \A s \in Sectors, k \in Slots :
             slot'[s][k] = IF s = s_cur_sector /\ k = s_cur_slot THEN v ELSE slot[s][k]
    BY <1>0, <2>2, SetSlotTail
  <2>5. s_cur_slot # 0 => record_is_valid(slot[s_cur_sector][0])
    BY <1>0, <2>2, <2>4 DEF Writing, TailInv, CursorTail, LockHolder, Slots
  <2>6. s_cur_sector' = s_cur_sector
    BY <1>3 DEF WriteRecord
  <2> QED
    BY <1>0, <2>3, <2>4, <2>5, <2>6 DEF record_is_valid, NewRecord
<1>4. CASE EraseSector \/ (FlashError /\ s_ready)
  <2>1. UNCHANGED cursor
    BY <1>4 DEF EraseSector, FlashError
  <2>2. s_ready /\ ~Open /\ s_cur_sector' = s_cur_sector
    BY <2>1 DEF cursor, Open
  <2>3. ~Writing
    BY <2>2 DEF Writing, Open
  <2>4. EraseSector \/ HalfErase \/ HalfHeader
    BY <1>4, <2>3 DEF FlashError, HalfWrite
  <2>5. CASE UNCHANGED flash
    BY <1>1, <2>2, <2>5 DEF flash
  <2>6. CASE \E m, h, c : Renews(m, h, c)
    <3>1. \A t \in Others : slot'[t] = slot[t]
      BY <2>6, RenewedTarget
    <3>2. slot'[s_cur_sector] = slot[s_cur_sector] \/ s_cur_sector = Target
      BY <1>0, <3>1 DEF Others, TypeOK
    <3> QED
      BY <1>1, <2>2, <3>2
  <2> QED
    BY <2>4, <2>5, <2>6, Renewing
<1>5. CASE FlashError /\ ~s_ready
  BY <1>5 DEF FlashError, Reset
<1>6. CASE AddRecord \/ Flush \/ FlushDone \/ AdvanceSector \/ UNCHANGED vars
  <2>1. UNCHANGED flash /\ UNCHANGED cursor
    BY <1>6 DEF AddRecord, Flush, FlushDone, AdvanceSector, vars
  <2>2. s_ready /\ ~Open
    BY <2>1 DEF cursor, Open
  <2> QED
    BY <1>1, <2>1, <2>2 DEF flash, cursor
<1> QED
  BY <1>2, <1>3, <1>4, <1>5, <1>6 DEF Next, LogStep

\* So while the device runs, what the log drops is older than what it keeps, twin
\* sectors or not.
LEMMA OldestWhileReady ==
  ASSUME PlaceInv, ReadyFull, "ghost" \notin Tears, ReadsFail = FALSE, [Next]_vars,
         s_ready, NEW x \in VisibleIds \ VisibleIds', NEW y \in VisibleIds \cap VisibleIds'
  PROVE  x < y
<1>0. LogInv /\ OrderInv /\ TailInv /\ TailInv' /\ LockHolder
  BY LogInvStep DEF PlaceInv, LogInv, OrderInv, TailInv
<1>1. PICK s \in Sectors, j \in Slots : Stored(s, j) /\ slot[s][j].id = x
  BY <1>0, VisibleIdsAre DEF VisibleAreStored, StoredId
<1>2. VisibleAreStored'
  BY VisibleIdsAre, PTL
<1>3. PICK t \in Sectors, k \in Slots : Stored(t, k)' /\ slot'[t][k].id = y
  BY <1>0, <1>2 DEF VisibleAreStored, StoredId
<1>4. ~(Stored(s, j)' /\ slot'[s][j].id = x)
  BY <1>0, <1>2 DEF VisibleAreStored, StoredId
<1>5. pc = "erase"
  BY <1>0, <1>1, <1>4, StoredKept
<1>6. ~UNCHANGED flash
  BY <1>1, <1>4 DEF flash, Stored, record_is_valid
<1>7. /\ Closed /\ Target \in Sectors /\ t \in Others
      /\ Stored(t, k) /\ slot[t][k].id = y
      /\ s \notin Others
  BY <1>0, <1>1, <1>3, <1>4, <1>5, <1>6, ErasedOnly
<1>8. s = Target /\ t # s /\ hdr[s] # NoHeader /\ hdr[t] # NoHeader
  BY <1>1, <1>7 DEF Others, Stored
<1>9. hdr[s] <= hdr[t]
  <2>1. CASE s_cur_sector # s /\ hdr[s] = hdr[s_cur_sector]
    <3>1. PICK c \in Sectors : c = s_cur_sector
      BY DEF PlaceInv, LogInv, OrderInv, NumberingInv, TypeOK
    <3>2. slot[c][0].st = "valid"
      BY <1>7, <1>8, <2>1, <3>1 DEF ReadyFull, record_is_valid
    <3>3. ~Torn0(c) /\ ~Torn0(s)
      BY <1>0, <1>1, <3>2, StoredNotTorn DEF Torn0
    <3> QED
      BY <1>8, <2>1, <3>1, <3>3 DEF PlaceInv, TwinsTorn
  <2>2. CASE \A u \in Others : hdr[u] = NoHeader \/ hdr[s] <= hdr[u]
    BY <1>7, <1>8, <2>2
  <2> QED
    BY <1>0, <1>1, <1>7, <1>8, <2>1, <2>2 DEF OrderInv, OldestNext
<1> QED
  BY <1>1, <1>7, <1>8, <1>9, StoredInOrder

\* What can be read for the first time is the sample that was to be written next.
LEMMA NewVisible ==
  ASSUME PlaceInv, "ghost" \notin Tears, ReadsFail = FALSE, [Next]_vars,
         NEW y \in VisibleIds' \ VisibleIds
  PROVE  y = NextSample
<1>0. LogInv /\ OrderInv /\ TailInv /\ TailInv'
  BY LogInvStep DEF PlaceInv, LogInv, OrderInv
<1>1. VisibleAreStored'
  BY VisibleIdsAre, PTL
<1>2. PICK s \in Sectors, k \in Slots : Stored(s, k)' /\ slot'[s][k].id = y
  BY <1>0, <1>1 DEF VisibleAreStored, StoredId
<1>3. ~(Stored(s, k) /\ slot[s][k].id = y)
  BY <1>0, VisibleIdsAre DEF VisibleAreStored, StoredId
<1>4. CASE UNCHANGED flash \/ \E m, h, c : Renews(m, h, c)
  BY <1>0, <1>2, <1>3, <1>4, RenewedKeeps DEF KeepsRecords
<1>5. CASE /\ Writing /\ UNCHANGED hdr
           /\ \E v : SetSlot(v) /\ AtCursor(v) /\ Free(OldSlot)
  <2>1. PICK v : SetSlot(v) /\ AtCursor(v) /\ Free(OldSlot)
    BY <1>5
  <2>2. slot'[s][k] = IF s = s_cur_sector /\ k = s_cur_slot THEN v ELSE slot[s][k]
    BY <1>0, <1>5, <2>1, SetSlotTail
  <2>3. s = s_cur_sector /\ k = s_cur_slot
    BY <1>2, <1>3, <1>5, <2>2 DEF Stored
  <2>4. v # OldSlot
    BY <1>2, <1>3, <1>5, <2>2, <2>3 DEF Stored, OldSlot
  <2>5. NextSample = s_ram_buf[flush_i + 1]
    BY <1>5, NextSampleIs DEF Writing, PlaceInv, LogInv, OrderInv, NumberingInv
  <2> QED
    BY <1>2, <2>1, <2>2, <2>3, <2>4, <2>5 DEF AtCursor, NewRecord
<1> QED
  BY <1>0, <1>4, <1>5, FlashStep

\* A step of the reader leaves the log, and what can be read, as it is.
LEMMA SameLog ==
  ASSUME UNCHANGED vars
  PROVE  /\ VisibleIds' = VisibleIds /\ (ReadyFull => ReadyFull')
         /\ \A X : IsPast(X) => IsPast(X)'
         /\ sectors' = sectors => Left' = Left /\ (NoRepeats => NoRepeats')
         /\ sectors' = <<>> => Left' = {} /\ NoRepeats'
<1>1. /\ hdr' = hdr /\ slot' = slot /\ s_cur_sector' = s_cur_sector /\ s_ready' = s_ready
      /\ s_cur_slot' = s_cur_slot /\ next' = next /\ pc' = pc /\ NextSample' = NextSample
  BY DEF vars, flash, cursor, buffer, NextSample
<1>2. VisibleIds' = VisibleIds
  BY <1>1 DEF VisibleIds, Visible
<1>3. ReadyFull => ReadyFull'
  BY <1>1 DEF ReadyFull, Closed, Open, Target
<1>4. ASSUME NEW X, IsPast(X) PROVE IsPast(X)'
  BY <1>1, <1>4 DEF IsPast, Open, Stored
<1>5. sectors' = sectors => Left' = Left /\ (NoRepeats => NoRepeats')
  BY <1>1, <1>2 DEF Left, LeftId, Stored, NoRepeats
<1>6. sectors' = <<>> => Left' = {} /\ NoRepeats'
  BY DEF Left, LeftId, NoRepeats
<1> QED
  BY <1>2, <1>3, <1>4, <1>5, <1>6

\* A step of the log.
LEMMA SeenWriter ==
  ASSUME SeenInv, "ghost" \notin Tears, ReadsFail = FALSE, Writer(Next)
  PROVE  SeenInv'
<1>0. /\ PlaceInv /\ LogInv /\ OrderInv /\ ReadersTypeOK /\ [Next]_vars /\ Waiting
      /\ ReadInv' /\ ReadyFull'
  BY ReadInvStep, ReadyFullStep
     DEF SeenInv, ReadInv, PlaceInv, LogInv, Writer, ReadersNext
<1>1. CASE known' = {} /\ met' = {} /\ sectors' = <<>> /\ emitted' = 0
  BY <1>0, <1>1 DEF SeenInv, NoRepeats, IsPast
<1>2. CASE pc' = "boot"
  BY <1>1, <1>2 DEF Writer, NoReader
<1>3. CASE pc' # "boot" /\ ~s_ready
  <2>1. UNCHANGED reader
    BY <1>3 DEF Writer
  <2>2. r_pc = "none" /\ met = {} /\ known = {} /\ emitted = 0
    BY <1>0, <1>3 DEF Waiting, SeenInv
  <2>3. known' = {} /\ met' = {} /\ emitted' = 0 /\ sectors' = sectors
    BY <2>1, <2>2 DEF reader
  <2> QED
    BY <1>0, <2>3 DEF SeenInv, NoRepeats, IsPast
<1>4. CASE pc' # "boot" /\ s_ready
  <2>1. UNCHANGED reader
    BY <1>4 DEF Writer
  <2>2. /\ r_pc' = r_pc /\ emitted' = emitted /\ sectors' = sectors /\ known' = known
        /\ met' = met
    BY <2>1 DEF reader
  <2>3. PICK K, M : K = known /\ M = met
    OBVIOUS
  <2>4. IsPast(K) /\ IsPast(M)
    BY <2>3 DEF SeenInv
  <2>5. IsPast(K)' /\ IsPast(M)'
    BY <1>0, <1>4, <2>4, PastStep
  <2>6. IsPast(known)' /\ IsPast(met)'
    BY <2>2, <2>3, <2>5 DEF IsPast
  <2>7. met' \cap Left' = {}
    <3> SUFFICES ASSUME NEW x \in M, x \in Left' PROVE FALSE
      BY <2>2, <2>3
    <3>1. x \in VisibleIds'
      BY DEF Left
    <3>2. x \in Left
      BY <1>0, <2>2, <2>4, <3>1, LeftWriter
    <3> QED
      BY <2>3, <3>2 DEF SeenInv
  <2>8. \A x \in known', y \in VisibleIds' \ known' : x < y
    <3> SUFFICES ASSUME NEW x \in K, NEW y \in VisibleIds' \ K PROVE x < y
      BY <2>2, <2>3
    <3>1. CASE y \in VisibleIds
      BY <2>3, <3>1 DEF SeenInv
    <3>2. CASE y \notin VisibleIds
      <4>1. y = NextSample
        BY <1>0, <3>2, NewVisible
      <4>2. x = NextSample \/ x < NextSample
        BY <1>0, <2>4, CursorRecord DEF IsPast
      <4> QED
        BY <4>1, <4>2
    <3> QED
      BY <3>1, <3>2
  <2> QED
    BY <1>0, <2>2, <2>6, <2>7, <2>8 DEF SeenInv, NoRepeats
<1> QED
  BY <1>2, <1>3, <1>4

\* The sectors of a list are different ones.
LEMMA ListedOnce ==
  ASSUME NEW p, NEW q, ListSectors(p, q)
  PROVE  /\ NoRepeats' /\ r_pc = p /\ r_pc' = q
         /\ ~failed' => /\ ~failed
                        /\ sectors' \in SectorLists({s \in Sectors : hdr[s] # NoHeader})
<1>1. PICK S \in SUBSET {s \in Sectors : hdr[s] # NoHeader} : sectors' \in SectorLists(S)
  BY DEF ListSectors
<1>2. S \in SUBSET Sectors
  OBVIOUS
<1>3. NoRepeats'
  BY <1>1, <1>2, SectorListsAre DEF NoRepeats
<1> QED
  BY <1>3 DEF ListSectors

\* The records of a sector can be read.
LEMMA HeadVisible ==
  ASSUME PlaceInv, ReadersTypeOK, sectors # <<>>
  PROVE  ToSet(SectorRecords(Head(sectors))) \subseteq VisibleIds
<1>1. Head(sectors) \in Sectors
  BY HeadSector
<1>2. ASSUME NEW i \in 1 .. Len(SectorRecords(Head(sectors)))
      PROVE  SectorRecords(Head(sectors))[i] \in VisibleIds
  <2>1. StoredId(SectorRecords(Head(sectors))[i])
    BY <1>1, SectorRecordsStored DEF StoredId
  <2> QED
    BY <2>1, VisibleIdsAre DEF VisibleAreStored, PlaceInv, LogInv, OrderInv
<1> QED
  BY <1>2 DEF ToSet

\* A step of the reader.
LEMMA SeenReader ==
  ASSUME SeenInv, "ghost" \notin Tears, ReadsFail = FALSE, [ReadersNext]_allvars,
         ~Writer(Next)
  PROVE  SeenInv'
<1>0. /\ PlaceInv /\ LogInv /\ ReadersTypeOK /\ UNCHANGED vars /\ Waiting /\ ReadInv'
      /\ ReadyFull' /\ VisibleIds' = VisibleIds
  BY ReadInvStep, LogOrReader, SameLog DEF SeenInv, ReadInv, PlaceInv, allvars
<1>1. ASSUME known' = known, met' = met, NoRepeats', Left' \subseteq Left,
             r_pc' \in {"none", "count"} => known = {},
             r_pc' # "counting" => emitted' = 0
      PROVE  SeenInv'
  <2>1. PICK K, M : K = known /\ M = met
    OBVIOUS
  <2>2. IsPast(K)' /\ IsPast(M)'
    BY <1>0, <2>1, SameLog DEF SeenInv
  <2>3. IsPast(known)' /\ IsPast(met)'
    BY <1>1, <2>1, <2>2 DEF IsPast
  <2> QED
    BY <1>0, <1>1, <2>3 DEF SeenInv
<1>2. ASSUME sectors # <<>>, sectors' = Tail(sectors) PROVE NoRepeats' /\ Left' \subseteq Left
  BY <1>0, <1>2, LeftTail DEF SeenInv
<1>3. sectors' = sectors => NoRepeats' /\ Left' = Left
  BY <1>0, SameLog DEF SeenInv
<1>4. CASE Request
  BY <1>1, <1>3, <1>4 DEF Request, SeenInv
<1>5. CASE ListToCount
  <2>1. NoRepeats' /\ r_pc = "count" /\ r_pc' = "counting"
    BY <1>5, ListedOnce DEF ListToCount
  <2>2. met' = {} /\ known' = VisibleIds
    BY <1>0, <1>5, <2>1 DEF ListToCount, Waiting
  <2>3. PICK K : K = VisibleIds
    OBVIOUS
  <2>4. IsPast(K)'
    BY <1>0, <2>3, VisiblePast, SameLog
  <2>5. IsPast(known)' /\ IsPast(met)'
    BY <2>2, <2>3, <2>4 DEF IsPast
  <2> QED
    BY <1>0, <2>1, <2>2, <2>5 DEF SeenInv
<1>6. CASE ListToCopy
  <2>1. NoRepeats' /\ r_pc = "copy" /\ r_pc' = "copying"
    BY <1>6, ListedOnce DEF ListToCopy
  <2>2. /\ met' = {} /\ known' = known /\ emitted' = 0
    BY <1>0, <1>6, <2>1 DEF ListToCopy, Waiting, SeenInv
  <2>3. PICK K : K = known
    OBVIOUS
  <2>4. IsPast(K)'
    BY <1>0, <2>3, SameLog DEF SeenInv
  <2>5. IsPast(known)' /\ IsPast(met)'
    BY <2>2, <2>3, <2>4 DEF IsPast
  <2> QED
    BY <1>0, <2>1, <2>2, <2>5 DEF SeenInv
<1>7. CASE CountSector \/ SkipUnreadable
  BY <1>1, <1>2, <1>7 DEF CountSector, SkipUnreadable, SeenInv
<1>8. CASE Counted
  BY <1>1, <1>3, <1>8 DEF Counted
<1>9. CASE CopySector
  <2>1. PICK d, t : Passes(d, t)
    BY <1>0, <1>9, CopySectorPasses DEF PlaceInv, LogInv, OrderInv, NumberingInv
  <2>2. PICK recs, R : /\ recs = SectorRecords(Head(sectors))
                       /\ R = {recs[i] : i \in 1 .. d + t}
    OBVIOUS
  <2>3. /\ met' = met \cup R /\ sectors # <<>> /\ known' = known
        /\ r_pc = "copying" /\ emitted' = emitted
        /\ r_pc' \in {"copying", "done"}
        /\ sectors' = Tail(sectors) \/ sectors' = <<>>
        /\ d \in Nat /\ t \in Int /\ t <= Len(recs) - d
    BY <1>9, <2>1, <2>2 DEF CopySector, Passes
  <2>4. R \subseteq VisibleIds /\ NoRepeats' /\ met' \cap Left' = {}
    <3>0. R \subseteq ToSet(recs)
      <4>1. Len(recs) \in Nat
        BY <1>0, <2>2, <2>3, HeadSector, SectorRecordsAre
                DEF PlaceInv, LogInv, OrderInv, NumberingInv
      <4>2. \A i \in 1 .. d + t : i \in 1 .. Len(recs)
        BY <2>3, <4>1
      <4> QED
        BY <2>2, <4>2 DEF ToSet
    <3>1. R \subseteq VisibleIds
      BY <1>0, <2>2, <2>3, <3>0, HeadVisible
    <3>2. CASE sectors' = Tail(sectors)
      <4>1. Left = Left' \cup ToSet(recs) /\ Left' \cap ToSet(recs) = {} /\ NoRepeats'
        BY <1>0, <2>2, <2>3, <3>2, LeftTail DEF SeenInv
      <4> QED
        BY <2>3, <3>0, <3>1, <4>1 DEF SeenInv
    <3>3. CASE sectors' = <<>>
      BY <1>0, <3>1, <3>3, SameLog
    <3> QED
      BY <2>3, <3>2, <3>3
  <2>5. IsPast(known)' /\ IsPast(met)'
    <3>1. PICK K, M : K = known /\ M = met \cup R
      OBVIOUS
    <3>2. IsPast(K) /\ IsPast(M)
      BY <1>0, <2>4, <3>1, VisiblePast DEF SeenInv, IsPast
    <3>3. IsPast(K)' /\ IsPast(M)'
      BY <1>0, <3>2, SameLog
    <3> QED
      BY <2>3, <3>1, <3>3 DEF IsPast
  <2> QED
    BY <1>0, <2>3, <2>4, <2>5 DEF SeenInv
<1>10. CASE Copied \/ UNCHANGED allvars
  BY <1>1, <1>3, <1>10 DEF Copied, allvars, reader, SeenInv
<1>11. CASE Answer
  <2>1. known' = {} /\ met' = {} /\ sectors' = <<>> /\ emitted' = 0
    BY <1>11 DEF Answer, NoReader
  <2> QED
    BY <1>0, <2>1 DEF SeenInv, NoRepeats, IsPast
<1> QED
  BY <1>4, <1>5, <1>6, <1>7, <1>8, <1>9, <1>10, <1>11 DEF ReadersNext, List, Read

\* What can be read are finitely many samples.
VisibleIsFinite ==
  LogInv =>
    /\ VisibleIds \in SUBSET Nat
    /\ \A U \in SUBSET VisibleIds : IsFiniteSet(U) /\ Cardinality(U) \in Nat

\* So they are.
LEMMA VisibleFinite == VisibleIsFinite
BY VisiblePast, PastFinite DEF VisibleIsFinite

\* A part of a finite set is not larger than the set, and what is added to it
\* makes it larger by the number of what is new.
LEMMA PartSize ==
  ASSUME NEW T, IsFiniteSet(T), NEW S \in SUBSET T
  PROVE  /\ Cardinality(S) \in Nat /\ Cardinality(T) \in Nat
         /\ Cardinality(S) <= Cardinality(T)
         /\ Cardinality(T) = Cardinality(S) + Cardinality(T \ S)
         /\ Cardinality(T \ S) \in Nat
<1>1. IsFiniteSet(S) /\ Cardinality(S) <= Cardinality(T)
  BY FS_Subset
<1>2. IsFiniteSet(T \ S) /\ Cardinality(T \ S) = Cardinality(T) - Cardinality(T \cap S)
  BY FS_Difference
<1>3. Cardinality(T \cap S) = Cardinality(S)
  <2>1. T \cap S = S
    OBVIOUS
  <2> QED
    BY <2>1, Zenon
<1>4. Cardinality(S) \in Nat /\ Cardinality(T) \in Nat /\ Cardinality(T \ S) \in Nat
  BY <1>1, <1>2, FS_CardinalityType
<1> QED
  BY <1>1, <1>2, <1>3, <1>4

\* A set that lies in two others is not larger than the two.
LEMMA CoverSize ==
  ASSUME NEW A, NEW B, IsFiniteSet(A), IsFiniteSet(B), NEW S \in SUBSET (A \cup B)
  PROVE  /\ Cardinality(S) \in Nat /\ Cardinality(A) \in Nat /\ Cardinality(B) \in Nat
         /\ Cardinality(S) <= Cardinality(A) + Cardinality(B)
<1>1. PICK U : U = A \cup B
  OBVIOUS
<1>2. IsFiniteSet(U) /\ Cardinality(U) = Cardinality(A) + Cardinality(B) - Cardinality(A \cap B)
  BY <1>1, FS_Union
<1>3. IsFiniteSet(A \cap B)
  BY FS_Subset
<1>4. Cardinality(A \cap B) \in Nat /\ Cardinality(A) \in Nat /\ Cardinality(B) \in Nat
  BY <1>3, FS_CardinalityType
<1>5. Cardinality(S) \in Nat /\ Cardinality(S) <= Cardinality(U)
  BY <1>1, <1>2, PartSize
<1>6. Cardinality(U) \in Nat
  BY <1>2, FS_CardinalityType
<1> QED
  BY <1>2, <1>4, <1>5, <1>6

\* While the device runs, and a record of known can still be read, the records
\* known or readable grow by at least as many as there are more left to read.
LEMMA SeenGrows ==
  ASSUME SeenInv, "ghost" \notin Tears, ReadsFail = FALSE, [Next]_vars, s_ready,
         pc' # "boot", sectors' = sectors, known \cap VisibleIds' # {}
  PROVE  /\ known \cap VisibleIds # {}
         /\ Cardinality(known \cup VisibleIds) \in Nat
         /\ Cardinality(known \cup VisibleIds') \in Nat
         /\ Cardinality(Left) \in Nat /\ Cardinality(Left') \in Nat
         /\ Cardinality(known \cup VisibleIds) <= Cardinality(known \cup VisibleIds')
         /\ Cardinality(Left') + Cardinality(known \cup VisibleIds)
              <= Cardinality(Left) + Cardinality(known \cup VisibleIds')
<1>0. /\ PlaceInv /\ ReadyFull /\ ReadersTypeOK /\ LogInv /\ LogInv'
      /\ IsPast(known) /\ IsPast(VisibleIds)
  BY LogInvStep, VisiblePast DEF SeenInv, ReadInv, PlaceInv
<1>1. PICK K, V, W : K = known /\ V = VisibleIds /\ W = VisibleIds'
  OBVIOUS
<1>2. VisibleIsFinite'
  BY VisibleFinite, PTL
<1>3. /\ K \in SUBSET Nat /\ V \in SUBSET Nat /\ W \in SUBSET Nat
      /\ IsFiniteSet(K) /\ IsFiniteSet(V) /\ IsFiniteSet(W)
  BY <1>0, <1>1, <1>2, VisibleFinite, PastFinite DEF VisibleIsFinite
<1>4. PICK x \in K : x \in W
  BY <1>1
<1>5. x \in V
  BY <1>0, <1>1, <1>4, LeftWriter
<1>6. K \cup V \subseteq K \cup W
  <2> SUFFICES ASSUME NEW y \in V, y \notin K, y \notin W PROVE FALSE
    OBVIOUS
  <2>1. y < x
    BY <1>0, <1>1, <1>4, <1>5, OldestWhileReady
  <2>2. x < y
    BY <1>1, <1>4 DEF SeenInv
  <2> QED
    BY <1>3, <2>1, <2>2
<1>7. \A y \in Left' \ Left : y \in W /\ y \notin K \cup V
  <2> SUFFICES ASSUME NEW y \in Left', y \notin Left PROVE y \in W /\ y \notin K \cup V
    OBVIOUS
  <2>1. y \in W
    BY <1>1 DEF Left
  <2>2. y \notin K
    BY <1>0, <1>1, <2>1, LeftWriter
  <2>3. y \notin V
    BY <1>0, <1>1, <2>1, LeftWriter
  <2> QED
    BY <2>1, <2>2, <2>3
<1>8. PICK L, M : L = Left /\ M = Left'
  OBVIOUS
<1>9. IsFiniteSet(L) /\ IsFiniteSet(M)
  <2>1. L \in SUBSET V /\ M \in SUBSET W
    BY <1>1, <1>8 DEF Left
  <2> QED
    BY <1>3, <2>1, FS_Subset
<1>10. PICK U, N : U = K \cup V /\ N = K \cup W
  OBVIOUS
<1>11. IsFiniteSet(U) /\ IsFiniteSet(N) /\ U \in SUBSET N
  BY <1>3, <1>6, <1>10, FS_Union
<1>12. M \in SUBSET (L \cup (N \ U)) /\ IsFiniteSet(N \ U)
  BY <1>7, <1>8, <1>10, <1>11, FS_Difference
<1>13. /\ Cardinality(M) <= Cardinality(L) + Cardinality(N \ U)
       /\ Cardinality(M) \in Nat /\ Cardinality(L) \in Nat
  BY <1>9, <1>12, CoverSize
<1>14. /\ Cardinality(N) = Cardinality(U) + Cardinality(N \ U)
       /\ Cardinality(N) \in Nat /\ Cardinality(U) \in Nat /\ Cardinality(N \ U) \in Nat
  BY <1>11, PartSize
<1>15. /\ Cardinality(M) + Cardinality(U) <= Cardinality(L) + Cardinality(N)
       /\ Cardinality(U) <= Cardinality(N)
  BY <1>13, <1>14
<1> QED
  BY <1>1, <1>4, <1>5, <1>8, <1>10, <1>13, <1>14, <1>15

\* A step of the log makes no record of known readable, and makes those of known
\* that can be read and are not left to read no more.
LEMMA KnownShrinks ==
  ASSUME SeenInv, "ghost" \notin Tears, ReadsFail = FALSE, [Next]_vars, sectors' = sectors
  PROVE  /\ (known \cap VisibleIds') \subseteq known \cap VisibleIds
         /\ ((known \cap VisibleIds') \ Left') \subseteq (known \cap VisibleIds) \ Left
         /\ (known \cap Left') \subseteq known \cap Left
         /\ \A U \in SUBSET known : IsFiniteSet(U) /\ Cardinality(U) \in Nat
<1>0. PlaceInv /\ ReadersTypeOK /\ LogInv /\ IsPast(known)
  BY DEF SeenInv, ReadInv, PlaceInv
<1>1. \A x \in known : x \in VisibleIds' => x \in VisibleIds /\ (x \in Left' <=> x \in Left)
  BY <1>0, LeftWriter
<1>2. Left' \subseteq VisibleIds'
  BY DEF Left
<1>3. \A U \in SUBSET known : IsFiniteSet(U) /\ Cardinality(U) \in Nat
  BY <1>0, PastFinite
<1> QED
  BY <1>1, <1>2, <1>3

\* CountInv holds after a step of the log.
LEMMA CountWriter ==
  ASSUME SeenInv, CountInv, "ghost" \notin Tears, ReadsFail = FALSE, Writer(Next)
  PROVE  CountInv'
<1>0. [Next]_vars /\ ReadersTypeOK /\ Waiting /\ MaxRows \in Nat
  BY MaxRowsAssumption DEF Writer, SeenInv, ReadInv
<1>1. CASE r_pc' \notin {"counting", "copy"}
  BY <1>1 DEF CountInv
<1>2. CASE r_pc' \in {"counting", "copy"}
  <2>1. pc' # "boot" /\ UNCHANGED reader
    BY <1>2 DEF Writer, NoReader
  <2>2. /\ r_pc' = r_pc /\ failed' = failed /\ emitted' = emitted /\ skip' = skip
        /\ sectors' = sectors /\ known' = known
    BY <2>1 DEF reader
  <2>3. s_ready
    BY <1>0, <1>2, <2>2 DEF Waiting
  <2>4. PICK K, V, W : K = known /\ V = VisibleIds /\ W = VisibleIds'
    OBVIOUS
  <2>5. PICK L, M : L = Left /\ M = Left'
    OBVIOUS
  <2>6. /\ (K \cap W) \subseteq K \cap V /\ ((K \cap W) \ M) \subseteq (K \cap V) \ L
        /\ \A U \in SUBSET K : IsFiniteSet(U) /\ Cardinality(U) \in Nat
    BY <1>0, <2>2, <2>4, <2>5, KnownShrinks
  <2>7. /\ Cardinality(K \cap W) <= Cardinality(K \cap V)
        /\ Cardinality(K \cap W) \in Nat /\ Cardinality(K \cap V) \in Nat
    <3>1. PICK S, T : S = K \cap W /\ T = K \cap V
      OBVIOUS
    <3>2. S \in SUBSET T /\ IsFiniteSet(T)
      BY <2>6, <3>1
    <3> QED
      BY <3>1, <3>2, PartSize
  <2>8. /\ Cardinality((K \cap W) \ M) <= Cardinality((K \cap V) \ L)
        /\ Cardinality((K \cap W) \ M) \in Nat /\ Cardinality((K \cap V) \ L) \in Nat
    <3>1. PICK S, T : S = (K \cap W) \ M /\ T = (K \cap V) \ L
      OBVIOUS
    <3>2. S \in SUBSET T /\ IsFiniteSet(T)
      BY <2>6, <3>1
    <3> QED
      BY <3>1, <3>2, PartSize
  <2>9. K \cap W # {} =>
          /\ K \cap V # {}
          /\ Cardinality(K \cup V) \in Nat /\ Cardinality(K \cup W) \in Nat
          /\ Cardinality(L) \in Nat /\ Cardinality(M) \in Nat
          /\ Cardinality(K \cup V) <= Cardinality(K \cup W)
          /\ Cardinality(M) + Cardinality(K \cup V) <= Cardinality(L) + Cardinality(K \cup W)
    BY <1>0, <2>1, <2>2, <2>3, <2>4, <2>5, SeenGrows
  <2>10. emitted \in Nat /\ skip \in Nat
    BY <1>0 DEF ReadersTypeOK
  <2>11. ASSUME r_pc = "counting", ~failed
         PROVE  /\ Cardinality((K \cap W) \ M) <= emitted
                /\ K \cap W # {} => emitted + Cardinality(M) <= Cardinality(K \cup W)
    <3>1. /\ Cardinality((K \cap V) \ L) <= emitted
          /\ K \cap V # {} => emitted + Cardinality(L) <= Cardinality(K \cup V)
      BY <2>4, <2>5, <2>11 DEF CountInv
    <3>2. Cardinality((K \cap W) \ M) <= emitted
      BY <2>8, <2>10, <3>1
    <3>3. K \cap W # {} => emitted + Cardinality(M) <= Cardinality(K \cup W)
      BY <2>9, <2>10, <3>1
    <3> QED
      BY <3>2, <3>3
  <2>12. ASSUME r_pc = "copy", ~failed
         PROVE  /\ Cardinality(K \cap W) <= MaxRows + skip
                /\ skip > 0 /\ K \cap W # {} => MaxRows + skip <= Cardinality(K \cup W)
    <3>1. /\ Cardinality(K \cap V) <= MaxRows + skip
          /\ skip > 0 /\ K \cap V # {} => MaxRows + skip <= Cardinality(K \cup V)
      BY <2>4, <2>12 DEF CountInv
    <3>2. Cardinality(K \cap W) <= MaxRows + skip
      BY <1>0, <2>7, <2>10, <3>1
    <3>3. skip > 0 /\ K \cap W # {} => MaxRows + skip <= Cardinality(K \cup W)
      BY <1>0, <2>9, <2>10, <3>1
    <3> QED
      BY <3>2, <3>3
  <2> QED
    BY <2>2, <2>4, <2>5, <2>11, <2>12 DEF CountInv
<1> QED
  BY <1>1, <1>2

\* CountInv holds when a sector has been counted.
LEMMA CountSectorStep ==
  ASSUME SeenInv, CountInv, CountSector, UNCHANGED vars
  PROVE  CountInv'
<1>0. PlaceInv /\ LogInv /\ ReadersTypeOK /\ NoRepeats /\ IsPast(known)
  BY DEF SeenInv, ReadInv, PlaceInv
<1> SUFFICES ASSUME ~failed' PROVE CountInv'
  BY DEF CountInv
<1>1. PICK R : R = ToSet(SectorRecords(Head(sectors)))
  OBVIOUS
<1>2. PICK n : n = Len(SectorRecords(Head(sectors)))
  OBVIOUS
<1>3. /\ r_pc = "counting" /\ r_pc' = "counting" /\ emitted' = emitted + n /\ ~failed
      /\ sectors # <<>> /\ sectors' = Tail(sectors) /\ known' = known
  BY <1>2 DEF CountSector
<1>4. PICK K, V : K = known /\ V = VisibleIds
  OBVIOUS
<1>5. PICK L, M : L = Left /\ M = Left'
  OBVIOUS
<1>6. /\ L = M \cup R /\ M \cap R = {} /\ VisibleIds' = V
      /\ IsFiniteSet(R) /\ Cardinality(R) = n
  BY <1>0, <1>1, <1>2, <1>3, <1>4, <1>5, LeftTail
<1>7. IsFiniteSet(K) /\ IsFiniteSet(V) /\ L \in SUBSET V
  <2>1. L \in SUBSET V
    BY <1>4, <1>5 DEF Left
  <2> QED
    BY <1>0, <1>4, <2>1, VisibleFinite, PastFinite DEF VisibleIsFinite
<1>8. /\ Cardinality((K \cap V) \ M) <= Cardinality((K \cap V) \ L) + n
      /\ Cardinality((K \cap V) \ M) \in Nat /\ Cardinality((K \cap V) \ L) \in Nat /\ n \in Nat
  <2>1. PICK S, T : S = (K \cap V) \ M /\ T = (K \cap V) \ L
    OBVIOUS
  <2>2. S \in SUBSET (T \cup R)
    BY <1>6, <2>1
  <2>3. IsFiniteSet(T)
    BY <1>7, <2>1, FS_Subset
  <2>4. /\ Cardinality(S) \in Nat /\ Cardinality(T) \in Nat /\ Cardinality(R) \in Nat
        /\ Cardinality(S) <= Cardinality(T) + Cardinality(R)
    BY <1>6, <2>2, <2>3, CoverSize
  <2>5. Cardinality(R) = n
    BY <1>6
  <2> QED
    BY <2>1, <2>4, <2>5
<1>9. /\ Cardinality(L) = Cardinality(M) + n
      /\ Cardinality(L) \in Nat /\ Cardinality(M) \in Nat
  <2>1. IsFiniteSet(L)
    BY <1>7, FS_Subset
  <2>2. R = L \ M /\ M \in SUBSET L
    BY <1>6
  <2>3. /\ Cardinality(M) \in Nat /\ Cardinality(L) \in Nat
        /\ Cardinality(L) = Cardinality(M) + Cardinality(R)
    BY <2>1, <2>2, PartSize
  <2>4. Cardinality(R) = n
    BY <1>6
  <2> QED
    BY <2>3, <2>4
<1>10. emitted \in Nat
  BY <1>0 DEF ReadersTypeOK
<1>11. /\ Cardinality((K \cap V) \ L) <= emitted
       /\ K \cap V # {} => emitted + Cardinality(L) <= Cardinality(K \cup V)
  BY <1>3, <1>4, <1>5 DEF CountInv
<1>12. Cardinality((K \cap V) \ M) <= emitted + n
  BY <1>8, <1>10, <1>11
<1>13. emitted + Cardinality(L) = emitted + n + Cardinality(M)
  BY <1>8, <1>9, <1>10
<1> QED
  BY <1>3, <1>4, <1>5, <1>6, <1>11, <1>12, <1>13 DEF CountInv

\* Of n records, those that are not skipped are at most MaxRows, and MaxRows if
\* any are skipped.
LEMMA ToSkipIs ==
  ASSUME NEW n \in Nat
  PROVE  /\ ToSkip(n) \in Nat /\ n <= MaxRows + ToSkip(n)
         /\ ToSkip(n) > 0 => MaxRows + ToSkip(n) = n
BY MaxRowsAssumption DEF ToSkip

\* What that says of numbers around n.
LEMMA SkipLeaves ==
  ASSUME NEW n \in Nat, NEW z, z = ToSkip(n), NEW a \in Nat, a <= n, NEW b
  PROVE  /\ z \in Nat /\ a <= MaxRows + z
         /\ z > 0 /\ n <= b => MaxRows + z <= b
<1>1. /\ z \in Nat /\ n <= MaxRows + z /\ MaxRows \in Nat
      /\ z > 0 => MaxRows + z = n
  BY ToSkipIs, MaxRowsAssumption
<1>2. a <= MaxRows + z
  BY <1>1
<1>3. ASSUME z > 0, n <= b PROVE MaxRows + z <= b
  BY <1>1, <1>3
<1> QED
  BY <1>1, <1>2, <1>3

\* CountInv holds when the counting is over.
LEMMA CountedStep ==
  ASSUME SeenInv, CountInv, Counted, UNCHANGED vars
  PROVE  CountInv'
<1>0. /\ PlaceInv /\ LogInv /\ emitted \in Nat /\ VisibleIds' = VisibleIds
      /\ MaxRows \in Nat
  BY SameLog, MaxRowsAssumption DEF SeenInv, ReadInv, PlaceInv, ReadersTypeOK
<1> SUFFICES ASSUME ~failed' PROVE CountInv'
  BY DEF CountInv
<1>1. /\ r_pc = "counting" /\ sectors = <<>> /\ skip' = ToSkip(emitted) /\ ~failed
      /\ r_pc' = "copy" /\ known' = known
  BY DEF Counted
<1>2. PICK K, V : K = known /\ V = VisibleIds
  OBVIOUS
<1>3. Left = {}
  BY <1>1 DEF Left, LeftId
<1>4. /\ Cardinality((K \cap V) \ {}) <= emitted
      /\ K \cap V # {} => emitted + Cardinality({}) <= Cardinality(K \cup V)
  BY <1>1, <1>2, <1>3 DEF CountInv
<1>5. /\ Cardinality(K \cap V) <= emitted
      /\ K \cap V # {} => emitted <= Cardinality(K \cup V)
  <2>1. (K \cap V) \ {} = K \cap V
    OBVIOUS
  <2>2. Cardinality((K \cap V) \ {}) = Cardinality(K \cap V)
    BY <2>1, Zenon
  <2>3. emitted + Cardinality({}) = emitted
    BY <1>0, FS_EmptySet
  <2> QED
    BY <1>4, <2>2, <2>3
<1>6. Cardinality(K \cap V) \in Nat
  <2>1. K \cap V \in SUBSET V
    OBVIOUS
  <2> QED
    BY <1>0, <1>2, <2>1, VisibleFinite DEF VisibleIsFinite
<1>7. PICK n, z, a, b : /\ n = emitted /\ z = skip' /\ a = Cardinality(K \cap V)
                        /\ b = Cardinality(K \cup V)
  OBVIOUS
<1>8. a \in Nat /\ n \in Nat /\ z = ToSkip(n) /\ a <= n /\ (K \cap V # {} => n <= b)
  BY <1>0, <1>1, <1>5, <1>6, <1>7
<1>9. a <= MaxRows + z /\ (z > 0 /\ K \cap V # {} => MaxRows + z <= b)
  <2>1. a <= MaxRows + z
    BY <1>8, SkipLeaves
  <2>2. z > 0 /\ n <= b => MaxRows + z <= b
    BY <1>8, SkipLeaves
  <2> QED
    BY <1>8, <2>1, <2>2
<1>10. /\ Cardinality(K \cap V) <= MaxRows + skip'
       /\ skip' > 0 /\ K \cap V # {} => MaxRows + skip' <= Cardinality(K \cup V)
  BY <1>7, <1>9
<1> QED
  BY <1>0, <1>1, <1>2, <1>10 DEF CountInv

\* CountInv holds after the other steps of a reader.
LEMMA CountReader ==
  ASSUME SeenInv, CountInv, [ReadersNext]_allvars, ~Writer(Next)
  PROVE  CountInv'
<1>0. /\ PlaceInv /\ LogInv /\ ReadersTypeOK /\ UNCHANGED vars /\ MaxRows \in Nat
      /\ emitted \in Nat /\ VisibleIds' = VisibleIds
  BY LogOrReader, SameLog, MaxRowsAssumption
     DEF SeenInv, ReadInv, PlaceInv, ReadersTypeOK, allvars
<1>1. CASE r_pc' \notin {"counting", "copy"}
  BY <1>1 DEF CountInv
<1>2. CASE ListToCount
  <2> SUFFICES ASSUME ~failed' PROVE CountInv'
    BY <1>2, ListedOnce DEF CountInv, ListToCount
  <2>1. /\ r_pc = "count" /\ r_pc' = "counting" /\ known' = VisibleIds /\ emitted' = emitted
        /\ sectors' \in SectorLists({s \in Sectors : hdr[s] # NoHeader})
    BY <1>2, ListedOnce DEF ListToCount
  <2>2. emitted = 0
    BY <2>1 DEF SeenInv
  <2>3. PICK V : V = VisibleIds
    OBVIOUS
  <2>4. Left' = V /\ VisibleIds' = V
    BY <1>0, <2>1, <2>3, LeftList
  <2>5. Cardinality(V) \in Nat
    BY <1>0, <2>3, VisibleFinite DEF VisibleIsFinite
  <2>6. (V \cap V) \ V = {} /\ V \cup V = V
    OBVIOUS
  <2>7. Cardinality((V \cap V) \ V) = 0
    BY <2>6, FS_EmptySet
  <2>8. Cardinality((V \cap V) \ V) <= emitted /\ emitted + Cardinality(V) <= Cardinality(V \cup V)
    BY <2>2, <2>5, <2>6, <2>7
  <2> QED
    BY <2>1, <2>3, <2>4, <2>8 DEF CountInv
<1>3. CASE CountSector
  BY <1>0, <1>3, CountSectorStep
<1>4. CASE Counted
  BY <1>0, <1>4, CountedStep
<1>5. CASE UNCHANGED allvars
  <2>1. /\ Left' = Left /\ r_pc' = r_pc /\ failed' = failed /\ known' = known
        /\ emitted' = emitted /\ skip' = skip
    BY <1>0, <1>5, SameLog DEF allvars, reader
  <2> QED
    BY <1>0, <2>1 DEF CountInv
<1>6. CASE Request \/ ListToCopy \/ CopySector \/ SkipUnreadable \/ Copied \/ Answer
  <2>1. r_pc' \notin {"counting", "copy"}
    BY <1>6 DEF Request, ListToCopy, ListSectors, CopySector, SkipUnreadable, Copied,
                Answer, NoReader
  <2> QED
    BY <1>1, <2>1
<1> QED
  BY <1>2, <1>3, <1>4, <1>5, <1>6 DEF ReadersNext, List, Read

\* Of the records L that are left, R are read, and E was met before.
Reads(L, M, R, E) ==
  IsFiniteSet(L) /\ IsFiniteSet(E) /\ L = M \cup R /\ M \cap R = {} /\ E \cap L = {}

\* That takes those of K from what is left, and adds the others to what was met
\* and is not in K.
ReadSums(K, L, M, R, E) ==
  /\ Cardinality(K \cap L) = Cardinality(K \cap M) + Cardinality(K \cap R)
  /\ Cardinality(R) = Cardinality(K \cap R) + Cardinality(R \ K)
  /\ Cardinality((E \cup R) \ K) = Cardinality(E \ K) + Cardinality(R \ K)
  /\ Cardinality(K \cap M) \in Nat /\ Cardinality(K \cap R) \in Nat
  /\ Cardinality(E \ K) \in Nat /\ Cardinality(R \ K) \in Nat

\* The sums are right.
LEMMA SectorNumbers ==
  ASSUME NEW K, NEW L, NEW M, NEW R, NEW E, Reads(L, M, R, E)
  PROVE  ReadSums(K, L, M, R, E)
<1>0. IsFiniteSet(L) /\ IsFiniteSet(E) /\ L = M \cup R /\ M \cap R = {} /\ E \cap L = {}
  BY DEF Reads
<1>1. PICK A, B : A = K \cap L /\ B = K \cap M
  OBVIOUS
<1>2. IsFiniteSet(A) /\ B \in SUBSET A /\ A \ B = K \cap R
  <2>1. A \in SUBSET L
    BY <1>1
  <2> QED
    BY <1>0, <1>1, <2>1, FS_Subset
<1>3. /\ Cardinality(A) = Cardinality(B) + Cardinality(K \cap R)
      /\ Cardinality(B) \in Nat /\ Cardinality(K \cap R) \in Nat
  <2>1. /\ Cardinality(A) = Cardinality(B) + Cardinality(A \ B)
        /\ Cardinality(B) \in Nat /\ Cardinality(A \ B) \in Nat
    BY <1>2, PartSize
  <2>2. Cardinality(A \ B) = Cardinality(K \cap R)
    BY <1>2, Zenon
  <2> QED
    BY <2>1, <2>2
<1>4. PICK C : C = K \cap R
  OBVIOUS
<1>5. IsFiniteSet(R) /\ C \in SUBSET R /\ R \ C = R \ K
  <2>1. R \in SUBSET L
    BY <1>0
  <2> QED
    BY <1>0, <1>4, <2>1, FS_Subset
<1>6. /\ Cardinality(R) = Cardinality(C) + Cardinality(R \ K)
      /\ Cardinality(C) \in Nat /\ Cardinality(R \ K) \in Nat
  <2>1. /\ Cardinality(R) = Cardinality(C) + Cardinality(R \ C)
        /\ Cardinality(C) \in Nat /\ Cardinality(R \ C) \in Nat
    BY <1>5, PartSize
  <2>2. Cardinality(R \ C) = Cardinality(R \ K)
    BY <1>5, Zenon
  <2> QED
    BY <2>1, <2>2
<1>7. PICK F, G : F = (E \cup R) \ K /\ G = E \ K
  OBVIOUS
<1>8. IsFiniteSet(F) /\ G \in SUBSET F /\ F \ G = R \ K
  <2>1. IsFiniteSet(E \cup R)
    BY <1>0, <1>5, FS_Union
  <2>2. F \in SUBSET (E \cup R)
    BY <1>7
  <2> QED
    BY <1>0, <1>7, <2>1, <2>2, FS_Subset
<1>9. /\ Cardinality(F) = Cardinality(G) + Cardinality(R \ K)
      /\ Cardinality(G) \in Nat
  <2>1. /\ Cardinality(F) = Cardinality(G) + Cardinality(F \ G)
        /\ Cardinality(G) \in Nat
    BY <1>8, PartSize
  <2>2. Cardinality(F \ G) = Cardinality(R \ K)
    BY <1>8, Zenon
  <2> QED
    BY <2>1, <2>2
<1> QED
  BY <1>1, <1>3, <1>4, <1>6, <1>7, <1>9 DEF ReadSums

\* A reader that has passed nothing on has passed on no excess.
NothingYet == rows = <<>> /\ met = {} /\ r_pc \notin {"copying", "done"}

\* So ExcessInv holds of it.
LEMMA NoExcess == NothingYet => ExcessInv
<1> SUFFICES ASSUME NothingYet PROVE ExcessInv
  OBVIOUS
<1>1. met \ known = {}
  BY DEF NothingYet
<1>2. Cardinality(met \ known) = 0
  BY <1>1, FS_EmptySet
<1>3. Len(rows) = 0 /\ MaxRows \in Nat
  BY MaxRowsAssumption DEF NothingYet
<1>4. Len(rows) <= MaxRows + Cardinality(met \ known)
  BY <1>2, <1>3
<1> QED
  BY <1>4 DEF NothingYet, ExcessInv, ExcessIsNew

\* ExcessInv holds after a step of the log.
LEMMA ExcessWriter ==
  ASSUME SeenInv, ExcessInv, "ghost" \notin Tears, ReadsFail = FALSE, Writer(Next)
  PROVE  ExcessInv'
<1>1. CASE pc' = "boot"
  <2>1. NothingYet'
    BY <1>1 DEF Writer, NoReader, NothingYet
  <2>2. (NothingYet => ExcessInv)'
    BY NoExcess, PTL
  <2> QED
    BY <2>1, <2>2
<1>2. CASE pc' # "boot"
  <2>1. UNCHANGED reader
    BY <1>2 DEF Writer
  <2>2. /\ r_pc' = r_pc /\ failed' = failed /\ rows' = rows /\ skip' = skip
        /\ met' = met /\ sectors' = sectors /\ known' = known
    BY <2>1 DEF reader
  <2>3. ExcessIsNew'
    BY <2>2 DEF ExcessInv, ExcessIsNew
  <2>4. kind' = kind /\ old' = old /\ known \cap VisibleIds' \subseteq known \cap VisibleIds
    BY <2>1, <2>2, KnownShrinks DEF Writer, reader
  <2> QED
    BY <2>2, <2>3, <2>4 DEF ExcessInv
<1> QED
  BY <1>1, <1>2

\* ExcessInv holds when the sectors are listed for the second time.
LEMMA ExcessList ==
  ASSUME SeenInv, CountInv, ListToCopy, UNCHANGED vars
  PROVE  ExcessInv'
<1>0. PlaceInv /\ LogInv /\ ReadersTypeOK /\ Waiting
  BY DEF SeenInv, ReadInv, PlaceInv
<1>1. /\ r_pc = "copy" /\ r_pc' = "copying" /\ rows' = rows /\ skip' = skip
      /\ known' = known /\ met' = met
      /\ ~failed' => /\ ~failed
                     /\ sectors' \in SectorLists({s \in Sectors : hdr[s] # NoHeader})
  BY ListedOnce DEF ListToCopy
<1>2. rows = <<>> /\ met = {}
  BY <1>0, <1>1 DEF Waiting
<1>3. MaxRows \in Nat /\ skip \in Nat /\ Len(<<>>) = 0
  BY <1>0, MaxRowsAssumption DEF ReadersTypeOK
<1>4. Cardinality({} \ known) = 0
  <2>1. {} \ known = {}
    OBVIOUS
  <2> QED
    BY <2>1, FS_EmptySet
<1>5. ExcessIsNew'
  <2>1. Len(<<>>) <= MaxRows + Cardinality({} \ known)
    BY <1>3, <1>4
  <2> QED
    BY <1>1, <1>2, <2>1 DEF ExcessIsNew
<1>6. ASSUME ~failed'
      PROVE  Len(<<>>) + Cardinality((known \cap VisibleIds) \ {})
               <= MaxRows + skip + Cardinality({} \ known)
  <2>1. PICK c : c = Cardinality(known \cap VisibleIds)
    OBVIOUS
  <2>2. c <= MaxRows + skip
    BY <1>1, <1>6, <2>1 DEF CountInv
  <2>3. c \in Nat
    <3>1. known \cap VisibleIds \in SUBSET VisibleIds
      OBVIOUS
    <3> QED
      BY <1>0, <2>1, <3>1, VisibleFinite DEF VisibleIsFinite
  <2>4. (known \cap VisibleIds) \ {} = known \cap VisibleIds
    OBVIOUS
  <2>5. Cardinality((known \cap VisibleIds) \ {}) = c
    BY <2>1, <2>4, Zenon
  <2> QED
    BY <1>3, <1>4, <2>2, <2>3, <2>5
<1>7. old' = VisibleIds /\ VisibleIds' = VisibleIds /\ MaxRows > 0
  BY SameLog, MaxRowsAssumption DEF ListToCopy
<1> QED
  BY <1>1, <1>2, <1>3, <1>5, <1>6, <1>7 DEF ExcessInv

\* What passing on the records of a sector does to the numbers of ExcessInv: ln
\* rows are passed on and ln1 thereafter, s records are to be skipped before, the
\* first d + t of the n in the sector are skipped or passed on, kn of them known
\* and nn not, and a records known and listed are not come to.
LEMMA ExcessNumbers ==
  ASSUME NEW ln \in Nat, NEW ln1 \in Nat, NEW s \in Nat, NEW n \in Nat, NEW d \in Nat,
         NEW t \in Nat, NEW kn \in Nat, NEW nn \in Nat, NEW m \in Nat, NEW a \in Nat,
         d <= n, d <= s, d = s \/ d = n, t <= n - d, d + t = kn + nn,
         ln1 = ln + t, s > 0 => ln = 0, ln + (a + kn) <= MaxRows + s + m
  PROVE  /\ s - d > 0 => ln1 = 0
         /\ ln1 + a <= MaxRows + (s - d) + (m + nn)
         /\ ln1 <= MaxRows + (m + nn)
<1>0. MaxRows \in Nat
  BY MaxRowsAssumption
<1>1. ASSUME s - d > 0 PROVE ln1 = 0
  BY <1>1
<1>2. ln1 + a <= MaxRows + (s - d) + (m + nn)
  BY <1>0
<1>3. ln1 <= MaxRows + (m + nn)
  BY <1>0, <1>1, <1>2
<1> QED
  BY <1>1, <1>2, <1>3

\* What reading a sector does to the sets of ExcessInv: of the records P, known and
\* listed, those in R are met, and E was met before.
MetSums(K, P, R, E, a, kn, nn, m) ==
  /\ Cardinality(P \ E) = a + kn /\ Cardinality(P \ (E \cup R)) = a
  /\ Cardinality(R) = kn + nn
  /\ Cardinality(E \ K) = m /\ Cardinality((E \cup R) \ K) = m + nn

\* There are such numbers.
LEMMA MetNumbers ==
  ASSUME NEW K, NEW P, NEW R, NEW E, IsFiniteSet(K), IsFiniteSet(R), IsFiniteSet(E),
         P \subseteq K, R \cap K \subseteq P, E \cap R = {}
  PROVE  \E a, kn, nn, m \in Nat : MetSums(K, P, R, E, a, kn, nn, m)
<1>1. PICK M, L : M = P \ (E \cup R) /\ L = M \cup R
  OBVIOUS
<1>2. M \in SUBSET K /\ M \cap R = {} /\ E \cap L = {}
  BY <1>1
<1>3. Reads(L, M, R, E)
  <2>1. IsFiniteSet(M)
    BY <1>2, FS_Subset
  <2>2. IsFiniteSet(L)
    BY <1>1, <2>1, FS_Union
  <2> QED
    BY <1>1, <1>2, <2>2 DEF Reads
<1>4. ReadSums(K, L, M, R, E)
  BY <1>3, SectorNumbers
<1>5. K \cap L = P \ E /\ K \cap M = P \ (E \cup R)
  BY <1>1
<1>6. PICK a, kn, nn, m : /\ a = Cardinality(K \cap M) /\ kn = Cardinality(K \cap R)
                          /\ nn = Cardinality(R \ K) /\ m = Cardinality(E \ K)
  OBVIOUS
<1>7. /\ a \in Nat /\ kn \in Nat /\ nn \in Nat /\ m \in Nat
      /\ Cardinality(K \cap L) = a + kn /\ Cardinality(R) = kn + nn
      /\ Cardinality((E \cup R) \ K) = m + nn
  BY <1>4, <1>6 DEF ReadSums
<1>8. Cardinality(P \ E) = a + kn /\ Cardinality(P \ (E \cup R)) = a
  <2>1. Cardinality(P \ E) = Cardinality(K \cap L)
    BY <1>5, Zenon
  <2>2. Cardinality(P \ (E \cup R)) = Cardinality(K \cap M)
    BY <1>5, Zenon
  <2> QED
    BY <1>6, <1>7, <2>1, <2>2
<1>9. MetSums(K, P, R, E, a, kn, nn, m)
  BY <1>6, <1>7, <1>8 DEF MetSums
<1> QED
  BY <1>7, <1>9

\* ExcessInv holds when a sector has been passed on.
LEMMA ExcessCopy ==
  ASSUME SeenInv, ExcessInv, CopySector, UNCHANGED vars
  PROVE  ExcessInv'
<1>0. /\ PlaceInv /\ LogInv /\ TypeOK /\ ReadersTypeOK /\ met \cap Left = {}
      /\ VisibleIds' = VisibleIds
  BY SameLog DEF SeenInv, ReadInv, PlaceInv, LogInv, OrderInv, NumberingInv
<1>1. /\ sectors # <<>> /\ r_pc = "copying" /\ known' = known /\ old' = old
      /\ kind' = kind /\ failed' = failed /\ skip \in Nat /\ MaxRows \in Nat
  BY <1>0, MaxRowsAssumption DEF CopySector, ReadersTypeOK
<1>2. PICK d, t : Passes(d, t)
  BY <1>0, <1>1, CopySectorPasses
<1>3. PICK recs : recs = SectorRecords(Head(sectors))
  OBVIOUS
<1>4. PICK ln, ln1, n : ln = Len(rows) /\ ln1 = Len(rows') /\ n = Len(recs)
  OBVIOUS
<1>5. PICK R : R = {recs[i] : i \in 1 .. d + t}
  OBVIOUS
<1>6. /\ d \in Nat /\ t \in Int /\ d <= n /\ d <= skip /\ (d = skip \/ d = n) /\ t <= n - d
      /\ skip' = skip - d /\ met' = met \cup R
      /\ \/ /\ r_pc' = "copying" /\ t = n - d
            /\ kind = "get_records" => t < MaxRows - ln
         \/ r_pc' = "done" /\ kind = "get_records" /\ t = MaxRows - ln
  BY <1>1, <1>2, <1>3, <1>4, <1>5 DEF Passes
<1>7. n \in Nat /\ ln \in Nat /\ ln1 \in Nat /\ ln1 = ln + (IF t > 0 THEN t ELSE 0)
  <2>1. n \in Nat
    BY <1>0, <1>1, <1>3, <1>4, HeadSector, SectorRecordsAre
  <2> QED
    BY <1>0, <1>1, <1>2, <1>3, <1>4, <2>1, PassedRows
<1>8. kind = "get_records" => ln < MaxRows
  BY <1>1, <1>4 DEF ExcessInv
<1>9. t \in Nat /\ d + t \in Nat /\ d + t <= n /\ ln1 = ln + t
  BY <1>1, <1>6, <1>7, <1>8
<1>10. r_pc' = "copying" /\ kind' = "get_records" => ln1 < MaxRows
  BY <1>1, <1>6, <1>7, <1>9
<1> SUFFICES ASSUME ~failed
             PROVE  /\ known' \cap VisibleIds' \subseteq old'
                    /\ skip' > 0 => rows' = <<>>
                    /\ Len(rows') + Cardinality((known' \cap old') \ met')
                         <= MaxRows + skip' + Cardinality(met' \ known')
                    /\ Len(rows') <= MaxRows + Cardinality(met' \ known')
  BY <1>1, <1>4, <1>6, <1>10 DEF ExcessInv, ExcessIsNew
<1>11. /\ known \cap VisibleIds \subseteq old
       /\ skip > 0 => rows = <<>>
       /\ Len(rows) + Cardinality((known \cap old) \ met)
            <= MaxRows + skip + Cardinality(met \ known)
  BY <1>1 DEF ExcessInv
<1>12. R \subseteq Left /\ IsFiniteSet(R) /\ Cardinality(R) = d + t
  BY <1>0, <1>1, <1>3, <1>4, <1>5, <1>9, FirstRecords
<1>13. PICK K, P, E : K = known /\ P = known \cap old /\ E = met
  OBVIOUS
<1>14. P \subseteq K /\ R \cap K \subseteq P /\ E \cap R = {}
  BY <1>0, <1>11, <1>12, <1>13 DEF Left
<1>15. IsFiniteSet(K) /\ IsFiniteSet(E)
  BY <1>0, <1>13, PastFinite DEF SeenInv
<1>16. PICK a \in Nat, kn \in Nat, nn \in Nat, m \in Nat : MetSums(K, P, R, E, a, kn, nn, m)
  BY <1>12, <1>14, <1>15, MetNumbers
<1>17. skip > 0 => ln = 0
  BY <1>4, <1>11
<1>18. ln + (a + kn) <= MaxRows + skip + m /\ d + t = kn + nn
  BY <1>4, <1>11, <1>12, <1>13, <1>16 DEF MetSums
<1>19. /\ skip - d > 0 => ln1 = 0
       /\ ln1 + a <= MaxRows + (skip - d) + (m + nn)
       /\ ln1 <= MaxRows + (m + nn)
  BY <1>1, <1>6, <1>7, <1>9, <1>16, <1>17, <1>18, ExcessNumbers
<1>20. (known' \cap old') \ met' = P \ (E \cup R) /\ met' \ known' = (E \cup R) \ K
  BY <1>1, <1>6, <1>13
<1>21. Cardinality((known' \cap old') \ met') = a /\ Cardinality(met' \ known') = m + nn
  <2>1. Cardinality(P \ (E \cup R)) = a /\ Cardinality((E \cup R) \ K) = m + nn
    BY <1>16 DEF MetSums
  <2> QED
    BY <1>20, <2>1, Zenon
<1>22. skip' > 0 => rows' = <<>>
  <2>1. rows' \in Seq(Nat)
    BY <1>0, ReadersTypeStep DEF ReadersTypeOK, ReadersNext, Read
  <2> QED
    BY <1>4, <1>6, <1>19, <2>1, EmptySeq
<1> QED
  BY <1>0, <1>1, <1>4, <1>6, <1>11, <1>19, <1>21, <1>22

\* ExcessInv holds after the other steps of a reader.
LEMMA ExcessRest ==
  ASSUME SeenInv, ExcessInv, UNCHANGED vars, [ReadersNext]_allvars,
         ~ListToCopy, ~CopySector, ~Writer(Next)
  PROVE  ExcessInv'
<1>0. (NothingYet => ExcessInv)'
  BY NoExcess, PTL
<1>1. CASE Request \/ ListToCount \/ CountSector \/ Counted
  <2>1. /\ rows' = rows /\ met' = met /\ r_pc' \in {"count", "counting", "copy"}
        /\ r_pc \in {"none", "count", "counting"}
    BY <1>1 DEF Request, ListToCount, ListSectors, CountSector, Counted
  <2>2. NothingYet'
    BY <2>1 DEF NothingYet, SeenInv, ReadInv, Waiting
  <2> QED
    BY <1>0, <2>2
<1>2. CASE Answer
  <2>1. NothingYet'
    BY <1>2 DEF Answer, NoReader, NothingYet
  <2> QED
    BY <1>0, <2>1
<1>3. CASE SkipUnreadable
  BY <1>3 DEF SkipUnreadable, ExcessInv, ExcessIsNew
<1>4. CASE Copied \/ UNCHANGED allvars
  <2>1. /\ rows' = rows /\ met' = met /\ known' = known /\ old' = old /\ skip' = skip
        /\ kind' = kind /\ VisibleIds' = VisibleIds
    BY <1>4, SameLog DEF Copied, allvars, reader
  <2>2. /\ ~failed' => ~failed
        /\ r_pc' = r_pc \/ (r_pc' = "done" /\ (~failed' => r_pc = "copying"))
    BY <1>4 DEF Copied, allvars, reader
  <2> QED
    BY <2>1, <2>2 DEF ExcessInv, ExcessIsNew
<1> QED
  BY <1>1, <1>2, <1>3, <1>4 DEF ReadersNext, List, Read

\* The invariant about the number of records passed on.
NumberInv == SeenInv /\ CountInv /\ ExcessInv

\* NumberInv is inductive.
LEMMA NumberInvStep ==
  ASSUME NumberInv, "ghost" \notin Tears, ReadsFail = FALSE, [ReadersNext]_allvars
  PROVE  NumberInv'
<1>1. CASE Writer(Next)
  BY <1>1, SeenWriter, CountWriter, ExcessWriter DEF NumberInv
<1>2. CASE ~Writer(Next)
  <2>1. UNCHANGED vars
    BY <1>2, LogOrReader DEF allvars
  <2>2. SeenInv' /\ CountInv'
    BY <1>2, SeenReader, CountReader DEF NumberInv
  <2>3. ExcessInv'
    BY <1>2, <2>1, ExcessList, ExcessCopy, ExcessRest DEF NumberInv
  <2> QED
    BY <2>2, <2>3 DEF NumberInv
<1> QED
  BY <1>1, <1>2

\* NumberInv holds before the first request.
LEMMA NumberInit == ReadersInit /\ ReadInv => NumberInv
<1> SUFFICES ASSUME ReadersInit, ReadInv PROVE NumberInv
  OBVIOUS
<1>1. NothingYet /\ r_pc = "none" /\ known = {} /\ met = {} /\ emitted = 0 /\ sectors = <<>>
  BY DEF ReadersInit, ReaderInit, NothingYet
<1>2. ~s_ready
  BY DEF ReadersInit, Init
<1>3. SeenInv
  BY <1>1, <1>2 DEF SeenInv, ReadyFull, NoRepeats, IsPast
<1>4. CountInv /\ ExcessInv
  BY <1>1, NoExcess DEF CountInv
<1> QED
  BY <1>3, <1>4 DEF NumberInv

\* NumberInv holds in every reachable state.
LEMMA NumberInvariant ==
  ASSUME "ghost" \notin Tears, ReadsFail = FALSE PROVE ReadersSpec => []NumberInv
<1>1. ReadersInit /\ ReadInv => NumberInv
  BY NumberInit
<1>2. NumberInv /\ [ReadersNext]_allvars => NumberInv'
  BY NumberInvStep
<1>3. ReadersSpec => []ReadInv
  BY ReadInvariant
<1> QED
  BY <1>1, <1>2, <1>3, PTL DEF ReadersSpec

\* More than MaxRows records are passed on only for as many that were written
\* after the counting began, or because the counting failed, although sectors are
\* erased and written again between the two iterations and during each of them.
THEOREM ExcessIsWritten ==
  ASSUME "ghost" \notin Tears, ReadsFail = FALSE PROVE ReadersSpec => []ExcessIsNew
<1>1. NumberInv => ExcessIsNew
  BY DEF NumberInv, ExcessInv
<1> QED
  BY <1>1, NumberInvariant, PTL

-----------------------------------------------------------------------------
(***************************************************************************)
(* The newest.  What the skip leaves out is older than MaxRows records of  *)
(* those known or listed, less those that were erased in between: the      *)
(* sectors come in order, so of the records that are not newer each was    *)
(* skipped or met before, or was erased.                                   *)
(***************************************************************************)
\* The samples known or listed are finitely many numbers.
LEMMA SeenFinite ==
  ASSUME SeenInv, NEW S, S = known \cup old
  PROVE  S \in SUBSET Nat /\ IsFiniteSet(S)
<1>1. LogInv /\ IsPast(known) /\ IsPast(old)
  BY DEF SeenInv, ReadInv, PlaceInv
<1>2. IsFiniteSet(known) /\ IsFiniteSet(old) /\ known \in SUBSET Nat /\ old \in SUBSET Nat
  BY <1>1, PastFinite
<1> QED
  BY <1>2, FS_Union

\* NewestInv holds after a step of the log: it does not make a record of old
\* readable, so no record is less outdated.
LEMMA NewestWriter ==
  ASSUME SeenInv, NewestInv, "ghost" \notin Tears, ReadsFail = FALSE, Writer(Next)
  PROVE  NewestInv'
<1>0. PlaceInv /\ LogInv /\ ReadersTypeOK /\ IsPast(known) /\ IsPast(old) /\ [Next]_vars
  BY DEF SeenInv, ReadInv, PlaceInv, Writer
<1> SUFFICES ASSUME r_pc' \in {"copying", "done"}, ~failed' PROVE NewestInv'
  BY DEF NewestInv
<1>1. UNCHANGED reader
  BY DEF Writer, NoReader
<1>2. /\ r_pc \in {"copying", "done"} /\ ~failed /\ r_pc' = r_pc /\ kind' = kind
      /\ known' = known /\ old' = old /\ met' = met
      /\ skip' = skip /\ rows' = rows /\ sectors' = sectors
  BY <1>1 DEF reader
<1>3. \A y \in known \cup old : y \in VisibleIds' => y \in VisibleIds /\ (y \in Left' <=> y \in Left)
  BY <1>0, <1>2, LeftWriter
<1>4. /\ r_pc = "done" => sectors = <<>>
      /\ old \cap VisibleIds \subseteq Left \cup met \/ Filled
      /\ skip > 0 /\ known \cap VisibleIds # {} =>
           MaxRows + skip + Cardinality(met) <= Cardinality(known \cup old)
      /\ \A x \in (known \cap VisibleIds \cap met) \ ToSet(rows) : Outdated(x)
  BY <1>2 DEF NewestInv
<1>5. /\ old \cap VisibleIds' \subseteq Left' \cup met \/ Filled'
      /\ known \cap VisibleIds' # {} => known \cap VisibleIds # {}
  <2>1. Filled => Filled'
    BY <1>2 DEF Filled
  <2> QED
    BY <1>3, <1>4, <2>1
<1>6. ASSUME NEW x, Outdated(x) PROVE Outdated(x)'
  <2>1. PICK S, V, W : S = known \cup old /\ V = VisibleIds /\ W = VisibleIds'
    OBVIOUS
  <2>2. PICK A, B : A = S \ V /\ B = S \ W
    OBVIOUS
  <2>3. IsFiniteSet(S) /\ A \in SUBSET B /\ B \in SUBSET S
    BY <1>3, <2>1, <2>2, SeenFinite
  <2>4. IsFiniteSet(B)
    BY <2>3, FS_Subset
  <2>5. Cardinality(A) \in Nat /\ Cardinality(B) \in Nat /\ Cardinality(A) <= Cardinality(B)
    BY <2>3, <2>4, PartSize
  <2>6. PICK N : N = {y \in S : y > x}
    OBVIOUS
  <2>7. Cardinality(N) \in Nat
    <3>1. N \in SUBSET S
      BY <2>6
    <3> QED
      BY <2>3, <3>1, PartSize
  <2>8. Cardinality(N) + Cardinality(A) >= MaxRows
    BY <1>6, <2>1, <2>2, <2>6 DEF Outdated
  <2>9. Cardinality(N) + Cardinality(B) >= MaxRows
    BY <2>5, <2>7, <2>8, MaxRowsAssumption
  <2>10. S = known' \cup old'
    BY <1>2, <2>1
  <2> QED
    BY <2>1, <2>2, <2>6, <2>9, <2>10 DEF Outdated
<1>7. \A x \in (known \cap VisibleIds' \cap met) \ ToSet(rows) : Outdated(x)'
  BY <1>3, <1>4, <1>6
<1>8. /\ known' = known /\ old' = old /\ met' = met /\ skip' = skip /\ ToSet(rows') = ToSet(rows)
      /\ r_pc' = r_pc /\ sectors' = sectors
  BY <1>2
<1> QED
  BY <1>4, <1>5, <1>7, <1>8 DEF NewestInv

\* NewestInv holds when the sectors are listed for the second time.
LEMMA NewestList ==
  ASSUME SeenInv, CountInv, ListToCopy, UNCHANGED vars
  PROVE  NewestInv'
<1>0. PlaceInv /\ LogInv /\ ReadersTypeOK /\ Waiting /\ VisibleIds' = VisibleIds
  BY SameLog DEF SeenInv, ReadInv, PlaceInv
<1> SUFFICES ASSUME ~failed' PROVE NewestInv'
  BY DEF NewestInv
<1>1. /\ r_pc = "copy" /\ r_pc' = "copying" /\ skip' = skip /\ ~failed
      /\ known' = known /\ met' = met /\ old' = VisibleIds
      /\ sectors' \in SectorLists({s \in Sectors : hdr[s] # NoHeader})
  BY ListedOnce DEF ListToCopy
<1>2. met = {}
  BY <1>0, <1>1 DEF Waiting
<1>3. Left' = VisibleIds
  BY <1>0, <1>1, LeftList
<1>4. MaxRows \in Nat /\ skip \in Nat /\ Cardinality({}) = 0
  BY <1>0, MaxRowsAssumption, FS_EmptySet DEF ReadersTypeOK
<1>5. ASSUME skip > 0, known \cap VisibleIds # {}
      PROVE  MaxRows + skip + Cardinality({}) <= Cardinality(known \cup VisibleIds)
  <2>1. MaxRows + skip <= Cardinality(known \cup VisibleIds)
    BY <1>1, <1>5 DEF CountInv
  <2>2. MaxRows + skip + Cardinality({}) = MaxRows + skip
    BY <1>4
  <2> QED
    BY <2>1, <2>2
<1>6. skip' > 0 /\ known' \cap VisibleIds' # {} =>
        MaxRows + skip' + Cardinality(met') <= Cardinality(known' \cup old')
  BY <1>0, <1>1, <1>2, <1>5
<1>7. old' \cap VisibleIds' \subseteq Left' \cup met' /\ met' = {} /\ r_pc' # "done"
  BY <1>0, <1>1, <1>2, <1>3
<1> QED
  BY <1>6, <1>7 DEF NewestInv

\* A record that is skipped is outdated.
LEMMA SkippedIsOutdated ==
  ASSUME SeenInv, ExcessInv, NewestInv, r_pc = "copying", ~failed, sectors # <<>>,
         NEW recs, recs = SectorRecords(Head(sectors)),
         NEW i \in 1 .. Len(recs), i <= skip, recs[i] \in known \cap VisibleIds
  PROVE  Outdated(recs[i])
<1>0. /\ PlaceInv /\ LogInv /\ TypeOK /\ ReadersTypeOK /\ ListInOrder /\ IsPast(met)
      /\ skip \in Nat /\ MaxRows \in Nat
  BY MaxRowsAssumption
     DEF SeenInv, ReadInv, PlaceInv, LogInv, OrderInv, NumberingInv, ReadersTypeOK
<1>1. PICK s : s = Head(sectors)
  OBVIOUS
<1>2. /\ s \in Sectors /\ s = sectors[1] /\ Len(sectors) \in Nat /\ 1 \in 1 .. Len(sectors)
  BY <1>1, HeadSector, <1>0
<1>3. /\ \A j \in 1 .. Len(recs) :
           j - 1 \in Slots /\ Stored(s, j - 1) /\ recs[j] = slot[s][j - 1].id
      /\ Len(recs) \in Nat
      /\ \A k \in Slots : Reached(s, k) => k + 1 \in 1 .. Len(recs)
  <2>1. recs = SectorRecords(s)
    BY <1>1
  <2>2. \A j \in 1 .. Len(recs) :
          j - 1 \in Slots /\ Stored(s, j - 1) /\ recs[j] = slot[s][j - 1].id
    BY <1>0, <1>2, <2>1, SectorRecordsStored
  <2>3. /\ Len(recs) \in Nat
        /\ \A k \in Slots : Reached(s, k) => k + 1 \in 1 .. Len(recs)
    BY <1>0, <1>2, <2>1, SectorRecordsAre
  <2> QED
    BY <2>2, <2>3
<1>4. PICK x : x = recs[i]
  OBVIOUS
<1>5. PICK S, V, M, G : /\ S = known \cup old /\ V = VisibleIds /\ M = met
                        /\ G = {recs[j] : j \in 1 .. i}
  OBVIOUS
<1>6. S \in SUBSET Nat /\ IsFiniteSet(S) /\ x \in S /\ x \in Nat
  <2>1. S \in SUBSET Nat /\ IsFiniteSet(S)
    BY <1>5, SeenFinite
  <2>2. x \in S
    BY <1>4, <1>5
  <2> QED
    BY <2>1, <2>2
<1>7. PICK N, O : N = {y \in S : y > x} /\ O = {y \in S : y <= x}
  OBVIOUS
<1>8. O \in SUBSET ((S \ V) \cup (M \cup G))
  <2> SUFFICES ASSUME NEW y \in S, y <= x, y \in V, y \notin M PROVE y \in G
    BY <1>7
  <2>1. /\ known \cap VisibleIds \subseteq old
        /\ old \cap VisibleIds \subseteq Left \cup met
    BY DEF ExcessInv, NewestInv, Filled
  <2>2. y \in old /\ x \in old
    BY <1>4, <1>5, <2>1
  <2>3. y \in Left
    BY <1>5, <2>1, <2>2
  <2>4. PICK j \in 1 .. Len(sectors), k \in Slots :
          Stored(sectors[j], k) /\ slot[sectors[j]][k].id = y
    BY <2>3 DEF Left, LeftId
  <2>5. i - 1 \in Slots /\ Stored(s, i - 1) /\ x = slot[s][i - 1].id
    BY <1>3, <1>4
  <2>6. CASE j = 1
    <3>1. Stored(s, k) /\ slot[s][k].id = y
      BY <1>2, <2>4, <2>6
    <3>2. Visible(s, k)
      BY <1>0, <1>2, <3>1, VisibleStored DEF LogInv, OrderInv
    <3>3. k + 1 \in 1 .. Len(recs)
      BY <1>3, <3>2 DEF Visible, Reached
    <3>4. PICK l \in 1 .. Len(recs) : l = k + 1 /\ l - 1 = k
      BY <3>3 DEF Slots
    <3>5. recs[l] = y
      BY <1>3, <3>1, <3>4
    <3>6. ~(i - 1 < k)
      <4>1. ASSUME i - 1 < k PROVE x < y
        BY <1>0, <1>2, <2>5, <3>1, <4>1, StoredInOrder
      <4> QED
        BY <1>6, <4>1
    <3>7. l \in 1 .. i
      BY <1>3, <3>4, <3>6 DEF Slots
    <3> QED
      BY <1>5, <3>5, <3>7
  <2>7. CASE j # 1
    <3>1. 1 < j
      BY <2>7
    <3>2. x < y
      BY <1>0, <1>2, <2>2, <2>4, <2>5, <3>1 DEF ListInOrder
    <3> QED
      BY <1>6, <3>2
  <2> QED
    BY <2>6, <2>7
<1>9. Cardinality(S) = Cardinality(N) + Cardinality(O) /\ Cardinality(N) \in Nat
  <2>1. N \in SUBSET S /\ S \ N = O
    <3>1. \A y \in S : y <= x <=> ~(y > x)
      BY <1>6
    <3> QED
      BY <1>7, <3>1
  <2>2. /\ Cardinality(S) = Cardinality(N) + Cardinality(S \ N)
        /\ Cardinality(N) \in Nat
    BY <1>6, <2>1, PartSize
  <2>3. Cardinality(S \ N) = Cardinality(O)
    BY <2>1, Zenon
  <2> QED
    BY <2>2, <2>3
<1>10. IsFiniteSet(G) /\ Cardinality(G) <= i /\ Cardinality(G) \in Nat /\ i \in Nat
  <2>1. PICK n, D : n \in Nat /\ n = i /\ D = 1 .. n
    OBVIOUS
  <2>2. IsFiniteSet(D) /\ Cardinality(D) = n
    BY <2>1, FS_Interval
  <2>3. PICK f : f = [j \in D |-> recs[j]]
    OBVIOUS
  <2>4. f \in [D -> G] /\ \A y \in G : \E j \in D : f[j] = y
    BY <1>5, <2>1, <2>3
  <2>5. f \in Surjection(D, G)
    BY <2>4 DEF Surjection
  <2>6. IsFiniteSet(G) /\ Cardinality(G) <= Cardinality(D)
    BY <2>2, <2>5, FS_Surjection
  <2>7. Cardinality(G) \in Nat
    BY <2>6, FS_CardinalityType
  <2> QED
    BY <2>1, <2>2, <2>6, <2>7
<1>11. IsFiniteSet(M)
  BY <1>0, <1>5, PastFinite
<1>12. PICK E, F : E = S \ V /\ F = M \cup G
  OBVIOUS
<1>13. IsFiniteSet(E) /\ IsFiniteSet(F)
  BY <1>6, <1>10, <1>11, <1>12, FS_Union, FS_Difference
<1>14. /\ Cardinality(O) <= Cardinality(E) + Cardinality(F)
       /\ Cardinality(O) \in Nat /\ Cardinality(E) \in Nat /\ Cardinality(F) \in Nat
  BY <1>8, <1>12, <1>13, CoverSize
<1>15. Cardinality(F) <= Cardinality(M) + Cardinality(G) /\ Cardinality(M) \in Nat
  <2>1. F \in SUBSET (M \cup G)
    BY <1>12
  <2> QED
    BY <1>10, <1>11, <2>1, CoverSize
<1>16. MaxRows + skip + Cardinality(M) <= Cardinality(S)
  <2>1. skip > 0 /\ known \cap VisibleIds # {}
    BY <1>0, <1>10
  <2> QED
    BY <1>5, <2>1 DEF NewestInv
<1>17. Cardinality(N) + Cardinality(E) >= MaxRows
  BY <1>0, <1>9, <1>10, <1>14, <1>15, <1>16
<1> QED
  BY <1>4, <1>5, <1>7, <1>12, <1>17 DEF Outdated

\* What the rows are when a sector is read: those before stay, and of the records
\* of the sector the t behind the d that are skipped are among them.
LEMMA PassedOn ==
  ASSUME TypeOK, ReadersTypeOK, sectors # <<>>, NEW d, NEW t, Passes(d, t),
         NEW recs, recs = SectorRecords(Head(sectors))
  PROVE  /\ ToSet(rows) \subseteq ToSet(rows')
         /\ \A i \in 1 .. d + t : i > d => recs[i] \in ToSet(rows')
<1>1. /\ Len(rows) \in Nat /\ Len(rows') \in Nat /\ d \in Nat
      /\ Len(rows') = Len(rows) + (IF t > 0 THEN t ELSE 0)
      /\ \A n \in 1 .. Len(rows') :
           \/ n <= Len(rows) /\ rows'[n] = rows[n]
           \/ /\ n > Len(rows) /\ rows'[n] = recs[d + n - Len(rows)]
              /\ d + n - Len(rows) \in 1 .. Len(recs)
  BY PassedRows
<1>2. t \in Int
  BY DEF Passes
<1>3. ASSUME NEW n \in 1 .. Len(rows) PROVE rows[n] \in ToSet(rows')
  <2>1. n \in 1 .. Len(rows')
    BY <1>1, <1>2
  <2>2. rows'[n] = rows[n]
    BY <1>1, <2>1
  <2> QED
    BY <2>1, <2>2 DEF ToSet
<1>4. ASSUME NEW i \in 1 .. d + t, i > d PROVE recs[i] \in ToSet(rows')
  <2>0. /\ i \in Nat /\ Len(rows) + i - d \in Nat /\ Len(rows) + i - d > Len(rows)
        /\ d + (Len(rows) + i - d) - Len(rows) = i
    BY <1>1, <1>2, <1>4
  <2>1. PICK n \in Nat : n = Len(rows) + i - d /\ n > Len(rows) /\ d + n - Len(rows) = i
    BY <2>0
  <2>2. n \in 1 .. Len(rows')
    BY <1>1, <1>2, <1>4, <2>1
  <2>3. rows'[n] = recs[i]
    BY <1>1, <2>1, <2>2
  <2> QED
    BY <2>2, <2>3 DEF ToSet
<1> QED
  BY <1>3, <1>4 DEF ToSet

\* NewestInv holds when a sector has been passed on.
LEMMA NewestCopy ==
  ASSUME SeenInv, ExcessInv, NewestInv, CopySector, UNCHANGED vars
  PROVE  NewestInv'
<1>0. /\ PlaceInv /\ LogInv /\ TypeOK /\ ReadersTypeOK /\ NoRepeats /\ IsPast(met)
      /\ VisibleIds' = VisibleIds
  BY SameLog DEF SeenInv, ReadInv, PlaceInv, LogInv, OrderInv, NumberingInv
<1> SUFFICES ASSUME ~failed' PROVE NewestInv'
  BY DEF NewestInv
<1>1. /\ sectors # <<>> /\ r_pc = "copying" /\ ~failed /\ known' = known /\ old' = old
      /\ kind' = kind /\ skip \in Nat /\ MaxRows \in Nat
  BY <1>0, MaxRowsAssumption DEF CopySector, ReadersTypeOK
<1>2. PICK d, t : Passes(d, t)
  BY <1>0, <1>1, CopySectorPasses
<1>3. PICK recs : recs = SectorRecords(Head(sectors))
  OBVIOUS
<1>4. PICK n, R : n = Len(recs) /\ R = {recs[i] : i \in 1 .. d + t}
  OBVIOUS
<1>5. /\ d \in Nat /\ t \in Int /\ d <= n /\ d <= skip /\ (d = skip \/ d = n) /\ t <= n - d
      /\ skip' = skip - d /\ met' = met \cup R
      /\ \/ sectors' = Tail(sectors) /\ r_pc' = "copying" /\ t = n - d
         \/ /\ sectors' = <<>> /\ r_pc' = "done" /\ kind = "get_records"
            /\ t = MaxRows - Len(rows)
  BY <1>1, <1>2, <1>3, <1>4 DEF Passes
<1>6. n \in Nat /\ t \in Nat /\ Len(rows) \in Nat /\ Len(rows') = Len(rows) + t
  <2>1. n \in Nat
    BY <1>0, <1>1, <1>3, <1>4, HeadSector, SectorRecordsAre
  <2>2. Len(rows) \in Nat /\ Len(rows') = Len(rows) + (IF t > 0 THEN t ELSE 0)
    BY <1>0, <1>1, <1>2, <1>3, PassedRows
  <2>3. kind = "get_records" => Len(rows) < MaxRows
    BY <1>1 DEF ExcessInv
  <2> QED
    BY <1>1, <1>5, <2>1, <2>2, <2>3
<1>7. d + t \in Nat /\ d + t <= n
  BY <1>5, <1>6
<1>8. IsFiniteSet(R) /\ Cardinality(R) = d + t
  BY <1>0, <1>1, <1>3, <1>4, <1>7, FirstRecords
<1>9. /\ old \cap VisibleIds \subseteq Left \cup met
      /\ skip > 0 /\ known \cap VisibleIds # {} =>
           MaxRows + skip + Cardinality(met) <= Cardinality(known \cup old)
      /\ \A x \in (known \cap VisibleIds \cap met) \ ToSet(rows) : Outdated(x)
  BY <1>1 DEF NewestInv, Filled
<1>10. old \cap VisibleIds \subseteq Left' \cup met' \/ Filled'
  <2>1. CASE sectors' = Tail(sectors) /\ t = n - d
    <3>1. Left = Left' \cup ToSet(recs)
      BY <1>0, <1>1, <1>3, <2>1, LeftTail
    <3>2. ToSet(recs) = R
      BY <1>4, <1>5, <1>6, <2>1 DEF ToSet
    <3> QED
      BY <1>5, <1>9, <3>1, <3>2
  <2>2. CASE r_pc' = "done" /\ kind = "get_records" /\ t = MaxRows - Len(rows)
    BY <1>1, <1>6, <2>2 DEF Filled
  <2> QED
    BY <1>5, <2>1, <2>2
<1>11. ASSUME skip' > 0, known \cap VisibleIds # {}
       PROVE  MaxRows + skip' + Cardinality(met') <= Cardinality(known \cup old)
  <2>1. PICK E, F, S : E = met /\ F = met' /\ S = known \cup old
    OBVIOUS
  <2>2. IsFiniteSet(E) /\ F \in SUBSET (E \cup R)
    BY <1>0, <1>5, <2>1, PastFinite
  <2>3. /\ Cardinality(F) <= Cardinality(E) + (d + t)
        /\ Cardinality(F) \in Nat /\ Cardinality(E) \in Nat
    BY <1>8, <2>2, CoverSize
  <2>4. Cardinality(S) \in Nat
    <3>1. IsFiniteSet(S)
      BY <2>1, SeenFinite
    <3> QED
      BY <3>1, FS_CardinalityType
  <2>5. PICK z : z = skip'
    OBVIOUS
  <2>6. z = skip - (d + t) /\ skip > 0
    BY <1>1, <1>5, <1>6, <1>11, <2>5
  <2>7. MaxRows + skip + Cardinality(E) <= Cardinality(S)
    BY <1>9, <1>11, <2>1, <2>6
  <2>8. MaxRows + z + Cardinality(F) <= Cardinality(S)
    BY <1>1, <1>7, <2>3, <2>4, <2>6, <2>7
  <2> QED
    BY <2>1, <2>5, <2>8
<1>12. /\ ToSet(rows) \subseteq ToSet(rows')
       /\ \A i \in 1 .. d + t : i > d => recs[i] \in ToSet(rows')
  BY <1>0, <1>1, <1>2, <1>3, PassedOn
<1>13. ASSUME NEW x \in (known \cap VisibleIds \cap met') \ ToSet(rows') PROVE Outdated(x)
  <2>1. CASE x \in met
    BY <1>9, <1>12, <2>1
  <2>2. CASE x \in R
    <3>1. PICK i \in 1 .. d + t : x = recs[i]
      BY <1>4, <2>2
    <3>2. ~(i > d)
      BY <1>12, <3>1
    <3>3. i \in 1 .. Len(recs) /\ i <= skip
      BY <1>1, <1>4, <1>5, <1>6, <1>7, <3>2
    <3> QED
      BY <1>1, <1>3, <3>1, <3>3, SkippedIsOutdated
  <2> QED
    BY <1>5, <2>1, <2>2
<1>14. \A x : Outdated(x) => Outdated(x)'
  BY <1>0, <1>1 DEF Outdated
<1>15. r_pc' = "done" => sectors' = <<>>
  BY <1>5
<1> QED
  BY <1>0, <1>1, <1>10, <1>11, <1>13, <1>14, <1>15 DEF NewestInv

\* NewestInv holds after the other steps of a reader.
LEMMA NewestRest ==
  ASSUME SeenInv, NewestInv, UNCHANGED vars, [ReadersNext]_allvars,
         ~ListToCopy, ~CopySector, ~Writer(Next)
  PROVE  NewestInv'
<1>1. CASE Request \/ ListToCount \/ CountSector \/ Counted \/ Answer
  <2>1. r_pc' \notin {"copying", "done"}
    BY <1>1 DEF Request, ListToCount, ListSectors, CountSector, Counted, Answer, NoReader
  <2> QED
    BY <2>1 DEF NewestInv
<1>2. CASE SkipUnreadable
  BY <1>2 DEF SkipUnreadable, NewestInv
<1>3. CASE Copied \/ UNCHANGED allvars
  <2>1. /\ rows' = rows /\ met' = met /\ known' = known /\ old' = old /\ kind' = kind
        /\ sectors' = sectors /\ skip' = skip /\ Left' = Left /\ VisibleIds' = VisibleIds
    BY <1>3, SameLog DEF Copied, allvars, reader
  <2>2. /\ ~failed' => ~failed
        /\ \/ r_pc' = r_pc
           \/ r_pc' = "done" /\ (~failed' => r_pc = "copying" /\ sectors = <<>>)
    BY <1>3 DEF Copied, allvars, reader
  <2>3. Filled => r_pc = "done" /\ (r_pc' = "done" => Filled')
    BY <2>1 DEF Filled
  <2>4. \A x : Outdated(x) => Outdated(x)'
    BY <2>1 DEF Outdated
  <2> SUFFICES ASSUME r_pc' \in {"copying", "done"}, ~failed' PROVE NewestInv'
    BY DEF NewestInv
  <2>5. /\ r_pc = "done" => sectors = <<>>
        /\ old \cap VisibleIds \subseteq Left \cup met \/ Filled
        /\ skip > 0 /\ known \cap VisibleIds # {} =>
             MaxRows + skip + Cardinality(met) <= Cardinality(known \cup old)
        /\ \A x \in (known \cap VisibleIds \cap met) \ ToSet(rows) : Outdated(x)
    BY <2>2 DEF NewestInv
  <2>6. old \cap VisibleIds \subseteq Left \cup met \/ Filled'
    BY <2>2, <2>3, <2>5
  <2> QED
    BY <2>1, <2>2, <2>4, <2>5, <2>6 DEF NewestInv
<1> QED
  BY <1>1, <1>2, <1>3 DEF ReadersNext, List, Read

\* NewestInv holds in every reachable state.
LEMMA NewestInvariant ==
  ASSUME "ghost" \notin Tears, ReadsFail = FALSE PROVE ReadersSpec => []NewestInv
<1>1. ReadersInit => NewestInv
  BY DEF ReadersInit, ReaderInit, NewestInv
<1>2. NumberInv /\ NewestInv /\ [ReadersNext]_allvars => NewestInv'
  <2> SUFFICES ASSUME NumberInv, NewestInv, [ReadersNext]_allvars PROVE NewestInv'
    OBVIOUS
  <2>1. SeenInv /\ CountInv /\ ExcessInv
    BY DEF NumberInv
  <2>2. CASE Writer(Next)
    BY <2>1, <2>2, NewestWriter
  <2>3. CASE ~Writer(Next)
    <3>1. UNCHANGED vars
      BY <2>3, LogOrReader DEF allvars
    <3> QED
      BY <2>1, <2>3, <3>1, NewestList, NewestCopy, NewestRest
  <2> QED
    BY <2>2, <2>3
<1>3. ReadersSpec => []NumberInv
  BY NumberInvariant
<1> QED
  BY <1>1, <1>2, <1>3, PTL DEF ReadersSpec

\* An answer has the newest records, unless an allocation or a read failed.  One
\* that stayed on flash from the first count to the end is left out only if it was
\* skipped for MaxRows newer ones, less those that were erased in between, or if
\* get_records filled its array before it came to it, with at least as many records
\* of sectors that were erased and written again meanwhile.
THEOREM NewestArePassedOn ==
  ASSUME "ghost" \notin Tears, ReadsFail = FALSE PROVE ReadersSpec => []NewestRows
<1>1. NumberInv /\ NewestInv => NewestRows
  <2> SUFFICES ASSUME NumberInv, NewestInv, r_pc = "done", ~failed,
                      NEW x \in (known \cap VisibleIds) \ ToSet(rows)
               PROVE  IF x \in met THEN Outdated(x) ELSE Displaced
    BY DEF NewestRows
  <2>1. CASE x \in met
    BY <2>1 DEF NewestInv
  <2>2. CASE x \notin met
    <3>1. Left = {}
      BY DEF NewestInv, Left, LeftId
    <3>2. x \in old
      BY DEF NumberInv, ExcessInv
    <3>3. Filled
      BY <2>2, <3>1, <3>2 DEF NewestInv
    <3>4. LogInv /\ IsPast(known) /\ IsPast(met) /\ skip \in Nat /\ MaxRows \in Nat \ {0}
      BY MaxRowsAssumption DEF NumberInv, SeenInv, ReadInv, PlaceInv, ReadersTypeOK
    <3>5. PICK a, m : /\ a = Cardinality((known \cap old) \ met)
                      /\ m = Cardinality(met \ known)
      OBVIOUS
    <3>6. a \in Nat /\ m \in Nat
      <4>1. (known \cap old) \ met \in SUBSET known /\ met \ known \in SUBSET met
        OBVIOUS
      <4> QED
        BY <3>4, <3>5, <4>1, PastFinite
    <3>7. /\ skip > 0 => rows = <<>>
          /\ Len(rows) + a <= MaxRows + skip + m
      BY <3>5 DEF NumberInv, ExcessInv
    <3>8. skip = 0
      <4>1. rows = <<>> => Len(rows) = 0
        OBVIOUS
      <4> QED
        BY <3>3, <3>4, <3>7, <4>1 DEF Filled
    <3>9. a <= m
      BY <3>3, <3>4, <3>6, <3>7, <3>8 DEF Filled
    <3> QED
      BY <2>2, <3>3, <3>5, <3>9 DEF Filled, Displaced
  <2> QED
    BY <2>1, <2>2
<1> QED
  BY <1>1, NumberInvariant, NewestInvariant, PTL
=============================================================================
