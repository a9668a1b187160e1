----------------------- MODULE NtcHistoryOrderProofs ------------------------
(***************************************************************************)
(* The order of the log: the records that can be read are in the order in  *)
(* which they were sampled, and an erase takes the oldest of them.  For    *)
(* every size of the partition, of a sector and of the RAM buffer, any     *)
(* number of samples, flash errors and power losses, and torn records.     *)
(*                                                                         *)
(* The sector sequence numbers are not simply increasing along the ring.   *)
(* A power loss that tears the first record of a sector makes the next     *)
(* boot close it with nothing in it, and its successor gets the same       *)
(* number: twins.  The boot scan then resumes in the first of the twins,   *)
(* which is the empty one, closes it again and erases the other.  So the   *)
(* invariant says where twins can be, and what is in them, and that the    *)
(* sector that is erased next makes up for what the boot scan missed.      *)
(***************************************************************************)
EXTENDS NtcHistoryProofs

Stored(s, k) == hdr[s] # NoHeader /\ record_is_valid(slot[s][k])

\* The first record of a sector is torn; then the sector holds no record.
Torn0(s) == slot[s][0].st = "torn"

\* The cursor stands in a sector that has room, or the log goes on, or starts,
\* with another sector: Target.
Open == s_ready /\ s_cur_slot < RecordsPerSector
Closed == pc # "boot" /\ ~Open
Target == IF s_ready THEN NextSector(s_cur_sector) ELSE next
Others == Sectors \ {Target}

NextMatches == s_ready /\ pc \in {"erase", "header"} => next = Target

\* The numbers of a sector's records end before the next sector's begin.
RangesApart ==
  \A s, t \in Sectors, k \in Slots :
    Stored(s, k) /\ hdr[s] < hdr[t] => hdr[s] + k < hdr[t]

\* Going round the ring from the sector after p up to p, s comes before t.
Older(p, s, t) == (s < t /\ t <= p) \/ (p < s /\ s < t) \/ (t <= p /\ p < s)

Unused(S) == \A t \in S : hdr[t] = NoHeader

\* The ring S of sectors ends in p: no number is higher than its, another sector
\* with the same number holds nothing and lies behind it or directly before it,
\* and the numbers do not fall going round to it.
IsHead(p, S) ==
  /\ p \in S /\ hdr[p] # NoHeader
  /\ \A t \in S : hdr[t] <= hdr[p]
  /\ \A t \in S : t # p /\ hdr[t] = hdr[p] => Torn0(t) /\ (t < p => p = t + 1)
  /\ \A s, t \in S : Older(p, s, t) /\ hdr[s] # NoHeader /\ hdr[t] # NoHeader
                       => hdr[s] <= hdr[t]

Headed == Unused(Sectors) \/ \E p \in Sectors : IsHead(p, Sectors)

OpenInv == Open => IsHead(s_cur_sector, Sectors)

\* The sectors other than Target are in order for the header that Target gets.
ClosedInv ==
  Closed =>
    /\ \/ Unused(Others)
       \/ IsHead(s_cur_sector, Others) /\ Target = NextSector(s_cur_sector)
    /\ \A t \in Others :
         /\ hdr[t] <= s_last_seq + 1
         /\ hdr[t] = s_last_seq + 1 => Torn0(t) /\ (t < Target => Target = t + 1)
         /\ \A k \in Slots : Stored(t, k) => hdr[t] + k <= s_last_seq

\* What is stored in Target is the oldest of the log, or Target is a twin.
OldestNext ==
  Closed => \A k \in Slots : Stored(Target, k) =>
    \/ \A t \in Others : hdr[t] = NoHeader \/ hdr[Target] <= hdr[t]
    \/ s_cur_sector # Target /\ hdr[Target] = hdr[s_cur_sector]

OrderInv ==
  /\ NumberingInv /\ TailInv
  /\ NextMatches /\ RangesApart /\ Headed /\ OpenInv /\ ClosedInv /\ OldestNext

-----------------------------------------------------------------------------
(***************************************************************************)
(* Lemmas about the ring and the operators above.                          *)
(***************************************************************************)
LEMMA NextSectorIs ==
  ASSUME NEW s \in Sectors
  PROVE  /\ NextSector(s) \in Sectors
         /\ NextSector(s) = IF s + 1 = NumSectors THEN 0 ELSE s + 1
BY SectorsAssumption, SMT DEF NextSector, Sectors

\* Leaving out the sector after c, the rings that end in it and in c are the same.
LEMMA OlderNext ==
  ASSUME NEW c \in Sectors, NEW s \in Sectors \ {NextSector(c)},
         NEW t \in Sectors \ {NextSector(c)}
  PROVE  Older(NextSector(c), s, t) <=> Older(c, s, t)
BY NextSectorIs, SectorsAssumption DEF Older, Sectors

\* The sector after c is the first of the ring that ends in c.
LEMMA OlderFirst ==
  ASSUME NEW c \in Sectors, NEW t \in Sectors \ {NextSector(c)}
  PROVE  Older(c, NextSector(c), t)
BY NextSectorIs, SectorsAssumption DEF Older, Sectors

\* No sector comes after the last one.
LEMMA OlderLast == ASSUME NEW p \in Sectors, NEW t \in Sectors PROVE ~Older(p, p, t)
BY DEF Older, Sectors

\* A sector whose first record is torn holds no record, nor does a blank one.
LEMMA StoredNotTorn ==
  ASSUME TailInv, NEW s \in Sectors, NEW k \in Slots, Stored(s, k)
  PROVE  ~Torn0(s)
<1>1. 0 \in Slots /\ (k = 0 \/ 0 < k)
  BY SlotsAssumption DEF Slots
<1>2. slot[s][k].st = "valid" /\ hdr[s] # NoHeader
  BY DEF Stored, record_is_valid
<1>3. k # 0 => slot[s][0].st = "valid"
  BY <1>1, <1>2 DEF TailInv, NoHiddenRecord, record_is_valid
<1> QED
  BY <1>2, <1>3 DEF Torn0

\* A ring keeps its last sector when others are left out of it.
LEMMA HeadOfFewer ==
  ASSUME NEW S, NEW U \in SUBSET S, NEW p \in U, IsHead(p, S) PROVE IsHead(p, U)
BY DEF IsHead

\* A ring keeps its last sector when nothing but that sector's slots change.
LEMMA HeadStays ==
  ASSUME NEW S, NEW p, IsHead(p, S), \A t \in S : hdr'[t] = hdr[t],
         \A t \in S : t # p => slot'[t] = slot[t]
  PROVE  IsHead(p, S)'
BY DEF IsHead, Torn0

-----------------------------------------------------------------------------
(***************************************************************************)
(* Erasing Target and giving it a header.                                  *)
(***************************************************************************)
\* Target, the sector m, is erased, wholly or not, or gets its header, or not.
Renews(m, h, c) ==
  /\ pc \in {"erase", "header"} /\ m = next
  /\ h \in {NoHeader, HeaderSeq} /\ c \in {BlankSlots, GarbageSlots}
  /\ h = NoHeader \/ c = BlankSlots
  /\ hdr' = [hdr EXCEPT ![m] = h] /\ slot' = [slot EXCEPT ![m] = c]

\* The log goes on with the sector that is renewed, which then holds nothing.
LEMMA RenewedTarget ==
  ASSUME OrderInv, NEW m, NEW h, NEW c, Renews(m, h, c)
  PROVE  /\ Closed /\ m = Target /\ m \in Sectors
         /\ hdr'[m] = h
         /\ \A t \in Others : t \in Sectors /\ hdr'[t] = hdr[t] /\ slot'[t] = slot[t]
         /\ \A k \in Slots : ~Stored(m, k)'
         /\ \A t \in Sectors : t = m \/ t \in Others
<1>1. Closed /\ m = Target /\ m \in Sectors
  BY SlotsAssumption
     DEF OrderInv, NumberingInv, LockHolder, TypeOK, NextMatches, Renews, Closed, Open,
         Target
<1>2. hdr'[m] = h /\ slot'[m] = c
  BY <1>1 DEF Renews, OrderInv, NumberingInv, TypeOK
<1>3. \A t \in Others : t \in Sectors /\ hdr'[t] = hdr[t] /\ slot'[t] = slot[t]
  BY <1>1 DEF Renews, OrderInv, NumberingInv, TypeOK, Others
<1>4. \A k \in Slots : ~record_is_valid(c[k])
  BY DEF Renews, BlankSlots, GarbageSlots, Empty, Garbage, record_is_valid
<1>5. \A k \in Slots : ~Stored(m, k)'
  BY <1>2, <1>4 DEF Stored, record_is_valid
<1>6. \A t \in Sectors : t = m \/ t \in Others
  BY <1>1 DEF Others
<1> QED
  BY <1>1, <1>2, <1>3, <1>5, <1>6

\* The numbers of the records stay below the header that Target gets.
LEMMA RenewedRanges ==
  ASSUME OrderInv, NEW m, NEW h, NEW c, Renews(m, h, c) PROVE RangesApart'
<1>1. /\ Closed /\ m = Target /\ m \in Sectors
      /\ hdr'[m] = h
      /\ \A t \in Others : t \in Sectors /\ hdr'[t] = hdr[t] /\ slot'[t] = slot[t]
      /\ \A k \in Slots : ~Stored(m, k)'
      /\ \A t \in Sectors : t = m \/ t \in Others
  BY RenewedTarget
<1> SUFFICES ASSUME NEW s \in Sectors, NEW t \in Sectors, NEW k \in Slots,
                    Stored(s, k)', hdr'[s] < hdr'[t]
             PROVE  hdr'[s] + k < hdr'[t]
  BY DEF RangesApart
<1>2. s \in Others
  BY <1>1
<1>3. Stored(s, k) /\ hdr'[s] = hdr[s] /\ hdr[s] \in Nat /\ k \in Nat
  BY <1>1, <1>2 DEF Stored, record_is_valid, OrderInv, NumberingInv, TypeOK, Slots
<1>4. CASE t \in Others
  BY <1>1, <1>3, <1>4 DEF OrderInv, RangesApart
<1>5. CASE t = m
  <2>1. hdr[s] + k <= s_last_seq /\ s_last_seq \in Nat
    BY <1>1, <1>2, <1>3 DEF OrderInv, ClosedInv, NumberingInv, TypeOK
  <2>2. hdr'[t] = s_last_seq + 1
    BY <1>1, <1>3, <1>5 DEF Renews, HeaderSeq, NoHeader
  <2> QED
    BY <1>3, <2>1, <2>2
<1> QED
  BY <1>1, <1>4, <1>5

\* With its header Target is the new end of the ring.
LEMMA NewHead ==
  ASSUME OrderInv, NEW m, NEW c, Renews(m, HeaderSeq, c)
  PROVE  IsHead(m, Sectors)'
<1>1. /\ Closed /\ m = Target /\ m \in Sectors
      /\ hdr'[m] = s_last_seq + 1
      /\ \A t \in Others : t \in Sectors /\ hdr'[t] = hdr[t] /\ slot'[t] = slot[t]
      /\ \A t \in Sectors : t = m \/ t \in Others
  BY RenewedTarget DEF HeaderSeq
<1>2. /\ s_last_seq + 1 # NoHeader /\ s_last_seq + 1 \in Nat
      /\ s_cur_sector \in Sectors /\ \A t \in Sectors : hdr[t] \in Nat
  BY DEF OrderInv, NumberingInv, TypeOK, NoHeader
<1>3. \A t \in Others :
         /\ hdr[t] <= s_last_seq + 1
         /\ hdr[t] = s_last_seq + 1 => Torn0(t) /\ (t < m => m = t + 1)
  BY <1>1 DEF OrderInv, ClosedInv
<1>4. \A t \in Sectors : hdr'[t] <= hdr'[m]
  BY <1>1, <1>2, <1>3
<1>5. \A t \in Sectors : t # m /\ hdr'[t] = hdr'[m] => Torn0(t)' /\ (t < m => m = t + 1)
  BY <1>1, <1>3 DEF Torn0
<1>6. ASSUME NEW s \in Sectors, NEW t \in Sectors, Older(m, s, t),
             hdr'[s] # NoHeader, hdr'[t] # NoHeader
      PROVE  hdr'[s] <= hdr'[t]
  <2>1. CASE t = m
    BY <1>4, <2>1
  <2>2. CASE s = m
    BY <1>1, <1>6, <2>2, OlderLast
  <2>3. CASE s \in Others /\ t \in Others
    <3>1. hdr'[s] = hdr[s] /\ hdr'[t] = hdr[t]
      BY <1>1, <2>3
    <3>2. PICK d \in Sectors : IsHead(d, Others) /\ m = NextSector(d)
      BY <1>1, <1>2, <1>6, <2>3, <3>1 DEF OrderInv, ClosedInv, Unused
    <3>3. Older(d, s, t)
      BY <1>1, <1>6, <2>3, <3>2, OlderNext DEF Others
    <3> QED
      BY <1>6, <2>3, <3>1, <3>3, <3>2 DEF IsHead
  <2> QED
    BY <1>1, <2>1, <2>2, <2>3
<1> QED
  BY <1>1, <1>2, <1>4, <1>5, <1>6 DEF IsHead

\* Without it, the ring ends where it did.
LEMMA OldHead ==
  ASSUME OrderInv, NEW m, NEW c, Renews(m, NoHeader, c) PROVE Headed'
<1>1. /\ Closed /\ m = Target /\ m \in Sectors
      /\ hdr'[m] = NoHeader
      /\ \A t \in Others : t \in Sectors /\ hdr'[t] = hdr[t] /\ slot'[t] = slot[t]
      /\ \A t \in Sectors : t = m \/ t \in Others
  BY RenewedTarget
<1>2. s_cur_sector \in Sectors /\ \A t \in Sectors : hdr[t] \in Nat
  BY DEF OrderInv, NumberingInv, TypeOK
<1>3. CASE Unused(Others)
  <2>1. Unused(Sectors)'
    BY <1>1, <1>3 DEF Unused
  <2> QED
    BY <2>1 DEF Headed
<1>4. CASE ~Unused(Others)
  <2>1. PICK d \in Sectors : IsHead(d, Others)
    BY <1>1, <1>2, <1>4 DEF OrderInv, ClosedInv
  <2>2. d \in Others /\ hdr'[d] = hdr[d] /\ hdr[d] # NoHeader
    BY <1>1, <2>1 DEF IsHead
  <2>3. \A t \in Sectors : hdr'[t] <= hdr'[d]
    BY <1>1, <1>2, <2>1, <2>2 DEF IsHead, NoHeader
  <2>4. \A t \in Sectors : t # d /\ hdr'[t] = hdr'[d] => Torn0(t)' /\ (t < d => d = t + 1)
    BY <1>1, <2>1, <2>2 DEF IsHead, Torn0
  <2>5. \A s, t \in Sectors : Older(d, s, t) /\ hdr'[s] # NoHeader /\ hdr'[t] # NoHeader
                                => hdr'[s] <= hdr'[t]
    BY <1>1, <2>1 DEF IsHead
  <2>6. IsHead(d, Sectors)'
    BY <2>2, <2>3, <2>4, <2>5 DEF IsHead
  <2> QED
    BY <2>6 DEF Headed
<1> QED
  BY <1>3, <1>4

\* The rest of the log is as it was, so its order is.
LEMMA ClosedFrame ==
  ASSUME OrderInv, Closed, Target' = Target, s_cur_sector' = s_cur_sector,
         s_last_seq' = s_last_seq,
         \A t \in Others : hdr'[t] = hdr[t] /\ slot'[t] = slot[t]
  PROVE  ClosedInv'
<1>1. Others' = Others
  BY DEF Others
<1>2. \/ Unused(Others)
      \/ IsHead(s_cur_sector, Others) /\ Target = NextSector(s_cur_sector)
  BY DEF OrderInv, ClosedInv
<1>3. Unused(Others) => Unused(Others)'
  BY <1>1 DEF Unused
<1>4. ASSUME NEW d, d = s_cur_sector, IsHead(d, Others)
      PROVE  IsHead(s_cur_sector, Others)'
  <2>1. /\ d \in Others /\ hdr'[d] # NoHeader
        /\ \A t \in Others : hdr'[t] <= hdr'[d]
        /\ \A t \in Others : t # d /\ hdr'[t] = hdr'[d] => Torn0(t)' /\ (t < d => d = t + 1)
        /\ \A s, t \in Others : Older(d, s, t) /\ hdr'[s] # NoHeader /\ hdr'[t] # NoHeader
                                  => hdr'[s] <= hdr'[t]
    BY <1>4 DEF IsHead, Torn0
  <2> QED
    BY <1>1, <1>4, <2>1 DEF IsHead
<1>5. NextSector(s_cur_sector)' = NextSector(s_cur_sector)
  BY DEF NextSector
<1>6. \A t \in Others :
        /\ hdr'[t] <= s_last_seq + 1
        /\ hdr'[t] = s_last_seq + 1 => Torn0(t)' /\ (t < Target => Target = t + 1)
        /\ \A k \in Slots : Stored(t, k)' => hdr'[t] + k <= s_last_seq
  BY DEF OrderInv, ClosedInv, Stored, Torn0, record_is_valid
<1> QED
  BY <1>1, <1>2, <1>3, <1>4, <1>5, <1>6 DEF ClosedInv

-----------------------------------------------------------------------------
(***************************************************************************)
(* Writing at the cursor.                                                  *)
(***************************************************************************)
\* Only the last sector of the ring is written, and it stays the last one.
LEMMA WrittenOrder ==
  ASSUME OrderInv, Writing, NEW c, c = s_cur_sector,
         NEW v, AtCursor(v), SetSlot(v), UNCHANGED hdr
  PROVE  /\ Open /\ c \in Sectors
         /\ IsHead(c, Sectors) /\ IsHead(c, Sectors)'
         /\ \A s \in Sectors, k \in Slots : s # c => Stored(s, k)' = Stored(s, k)
         /\ RangesApart'
<1>1. /\ s_cur_slot \in Slots /\ c \in Sectors
      /\ \A s \in Sectors, k \in Slots :
           slot'[s][k] = IF s = c /\ k = s_cur_slot THEN v ELSE slot[s][k]
  BY SetSlotTail DEF OrderInv
<1>2. Open
  BY DEF Writing, Open, OrderInv, NumberingInv, LockHolder
<1>3. IsHead(c, Sectors)
  BY <1>2 DEF OrderInv, OpenInv
<1>4. \A t \in Sectors : hdr'[t] = hdr[t] /\ (t # c => slot'[t] = slot[t])
  BY DEF SetSlot, OrderInv, NumberingInv, TypeOK
<1>5. IsHead(c, Sectors)'
  BY <1>3, <1>4, HeadStays
<1>6. \A s \in Sectors, k \in Slots : s # c => Stored(s, k)' = Stored(s, k)
  BY <1>4 DEF Stored, record_is_valid
<1>7. \A t \in Sectors : hdr[t] \in Nat /\ hdr[t] <= hdr[c]
  BY <1>3 DEF IsHead, OrderInv, NumberingInv, TypeOK
<1>8. RangesApart'
  <2> SUFFICES ASSUME NEW s \in Sectors, NEW t \in Sectors, NEW k \in Slots,
                      Stored(s, k)', hdr'[s] < hdr'[t]
               PROVE  hdr'[s] + k < hdr'[t]
    BY DEF RangesApart
  <2>1. hdr'[s] = hdr[s] /\ hdr'[t] = hdr[t]
    BY <1>4
  <2>2. s # c
    BY <1>1, <1>7, <2>1
  <2>3. Stored(s, k)
    BY <1>6, <2>2
  <2> QED
    BY <2>1, <2>3 DEF OrderInv, RangesApart
<1> QED
  BY <1>1, <1>2, <1>3, <1>5, <1>6, <1>8

\* Filling the last sector leaves the others in order for the next one.
LEMMA FilledOrder ==
  ASSUME OrderInv, "ghost" \notin Tears, WriteRecord, s_cur_slot + 1 = RecordsPerSector
  PROVE  ClosedInv' /\ OldestNext'
<1> DEFINE v == Program(OldSlot, NewRecord)
<1>1. Writing /\ SetSlot(v) /\ UNCHANGED hdr
  BY DEF WriteRecord
<1>2. PICK c : c = s_cur_sector
  OBVIOUS
<1>3. \E w : AtCursor(w) /\ SetSlot(w)
  BY <1>1, WrittenAtCursor DEF OrderInv
<1>4. /\ Open /\ c \in Sectors
      /\ IsHead(c, Sectors) /\ IsHead(c, Sectors)' /\ RangesApart'
      /\ \A s \in Sectors, k \in Slots : s # c => Stored(s, k)' = Stored(s, k)
  BY <1>1, <1>2, <1>3, WrittenOrder
<1>5. /\ s_cur_sector' = c /\ s_ready' /\ s_last_seq' = s_last_seq + 1
      /\ hdr' = hdr
  BY <1>1, <1>2, <1>4 DEF WriteRecord, Open
<1>6. PICK n : n = NextSector(c)
  OBVIOUS
<1>7. n \in Sectors /\ Target' = n /\ Others' = Sectors \ {n}
  BY <1>4, <1>5, <1>6, NextSectorIs DEF Target, Others
<1>8. /\ \A t \in Sectors : hdr[t] \in Nat /\ hdr[t] <= hdr[c]
      /\ hdr[c] # NoHeader /\ hdr[c] \in Nat
  BY <1>4 DEF IsHead, OrderInv, NumberingInv, TypeOK
<1>9. s_last_seq' + 1 = hdr[c] + RecordsPerSector /\ s_last_seq' \in Nat
  <2>1. s_last_seq + 1 = hdr[c] + s_cur_slot
    BY <1>2, <1>4 DEF Open, OrderInv, NumberingInv, CursorNumbering
  <2>2. s_cur_slot \in Nat /\ s_last_seq \in Nat
    BY SlotsAssumption DEF OrderInv, NumberingInv, TypeOK
  <2> QED
    BY <1>5, <1>8, <2>1, <2>2
<1>10. \/ Unused(Others)'
       \/ IsHead(s_cur_sector, Others)' /\ (Target = NextSector(s_cur_sector))'
  <2>1. CASE n = c
    <3>1. c \in Sectors /\ c = IF c + 1 = NumSectors THEN 0 ELSE c + 1
      BY <1>4, <1>6, <2>1, NextSectorIs
    <3>2. \A t \in Sectors : t = c
      BY <3>1, SectorsAssumption DEF Sectors
    <3> QED
      BY <1>7, <2>1, <3>2 DEF Unused
  <2>2. CASE n # c
    <3>1. c \in Sectors \ {n}
      BY <1>4, <2>2
    <3>2. IsHead(c, Sectors \ {n})'
      BY <1>4, <3>1 DEF IsHead
    <3>3. IsHead(s_cur_sector, Others)'
      BY <1>5, <1>7, <3>2 DEF IsHead
    <3>4. (Target = NextSector(s_cur_sector))'
      BY <1>5, <1>6, <1>7 DEF NextSector
    <3> QED
      BY <3>3, <3>4
  <2> QED
    BY <2>1, <2>2
<1>11. ASSUME NEW t \in Sectors, NEW k \in Slots, Stored(t, k)'
       PROVE  hdr[t] + k <= s_last_seq'
  <2>1. k \in Nat /\ k <= RecordsPerSector - 1
    BY SlotsAssumption DEF Slots
  <2>2. CASE t = c
    BY <1>8, <1>9, <2>1, <2>2, SlotsAssumption
  <2>3. CASE t # c
    <3>1. hdr[t] # hdr[c]
      BY <1>4, <1>11, <2>3, StoredNotTorn DEF IsHead, OrderInv
    <3>2. hdr[t] + k < hdr[c]
      BY <1>4, <1>5, <1>8, <1>11, <3>1 DEF RangesApart
    <3> QED
      BY <1>8, <1>9, <2>1, <3>2, SlotsAssumption
  <2> QED
    BY <2>2, <2>3
<1>12. \A t \in Sectors : hdr[t] < s_last_seq' + 1
  BY <1>8, <1>9, SlotsAssumption
<1>13. ClosedInv'
  BY <1>5, <1>7, <1>8, <1>9, <1>10, <1>11, <1>12 DEF ClosedInv
<1>14. \A t \in Sectors \ {n} : hdr[n] # NoHeader => hdr[t] = NoHeader \/ hdr[n] <= hdr[t]
  BY <1>4, <1>6, <1>7, OlderFirst DEF IsHead
<1>15. OldestNext'
  BY <1>5, <1>7, <1>14 DEF OldestNext, Stored
<1> QED
  BY <1>13, <1>15

-----------------------------------------------------------------------------
(***************************************************************************)
(* Finding the end of the log again.                                       *)
(***************************************************************************)
\* A boot that can read everything resumes in b, where the scan stops at n.
Resumes(b, n) ==
  /\ b \in Sectors /\ n \in 0 .. RecordsPerSector
  /\ hdr[b] # NoHeader
  /\ \A s \in Sectors : hdr[s] < hdr[b] \/ (hdr[s] = hdr[b] /\ b <= s)
  /\ \A k \in Slots : k < n => record_is_valid(slot[b][k])
  /\ n \in Slots => ~record_is_valid(slot[b][n])

\* The boot scan finds the last sector of the ring, unless that one has an empty
\* twin in front of it: then it finds the twin.
LEMMA ResumesInHead ==
  ASSUME OrderInv, NEW b, NEW n, Resumes(b, n), NEW p \in Sectors, IsHead(p, Sectors)
  PROVE  b = p \/ (p = NextSector(b) /\ p = b + 1 /\ hdr[p] = hdr[b] /\ Torn0(b))
<1>1. b \in Sectors /\ hdr[b] \in Nat /\ hdr[p] \in Nat
  BY DEF Resumes, OrderInv, NumberingInv, TypeOK
<1>2. hdr[p] = hdr[b] /\ b <= p
  BY <1>1 DEF Resumes, IsHead
<1>3. b # p => Torn0(b) /\ p = b + 1
  BY <1>1, <1>2 DEF IsHead, Sectors
<1>4. p = b + 1 => p = NextSector(b)
  BY <1>1, NextSectorIs, SectorsAssumption DEF Sectors
<1> QED
  BY <1>2, <1>3, <1>4

\* Where the scan stops, the records of the sector end.
LEMMA ScannedRecords ==
  ASSUME OrderInv, NEW b, NEW n, Resumes(b, n), NEW k \in Slots, Stored(b, k)
  PROVE  k < n
<1>1. n \in Nat /\ k \in Nat /\ k < RecordsPerSector
  BY SlotsAssumption DEF Resumes, Slots
<1>2. slot[b][k].st # "empty" /\ record_is_valid(slot[b][k]) /\ b \in Sectors
      /\ hdr[b] # NoHeader
  BY DEF Stored, record_is_valid, Resumes
<1>3. \A j \in Slots : j < k => record_is_valid(slot[b][j])
  BY <1>2 DEF OrderInv, TailInv, NoHiddenRecord
<1> SUFFICES ASSUME n <= k PROVE FALSE
  BY <1>1
<1>4. n \in Slots
  BY <1>1, SlotsAssumption DEF Slots
<1> QED
  BY <1>1, <1>2, <1>3, <1>4 DEF Resumes

\* A sector that is open after the scan is the last one of the ring.
LEMMA ResumedOpen ==
  ASSUME OrderInv, NEW b, NEW n \in Slots, Resumes(b, n), record_is_empty(slot[b][n])
  PROVE  IsHead(b, Sectors)
<1>1. b \in Sectors /\ hdr[b] # NoHeader
  BY DEF Resumes
<1>2. PICK p \in Sectors : IsHead(p, Sectors)
  BY <1>1 DEF OrderInv, Headed, Unused
<1>3. ~Torn0(b)
  <2>1. 0 \in Slots /\ (n = 0 \/ 0 < n)
    BY SlotsAssumption DEF Slots
  <2> QED
    BY <2>1 DEF Resumes, Torn0, record_is_empty, record_is_valid
<1> QED
  BY <1>2, <1>3, ResumesInHead

\* The ring without the sector m after b is in order for the header of m, whose
\* number is one above q, and what m holds can be erased.
ReadyFor(b, q, m) ==
  /\ m \in Sectors
  /\ Unused(Sectors \ {m}) \/ IsHead(b, Sectors \ {m})
  /\ \A t \in Sectors \ {m} :
       /\ hdr[t] <= q + 1
       /\ hdr[t] = q + 1 => Torn0(t) /\ (t < m => m = t + 1)
       /\ \A k \in Slots : Stored(t, k) => hdr[t] + k <= q
  /\ \A k \in Slots : Stored(m, k) =>
       \/ \A t \in Sectors \ {m} : hdr[t] = NoHeader \/ hdr[m] <= hdr[t]
       \/ b # m /\ hdr[m] = hdr[b]

\* The sector after the one in which the scan stops for good is such a sector.
LEMMA ResumedClosed ==
  ASSUME OrderInv, NEW b, NEW n, Resumes(b, n),
         n \in Slots => ~record_is_empty(slot[b][n]),
         NEW m, m = NextSector(b), NEW q \in Nat, q + 1 = hdr[b] + n
  PROVE  ReadyFor(b, q, m)
<1>1. /\ b \in Sectors /\ hdr[b] # NoHeader /\ hdr[b] \in Nat /\ n \in Nat
      /\ \A t \in Sectors : hdr[t] \in Nat /\ hdr[t] <= hdr[b]
      /\ m \in Sectors /\ m = IF b + 1 = NumSectors THEN 0 ELSE b + 1
  <2>1. b \in Sectors /\ hdr[b] # NoHeader /\ n \in Nat
    BY SlotsAssumption DEF Resumes
  <2>2. \A t \in Sectors : hdr[t] \in Nat
    BY DEF OrderInv, NumberingInv, TypeOK
  <2>3. \A t \in Sectors : hdr[t] <= hdr[b]
    BY <2>1, <2>2 DEF Resumes
  <2> QED
    BY <2>1, <2>2, <2>3, NextSectorIs
<1>2. PICK p \in Sectors : IsHead(p, Sectors)
  BY <1>1 DEF OrderInv, Headed, Unused
<1>3. b = p \/ (p = m /\ p = b + 1 /\ hdr[p] = hdr[b] /\ Torn0(b))
  BY <1>2, ResumesInHead
<1>4. n = 0 => Torn0(b)
  <2>1. 0 \in Slots
    BY SlotsAssumption DEF Slots
  <2>2. slot[b][0].st \in {"empty", "valid", "torn"}
    <3>1. slot[b][0].st \in SlotState
      BY <1>1, <2>1 DEF OrderInv, NumberingInv, TypeOK, SlotValue
    <3>2. slot[b][0].st # "ghost"
      BY <1>1, <2>1 DEF OrderInv, TailInv, NoGhost
    <3> QED
      BY <3>1, <3>2 DEF SlotState
  <2> QED
    BY <2>1, <2>2 DEF Resumes, record_is_empty, record_is_valid, Torn0
<1>5. ASSUME NEW t \in Sectors \ {m}, t # b, hdr[t] = hdr[b]
      PROVE  Torn0(t) /\ b < t /\ m <= t
  <2>1. Torn0(t)
    BY <1>2, <1>3, <1>5 DEF IsHead
  <2>2. b < t
    BY <1>1, <1>5 DEF Resumes, Sectors
  <2> QED
    BY <1>1, <1>5, <2>1, <2>2, SectorsAssumption DEF Sectors
<1>6. Unused(Sectors \ {m}) \/ IsHead(b, Sectors \ {m})
  <2>1. CASE m = b
    <3>1. \A t \in Sectors : t = b
      BY <1>1, <2>1, SectorsAssumption DEF Sectors
    <3> QED
      BY <2>1, <3>1 DEF Unused
  <2>2. CASE m # b /\ b = p
    BY <1>1, <1>2, <2>2 DEF IsHead
  <2>3. CASE m # b /\ b # p
    <3>1. ASSUME NEW s \in Sectors \ {m}, NEW t \in Sectors \ {m}, Older(b, s, t)
          PROVE  Older(p, s, t)
      <4>1. b \in Sectors /\ m = NextSector(b) /\ p = NextSector(b)
        BY <1>1, <1>3, <2>3
      <4>2. Older(NextSector(b), s, t)
        BY <3>1, <4>1, OlderNext
      <4> QED
        BY <4>1, <4>2
    <3>2. \A s, t \in Sectors \ {m} :
             Older(b, s, t) /\ hdr[s] # NoHeader /\ hdr[t] # NoHeader
               => hdr[s] <= hdr[t]
      BY <1>2, <3>1 DEF IsHead
    <3>3. \A t \in Sectors \ {m} : t # b /\ hdr[t] = hdr[b]
                                    => Torn0(t) /\ (t < b => b = t + 1)
      BY <1>1, <1>5 DEF Sectors
    <3> QED
      BY <1>1, <2>3, <3>2, <3>3 DEF IsHead
  <2> QED
    BY <2>1, <2>2, <2>3
<1>7. ASSUME NEW t \in Sectors \ {m}
      PROVE  /\ hdr[t] <= q + 1
             /\ hdr[t] = q + 1 => Torn0(t) /\ (t < m => m = t + 1)
  <2>1. hdr[t] <= hdr[b] /\ hdr[t] \in Nat
    BY <1>1
  <2>2. hdr[t] <= q + 1
    BY <1>1, <2>1
  <2>3. ASSUME hdr[t] = q + 1 PROVE Torn0(t) /\ (t < m => m = t + 1)
    <3>1. n = 0 /\ hdr[t] = hdr[b]
      BY <1>1, <2>1, <2>3
    <3>2. CASE t = b
      BY <1>1, <1>4, <3>1, <3>2 DEF Sectors
    <3>3. CASE t # b
      BY <1>1, <1>5, <3>1, <3>3 DEF Sectors
    <3> QED
      BY <3>2, <3>3
  <2> QED
    BY <2>2, <2>3
<1>8. ASSUME NEW t \in Sectors \ {m}, NEW k \in Slots, Stored(t, k)
      PROVE  hdr[t] + k <= q
  <2>1. k \in Nat /\ hdr[t] \in Nat /\ hdr[t] <= hdr[b]
    BY <1>1 DEF Slots
  <2>2. CASE t = b
    BY <1>1, <1>8, <2>1, <2>2, ScannedRecords
  <2>3. CASE t # b
    <3>1. hdr[t] # hdr[b]
      BY <1>5, <1>8, <2>3, StoredNotTorn DEF OrderInv
    <3>2. hdr[t] + k < hdr[b]
      BY <1>1, <1>8, <2>1, <3>1 DEF OrderInv, RangesApart
    <3> QED
      BY <1>1, <2>1, <3>2
  <2> QED
    BY <2>2, <2>3
<1>9. ASSUME NEW k \in Slots, Stored(m, k)
      PROVE  \/ \A t \in Sectors \ {m} : hdr[t] = NoHeader \/ hdr[m] <= hdr[t]
             \/ b # m /\ hdr[m] = hdr[b]
  <2>1. CASE b = p
    BY <1>1, <1>2, <1>9, <2>1, OlderFirst DEF IsHead, Stored
  <2>2. CASE b # p
    BY <1>3, <2>2
  <2> QED
    BY <2>1, <2>2
<1> QED
  BY <1>1, <1>6, <1>7, <1>8, <1>9 DEF ReadyFor

\* Booting finds the end of the ring, or starts a new one.
LEMMA BootOrder ==
  ASSUME OrderInv, Boot, ReadsFail = FALSE
  PROVE  NextMatches' /\ OpenInv' /\ ClosedInv' /\ OldestNext'
<1>1. hdr' = hdr /\ slot' = slot
  BY DEF Boot, flash
<1>2. \/ (\A s \in Sectors : hdr[s] = NoHeader) /\ BootFormat
      \/ \E b \in Sectors : NewestSector(b, Sectors) /\ BootResume(b, Slots)
  BY DEF Boot
<1>3. CASE (\A s \in Sectors : hdr[s] = NoHeader) /\ BootFormat
  <2>1. /\ s_ready' = FALSE /\ s_last_seq' = 0 /\ pc' = "erase"
        /\ Others' \subseteq Sectors /\ Target' = next' /\ next' = 0
    BY <1>3 DEF BootFormat, Others, Target
  <2>2. 0 \in Sectors
    BY SectorsAssumption DEF Sectors
  <2>3. \A t \in Sectors : hdr'[t] = 0 /\ \A k \in Slots : ~Stored(t, k)'
    BY <1>1, <1>3 DEF Stored, NoHeader
  <2>4. NextMatches' /\ OpenInv'
    BY <2>1 DEF NextMatches, OpenInv, Open
  <2>5. ClosedInv'
    <3>1. Unused(Others)'
      BY <2>1, <2>3 DEF Unused, NoHeader
    <3>2. \A t \in Others' : hdr'[t] <= s_last_seq' + 1 /\ hdr'[t] # s_last_seq' + 1
      BY <2>1, <2>3
    <3> QED
      BY <2>1, <2>3, <3>1, <3>2 DEF ClosedInv
  <2>6. OldestNext'
    BY <2>1, <2>2, <2>3 DEF OldestNext
  <2> QED
    BY <2>4, <2>5, <2>6
<1>4. CASE \E b \in Sectors : NewestSector(b, Sectors) /\ BootResume(b, Slots)
  <2>1. PICK b \in Sectors : NewestSector(b, Sectors) /\ BootResume(b, Slots)
    BY <1>4
  <2>2. PICK n \in 0 .. RecordsPerSector :
          /\ ScanStops(b, n, Slots)
          /\ s_cur_sector' = b
          /\ s_cur_slot' = SlotAfterScan(b, n, Slots)
          /\ s_last_seq' \in ScannedSeqs(b, n)
          /\ \A q \in ScannedSeqs(b, n) : q <= s_last_seq'
          /\ IF s_cur_slot' >= RecordsPerSector
               THEN next' = NextSector(b) /\ pc' = "erase" /\ s_ready' = FALSE
               ELSE next' = 0 /\ pc' = "idle" /\ s_ready' = TRUE
    BY <2>1 DEF BootResume
  <2>3. Resumes(b, n)
    BY <2>1, <2>2 DEF Resumes, ScanStops, NewestSector
  <2>4. PICK q : q = s_last_seq'
    OBVIOUS
  <2>5. q + 1 = hdr[b] + n /\ q \in Nat
    BY <2>1, <2>2, <2>3, <2>4, ScanRecoversNumber, ScannedSeqsType
       DEF OrderInv, NumberingInv, Resumes
  <2>6. CASE n \in Slots /\ record_is_empty(slot[b][n])
    <3>1. /\ s_cur_slot' = n /\ s_ready' = TRUE /\ s_cur_slot' < RecordsPerSector
          /\ pc' = "idle"
      BY <2>2, <2>6, SlotsAssumption DEF SlotAfterScan, Slots
    <3>2. IsHead(b, Sectors)
      BY <2>3, <2>6, ResumedOpen
    <3>3. IsHead(b, Sectors)'
      BY <1>1, <3>2, HeadStays
    <3>4. IsHead(s_cur_sector, Sectors)'
      BY <2>2, <3>3 DEF IsHead
    <3> QED
      BY <3>1, <3>4 DEF NextMatches, OpenInv, ClosedInv, OldestNext, Open, Closed
  <2>7. CASE ~(n \in Slots /\ record_is_empty(slot[b][n]))
    <3>1. /\ s_ready' = FALSE /\ next' = NextSector(b) /\ pc' = "erase"
          /\ s_cur_sector' = b
      BY <2>2, <2>7, SlotsAssumption DEF SlotAfterScan
    <3>2. PICK m : m = NextSector(b)
      OBVIOUS
    <3>3. ReadyFor(b, q, m)
      BY <2>3, <2>5, <2>7, <3>2, ResumedClosed
    <3>4. Target' = m /\ Others' = Sectors \ {m} /\ m = NextSector(s_cur_sector')
      BY <3>1, <3>2 DEF Target, Others
    <3>5. \A t \in Sectors : Torn0(t)' = Torn0(t) /\ \A k \in Slots : Stored(t, k)' = Stored(t, k)
      BY <1>1 DEF Torn0, Stored, record_is_valid
    <3>6. Unused(Sectors \ {m})' \/ IsHead(b, Sectors \ {m})'
      BY <1>1, <3>3, HeadStays DEF Unused, ReadyFor
    <3>7. Unused(Others)' \/ (IsHead(s_cur_sector, Others)' /\ (Target = NextSector(s_cur_sector))')
      BY <3>1, <3>4, <3>6 DEF Unused, IsHead, NextSector
    <3>8. \A t \in Others' :
            /\ hdr'[t] <= s_last_seq' + 1
            /\ hdr'[t] = s_last_seq' + 1 => Torn0(t)' /\ (t < Target' => Target' = t + 1)
            /\ \A k \in Slots : Stored(t, k)' => hdr'[t] + k <= s_last_seq'
      BY <1>1, <2>4, <3>3, <3>4, <3>5 DEF ReadyFor
    <3>9. ClosedInv'
      BY <3>7, <3>8 DEF ClosedInv
    <3>10. OldestNext'
      BY <1>1, <3>1, <3>3, <3>4, <3>5 DEF OldestNext, ReadyFor
    <3>11. NextMatches' /\ OpenInv'
      BY <3>1 DEF NextMatches, OpenInv, Open
    <3> QED
      BY <3>9, <3>10, <3>11
  <2> QED
    BY <2>6, <2>7
<1> QED
  BY <1>2, <1>3, <1>4

-----------------------------------------------------------------------------
(***************************************************************************)
(* The invariant is inductive.                                             *)
(***************************************************************************)
\* A step that leaves the flash alone leaves the ring as it is.
LEMMA SameFlash == ASSUME OrderInv, UNCHANGED flash PROVE RangesApart' /\ Headed'
<1>1. hdr' = hdr /\ slot' = slot
  BY DEF flash
<1>2. RangesApart'
  BY <1>1 DEF OrderInv, RangesApart, Stored, record_is_valid
<1>3. \A p \in Sectors : IsHead(p, Sectors) => IsHead(p, Sectors)'
  BY <1>1, HeadStays
<1>4. Headed'
  BY <1>1, <1>3 DEF OrderInv, Headed, Unused
<1> QED
  BY <1>2, <1>4

\* A sector that is renewed leaves the others a ring.
LEMMA RenewedOrder ==
  ASSUME OrderInv, NEW m, NEW h, NEW c, Renews(m, h, c)
  PROVE  RangesApart' /\ Headed'
<1>1. CASE h = HeaderSeq
  <2>1. Renews(m, HeaderSeq, c)
    BY <1>1
  <2> QED
    BY <2>1, NewHead, RenewedRanges, RenewedTarget DEF Headed
<1>2. CASE h = NoHeader
  <2>1. Renews(m, NoHeader, c)
    BY <1>2
  <2> QED
    BY <2>1, OldHead, RenewedRanges
<1> QED
  BY <1>1, <1>2 DEF Renews

\* Erasing, and writing a header, whole or cut short, renews Target.
LEMMA Renewing ==
  ASSUME OrderInv, EraseSector \/ WriteHeader \/ HalfErase \/ HalfHeader
  PROVE  UNCHANGED flash \/ \E m, h, c : Renews(m, h, c)
<1>1. hdr \in [Sectors -> Nat] /\ slot \in [Sectors -> [Slots -> SlotValue]] /\ next \in Sectors
  BY DEF OrderInv, NumberingInv, TypeOK
<1>2. CASE EraseSector
  <2>1. Renews(next, NoHeader, BlankSlots)
    BY <1>2 DEF EraseSector, Renews
  <2> QED
    BY <2>1
<1>3. CASE HalfErase
  <2> SUFFICES ASSUME ~UNCHANGED flash PROVE \E m, h, c : Renews(m, h, c)
    OBVIOUS
  <2>1. PICK c \in {BlankSlots, GarbageSlots} : slot' = [slot EXCEPT ![next] = c]
    BY <1>3 DEF HalfErase
  <2>2. Renews(next, NoHeader, c)
    BY <1>3, <2>1 DEF HalfErase, Renews
  <2> QED
    BY <2>2
<1>4. CASE WriteHeader \/ HalfHeader
  <2>1. slot' = [slot EXCEPT ![next] = BlankSlots]
    BY <1>1, <1>4 DEF WriteHeader, HalfHeader, OrderInv, NumberingInv, LockHolder
  <2>2. PICK h \in {NoHeader, HeaderSeq} : hdr' = [hdr EXCEPT ![next] = h]
    BY <1>4 DEF WriteHeader, HalfHeader
  <2>3. Renews(next, h, BlankSlots)
    BY <1>4, <2>1, <2>2 DEF WriteHeader, HalfHeader, Renews
  <2> QED
    BY <2>3
<1> QED
  BY <1>2, <1>3, <1>4

\* A flash operation that is cut short leaves the sectors a ring.
LEMMA HalfOrder ==
  ASSUME OrderInv, "ghost" \notin Tears, HalfWrite \/ HalfErase \/ HalfHeader
  PROVE  RangesApart' /\ Headed'
<1>1. CASE HalfWrite
  <2>1. PICK v \in Interrupted(OldSlot, NewRecord) : SetSlot(v)
    BY <1>1 DEF HalfWrite
  <2>2. Writing /\ UNCHANGED hdr /\ AtCursor(v)
    BY <1>1, <2>1, WrittenAtCursor DEF HalfWrite, OrderInv
  <2> QED
    BY <2>1, <2>2, WrittenOrder DEF Headed
<1>2. CASE HalfErase \/ HalfHeader
  BY <1>2, Renewing, RenewedOrder, SameFlash
<1> QED
  BY <1>1, <1>2

\* A call that touches neither the flash nor the cursor keeps the order.
LEMMA CallOrder ==
  ASSUME OrderInv, UNCHANGED <<flash, cursor>>, s_ready, pc # "boot", pc' # "boot",
         pc' \in {"erase", "header"} => next' = NextSector(s_cur_sector)
  PROVE  NextMatches' /\ RangesApart' /\ Headed' /\ OpenInv' /\ ClosedInv' /\ OldestNext'
<1>1. /\ hdr' = hdr /\ slot' = slot /\ s_cur_sector' = s_cur_sector
      /\ s_cur_slot' = s_cur_slot /\ s_last_seq' = s_last_seq /\ s_ready' = s_ready
  BY DEF flash, cursor
<1>2. Target = NextSector(s_cur_sector) /\ Target' = Target
  BY <1>1 DEF Target, NextSector
<1>3. NextMatches'
  BY <1>1, <1>2 DEF NextMatches
<1>4. (Open' = Open) /\ (Closed' = Closed)
  BY <1>1 DEF Open, Closed
<1>5. OpenInv'
  <2>1. Open' => IsHead(s_cur_sector, Sectors)
    BY <1>4 DEF OrderInv, OpenInv
  <2>2. IsHead(s_cur_sector, Sectors) => IsHead(s_cur_sector, Sectors)'
    BY <1>1 DEF IsHead, Torn0
  <2> QED
    BY <2>1, <2>2 DEF OpenInv
<1>6. ClosedInv'
  BY <1>1, <1>2, <1>4, ClosedFrame DEF ClosedInv
<1>7. Closed' => \A k \in Slots : Stored(Target, k)' => Stored(Target, k)
  BY <1>1, <1>2 DEF Stored, record_is_valid
<1>8. OldestNext'
  <2> SUFFICES ASSUME Closed', NEW k \in Slots, Stored(Target, k)'
               PROVE  (\/ \A t \in Others : hdr[t] = NoHeader \/ hdr[Target] <= hdr[t]
                       \/ s_cur_sector # Target /\ hdr[Target] = hdr[s_cur_sector])'
    BY DEF OldestNext
  <2>1. \/ \A t \in Others : hdr[t] = NoHeader \/ hdr[Target] <= hdr[t]
        \/ s_cur_sector # Target /\ hdr[Target] = hdr[s_cur_sector]
    BY <1>4, <1>7 DEF OrderInv, OldestNext
  <2>2. Others' = Others
    BY <1>2 DEF Others
  <2> QED
    BY <1>1, <1>2, <2>1, <2>2
<1> QED
  BY <1>3, <1>5, <1>6, <1>8, SameFlash

\* A sector that is renewed while the cursor stays where it is remains Target.
LEMMA RenewedClosed ==
  ASSUME OrderInv, NEW m, NEW h, NEW c, Renews(m, h, c), UNCHANGED cursor,
         s_ready \/ next' = next
  PROVE  OpenInv' /\ ClosedInv' /\ OldestNext'
<1>1. /\ Closed /\ m = Target /\ m \in Sectors
      /\ \A t \in Others : hdr'[t] = hdr[t] /\ slot'[t] = slot[t]
      /\ \A k \in Slots : ~Stored(m, k)'
  BY RenewedTarget
<1>2. /\ s_cur_sector' = s_cur_sector /\ s_cur_slot' = s_cur_slot
      /\ s_last_seq' = s_last_seq /\ s_ready' = s_ready
  BY DEF cursor
<1>3. Target' = Target
  BY <1>2 DEF Target, NextSector
<1>4. ~Open'
  BY <1>1, <1>2 DEF Open, Closed
<1>5. ClosedInv'
  BY <1>1, <1>2, <1>3, ClosedFrame
<1>6. \A k \in Slots : ~Stored(Target, k)'
  BY <1>1, <1>3 DEF Stored, record_is_valid
<1> QED
  BY <1>4, <1>5, <1>6 DEF OpenInv, OldestNext

\* Every step keeps the order.
LEMMA OrderStep ==
  ASSUME OrderInv, "ghost" \notin Tears, ReadsFail = FALSE, [Next]_vars
  PROVE  OrderInv'
<1>0. NumberingInv' /\ TailInv' /\ TypeOK /\ LockHolder /\ TypeOK'
  BY NumberingStep, TailStep DEF OrderInv, NumberingInv
<1> SUFFICES /\ NextMatches' /\ RangesApart' /\ Headed'
             /\ OpenInv' /\ ClosedInv' /\ OldestNext'
  BY <1>0 DEF OrderInv
<1>1. CASE Boot
  BY <1>1, BootOrder, SameFlash DEF Boot
<1>2. CASE EraseSector
  <2>1. PICK m, h, c : Renews(m, h, c)
    <3>1. Renews(next, NoHeader, BlankSlots)
      BY <1>2 DEF EraseSector, Renews
    <3> QED
      BY <3>1
  <2>2. pc = "erase" /\ pc' = "header" /\ next' = next /\ UNCHANGED cursor
    BY <1>2 DEF EraseSector
  <2>3. Target' = Target
    BY <2>2 DEF Target, NextSector, cursor
  <2>4. s_ready' = s_ready
    BY <2>2 DEF cursor
  <2>5. NextMatches'
    BY <2>2, <2>3, <2>4, Zenon DEF OrderInv, NextMatches
  <2> QED
    BY <2>1, <2>2, <2>5, RenewedOrder, RenewedClosed
<1>3. CASE WriteHeader
  <2>1. PICK m : m = next
    OBVIOUS
  <2>2. Renews(m, HeaderSeq, BlankSlots)
    BY <1>0, <1>3, <2>1 DEF WriteHeader, Renews, LockHolder, TypeOK
  <2>3. IsHead(m, Sectors)' /\ m \in Sectors
    BY <2>2, NewHead, RenewedTarget
  <2>4. /\ s_cur_sector' = m /\ s_cur_slot' = 0 /\ s_ready' = TRUE
        /\ pc' \notin {"erase", "header"}
    BY <1>3, <2>1 DEF WriteHeader, CursorAfterAdvance
  <2>5. Open'
    BY <2>4, SlotsAssumption DEF Open
  <2>6. OpenInv'
    BY <2>3, <2>4 DEF OpenInv, IsHead
  <2> QED
    BY <2>2, <2>4, <2>5, <2>6, RenewedOrder
       DEF NextMatches, ClosedInv, OldestNext, Closed
<1>4. CASE AddRecord \/ Flush \/ FlushDone \/ AdvanceSector
  <2>1. UNCHANGED <<flash, cursor>> /\ pc # "boot" /\ pc' # "boot" /\ s_ready
    BY <1>0, <1>4
       DEF AddRecord, Flush, FlushDone, FinishFlush, AdvanceSector, LockHolder
  <2>2. pc' \in {"erase", "header"} => next' = NextSector(s_cur_sector)
    BY <1>4 DEF AddRecord, Flush, FlushDone, FinishFlush, AdvanceSector
  <2> QED
    BY <2>1, <2>2, CallOrder
<1>5. CASE WriteRecord
  <2>1. PICK v : v = Program(OldSlot, NewRecord)
    OBVIOUS
  <2>2. Writing /\ SetSlot(v) /\ UNCHANGED hdr /\ AtCursor(v)
    BY <1>5, <2>1, WrittenAtCursor DEF WriteRecord, OrderInv
  <2>3. PICK c : c = s_cur_sector
    OBVIOUS
  <2>4. RangesApart' /\ c \in Sectors /\ IsHead(c, Sectors)' /\ Open
    BY <2>2, <2>3, WrittenOrder
  <2>5. /\ s_cur_sector' = c /\ s_cur_slot' = s_cur_slot + 1
        /\ s_ready' = TRUE /\ pc' = "flush"
    BY <1>5, <2>2, <2>3, <2>4, <1>0 DEF WriteRecord, Writing, Open, TypeOK
  <2>6. OpenInv'
    BY <2>4, <2>5 DEF OpenInv, IsHead
  <2>7. ClosedInv' /\ OldestNext'
    <3>1. CASE s_cur_slot + 1 = RecordsPerSector
      BY <1>5, <3>1, FilledOrder
    <3>2. CASE s_cur_slot + 1 # RecordsPerSector
      <4>1. Open'
        BY <1>0, <2>4, <2>5, <3>2, SlotsAssumption DEF Open, TypeOK
      <4> QED
        BY <4>1 DEF ClosedInv, OldestNext, Closed
    <3> QED
      BY <3>1, <3>2
  <2> QED
    BY <2>4, <2>5, <2>6, <2>7 DEF Headed, NextMatches
<1>6. CASE FlashError /\ s_ready
  <2>1. /\ RangesApart' /\ Headed' /\ UNCHANGED cursor
        /\ pc' \in {"idle", "flush"} /\ s_ready'
    BY <1>6, HalfOrder DEF FlashError, FinishFlush, cursor
  <2>2. NextMatches'
    BY <2>1, Zenon DEF NextMatches
  <2>3. CASE HalfWrite
    <3>1. PICK v \in Interrupted(OldSlot, NewRecord) : SetSlot(v)
      BY <2>3 DEF HalfWrite
    <3>2. Writing /\ UNCHANGED hdr /\ AtCursor(v)
      BY <2>3, <3>1, WrittenAtCursor DEF HalfWrite, OrderInv
    <3>3. PICK c : c = s_cur_sector
      OBVIOUS
    <3>4. IsHead(c, Sectors)' /\ Open
      BY <3>1, <3>2, <3>3, WrittenOrder
    <3>5. OpenInv' /\ Open'
      BY <2>1, <3>3, <3>4 DEF OpenInv, IsHead, Open, cursor
    <3> QED
      BY <2>1, <2>2, <3>5 DEF ClosedInv, OldestNext, Closed
  <2>4. CASE HalfErase \/ HalfHeader
    <3>1. pc # "boot" /\ s_ready
      BY <1>6, <2>4 DEF HalfErase, HalfHeader
    <3>2. CASE UNCHANGED flash
      BY <2>1, <2>2, <3>1, <3>2, CallOrder
    <3>3. CASE \E m, h, c : Renews(m, h, c)
      BY <2>1, <2>2, <3>1, <3>3, RenewedClosed
    <3> QED
      BY <2>4, <3>2, <3>3, Renewing
  <2> QED
    BY <1>6, <2>3, <2>4 DEF FlashError
<1>7. CASE (FlashError /\ ~s_ready) \/ PowerLoss
  <2>1. s_ready' = FALSE /\ pc' = "boot"
    BY <1>7 DEF FlashError, PowerLoss, Reset
  <2>2. RangesApart' /\ Headed'
    BY <1>7, HalfOrder, SameFlash DEF FlashError, PowerLoss
  <2> QED
    BY <2>1, <2>2 DEF NextMatches, OpenInv, ClosedInv, OldestNext, Open, Closed
<1>8. CASE UNCHANGED vars
  <2>1. UNCHANGED flash /\ UNCHANGED cursor /\ pc' = pc /\ next' = next
    BY <1>8 DEF vars
  <2>2. Target' = Target /\ s_cur_sector' = s_cur_sector /\ s_last_seq' = s_last_seq
        /\ hdr' = hdr /\ slot' = slot
    BY <2>1 DEF Target, NextSector, cursor, flash
  <2>3. NextMatches' /\ OpenInv'
    BY <2>1, Zenon DEF OrderInv, NextMatches, Target, NextSector, OpenInv, Open,
                       IsHead, Torn0, cursor, flash
  <2>4. Closed' = Closed
    BY <2>1, Zenon DEF Closed, Open, cursor
  <2>5. ClosedInv'
    BY <2>2, <2>4, ClosedFrame DEF ClosedInv
  <2>6. OldestNext'
    BY <2>1, Zenon DEF OrderInv, OldestNext, Closed, Open, Target, NextSector, Others,
                       Stored, record_is_valid, cursor, flash
  <2> QED
    BY <2>1, <2>3, <2>5, <2>6, SameFlash
<1> QED
  BY <1>1, <1>2, <1>3, <1>4, <1>5, <1>6, <1>7, <1>8 DEF Next, LogStep

\* The order holds in every reachable state.
LEMMA OrderInvariant ==
  ASSUME "ghost" \notin Tears, ReadsFail = FALSE PROVE Spec => []OrderInv
<1>1. Init => OrderInv
  <2> SUFFICES ASSUME Init PROVE OrderInv
    OBVIOUS
  <2>1. TypeOK /\ NumberingInv /\ TailInv
    <3>1. TypeOK /\ LockHolder /\ RecordNumbering /\ CursorNumbering
      BY InitType
         DEF Init, LockHolder, RecordNumbering, CursorNumbering, Sectors
    <3>2. NoGhost
      BY DEF Init, NoGhost, BlankSlots, GarbageSlots, Empty, Garbage
    <3> QED
      BY <3>1, <3>2 DEF Init, NumberingInv, TailInv, NoHiddenRecord, CursorTail
  <2>2. Unused(Sectors)
    BY DEF Init, Unused
  <2> QED
    BY <2>1, <2>2 DEF Init, OrderInv, NextMatches, RangesApart, Stored, Unused, Headed,
                      OpenInv, ClosedInv, OldestNext, Open, Closed
<1>2. OrderInv /\ [Next]_vars => OrderInv'
  BY OrderStep
<1> QED
  BY <1>1, <1>2, PTL DEF Spec

-----------------------------------------------------------------------------
(***************************************************************************)
(* The samples, which ntc_history_add_record numbers: those in RAM are in  *)
(* the order of the calls, and later than all that are on flash.           *)
(***************************************************************************)
\* The sample that is written next, or that will be if none is waiting.
NextSample ==
  IF flush_i < Len(s_ram_buf) THEN s_ram_buf[flush_i + 1]
  ELSE IF pend # NoSample THEN pend ELSE sampled + 1

SampleInv ==
  /\ \A i, j \in 1 .. Len(s_ram_buf) : i < j => s_ram_buf[i] < s_ram_buf[j]
  /\ \A i \in 1 .. Len(s_ram_buf) :
       s_ram_buf[i] <= sampled /\ (pend # NoSample => s_ram_buf[i] < pend)
  /\ pend <= sampled
  /\ pc \in {"boot", "idle"} \/ ~s_ready => pend = NoSample /\ flush_i = 0
  /\ ~s_ready => s_ram_buf = <<>>

\* What flush_locked leaves in the buffer is in order, and so is what it stores
\* behind it; the sample that is written next stays the same.
LEMMA FinishedSamples ==
  ASSUME TypeOK, SampleInv, FinishFlush(flush_i), UNCHANGED <<sampled, s_ready>>,
         s_ready
  PROVE  SampleInv' /\ NextSample' = NextSample
<1> DEFINE i == flush_i
           kept == FlushKeeps(i)
           more == Append(kept, pend)
           len == Len(s_ram_buf)
<1>1. /\ kept \in Seq(Nat) /\ Len(kept) = len - i
      /\ \A j \in 1 .. len - i : kept[j] = s_ram_buf[i + j]
      /\ len \in Nat /\ i \in Nat /\ i <= len /\ pend \in Nat /\ sampled \in Nat
  BY KeptSamples, BoundsAssumption DEF TypeOK
<1>2. /\ flush_i' = 0 /\ pend' = NoSample /\ sampled' = sampled /\ s_ready' = s_ready
      /\ s_ram_buf' = IF pend # NoSample /\ Len(kept) < RamRecords THEN more ELSE kept
  BY DEF FinishFlush
<1>3. /\ \A j, k \in 1 .. len : j < k => s_ram_buf[j] < s_ram_buf[k]
      /\ \A j \in 1 .. len :
           s_ram_buf[j] <= sampled /\ (pend # NoSample => s_ram_buf[j] < pend)
      /\ pend <= sampled
  BY DEF SampleInv
<1>4. NextSample = IF i < len THEN s_ram_buf[i + 1]
                   ELSE IF pend # NoSample THEN pend ELSE sampled + 1
  BY DEF NextSample
<1> HIDE DEF kept, len, i
<1>5. /\ Len(more) = Len(kept) + 1 /\ more[Len(kept) + 1] = pend
      /\ \A j \in 1 .. Len(kept) : more[j] = kept[j]
  BY <1>1, AppendProperties
<1>6. /\ \A j, k \in 1 .. len - i : j < k => kept[j] < kept[k]
      /\ \A j \in 1 .. len - i :
           kept[j] <= sampled /\ (pend # NoSample => kept[j] < pend)
  <2>1. \A j \in 1 .. len - i : i + j \in 1 .. len /\ kept[j] = s_ram_buf[i + j]
    BY <1>1
  <2>2. ASSUME NEW j \in 1 .. len - i, NEW k \in 1 .. len - i, j < k
        PROVE  kept[j] < kept[k]
    <3>1. i + j < i + k
      BY <1>1, <2>2
    <3> QED
      BY <1>3, <2>1, <3>1
  <2> QED
    BY <1>3, <2>1, <2>2
<1> HIDE DEF more
<1>7. CASE pend # NoSample /\ Len(kept) < RamRecords
  <2>1. s_ram_buf' = more /\ Len(s_ram_buf') = len - i + 1
    BY <1>1, <1>2, <1>5, <1>7
  <2>2. \A j \in 1 .. len - i + 1 : j \in 1 .. len - i \/ j = len - i + 1
    BY <1>1
  <2>3. \A j, k \in 1 .. Len(s_ram_buf') : j < k => s_ram_buf'[j] < s_ram_buf'[k]
    <3> SUFFICES ASSUME NEW j \in 1 .. len - i + 1, NEW k \in 1 .. len - i + 1, j < k
                 PROVE  more[j] < more[k]
      BY <2>1
    <3>1. j \in 1 .. len - i /\ more[j] = kept[j]
      BY <1>1, <1>5
    <3>2. CASE k \in 1 .. len - i
      BY <1>1, <1>5, <1>6, <3>1, <3>2
    <3>3. CASE k = len - i + 1
      BY <1>1, <1>5, <1>6, <1>7, <3>1, <3>3
    <3> QED
      BY <2>2, <3>2, <3>3
  <2>4. \A j \in 1 .. Len(s_ram_buf') : s_ram_buf'[j] <= sampled
    BY <1>1, <1>3, <1>5, <1>6, <2>1, <2>2
  <2>5. SampleInv'
    BY <1>1, <1>2, <2>3, <2>4 DEF SampleInv, NoSample
  <2>6. s_ram_buf'[1] = IF i < len THEN s_ram_buf[i + 1] ELSE pend
    BY <1>1, <1>5, <2>1
  <2> QED
    BY <1>1, <1>2, <1>4, <1>7, <2>1, <2>5, <2>6 DEF NextSample
<1>8. CASE ~(pend # NoSample /\ Len(kept) < RamRecords)
  <2>1. s_ram_buf' = kept /\ Len(s_ram_buf') = len - i
    BY <1>1, <1>2, <1>8
  <2>2. SampleInv'
    <3>1. \A j, k \in 1 .. Len(s_ram_buf') : j < k => s_ram_buf'[j] < s_ram_buf'[k]
      BY <1>6, <2>1
    <3>2. \A j \in 1 .. Len(s_ram_buf') : s_ram_buf'[j] <= sampled
      BY <1>6, <2>1
    <3> QED
      BY <1>1, <1>2, <3>1, <3>2 DEF SampleInv, NoSample
  <2>3. i < len \/ pend = NoSample
    BY <1>1, <1>8, RamAssumption
  <2>4. i < len => s_ram_buf'[1] = s_ram_buf[i + 1]
    BY <1>1, <2>1
  <2> QED
    BY <1>1, <1>2, <1>4, <2>1, <2>2, <2>3, <2>4 DEF NextSample
<1> QED
  BY <1>7, <1>8

\* ntc_history_add_record gives the sample its number when the buffer, and what
\* is written next, hold earlier ones only.
LEMMA AddedSample ==
  ASSUME TypeOK, LockHolder, SampleInv, AddRecord
  PROVE  SampleInv' /\ NextSample' = NextSample
<1> DEFINE len == Len(s_ram_buf)
           more == Append(s_ram_buf, sampled + 1)
<1>1. /\ len \in Nat /\ sampled \in Nat /\ sampled' = sampled + 1
      /\ pend = NoSample /\ flush_i = 0 /\ flush_i' = 0
      /\ s_ready /\ s_ready' = s_ready
      /\ pc' \in {"idle", "flush"}
  BY BoundsAssumption DEF TypeOK, AddRecord, SampleInv, cursor
<1>2. /\ \A j, k \in 1 .. len : j < k => s_ram_buf[j] < s_ram_buf[k]
      /\ \A j \in 1 .. len : s_ram_buf[j] <= sampled /\ s_ram_buf[j] \in Nat
  BY ElementOfSeq DEF SampleInv, TypeOK
<1>3. /\ Len(more) = len + 1 /\ more[len + 1] = sampled + 1
      /\ \A j \in 1 .. len : more[j] = s_ram_buf[j]
  BY <1>1, AppendProperties DEF TypeOK
<1>4. NextSample = IF 0 < len THEN s_ram_buf[1] ELSE sampled + 1
  BY <1>1 DEF NextSample
<1>5. CASE len >= RamRecords
  <2>1. s_ram_buf' = s_ram_buf /\ pend' = sampled + 1 /\ pc' = "flush"
    BY <1>5 DEF AddRecord
  <2>2. SampleInv'
    BY <1>1, <1>2, <2>1 DEF SampleInv, NoSample
  <2> QED
    BY <1>1, <1>4, <1>5, <2>1, <2>2, RamAssumption DEF NextSample
<1>6. CASE ~(len >= RamRecords)
  <2>1. s_ram_buf' = more /\ pend' = NoSample
    BY <1>1, <1>6 DEF AddRecord
  <2> HIDE DEF more
  <2>2. /\ \A j, k \in 1 .. len + 1 : j < k => more[j] < more[k]
        /\ \A j \in 1 .. len + 1 : more[j] <= sampled + 1
    <3>1. \A j \in 1 .. len + 1 : j \in 1 .. len \/ j = len + 1
      BY <1>1
    <3> QED
      BY <1>1, <1>2, <1>3, <3>1
  <2>3. SampleInv'
    BY <1>1, <1>3, <2>1, <2>2 DEF SampleInv, NoSample
  <2> QED
    BY <1>1, <1>3, <1>4, <2>1, <2>3 DEF NextSample
<1> QED
  BY <1>5, <1>6

\* A sample that is waiting is at most the last one taken.
LEMMA NextSampleIs ==
  ASSUME TypeOK, SampleInv
  PROVE  /\ NextSample \in Nat /\ NextSample <= sampled + 1 /\ sampled \in Nat
         /\ flush_i < Len(s_ram_buf) =>
              /\ flush_i + 1 \in 1 .. Len(s_ram_buf)
              /\ NextSample = s_ram_buf[flush_i + 1]
              /\ NextSample <= sampled
<1>1. /\ Len(s_ram_buf) \in Nat /\ flush_i \in Nat /\ sampled \in Nat /\ pend \in Nat
  BY BoundsAssumption DEF TypeOK
<1>2. flush_i < Len(s_ram_buf) =>
        /\ flush_i + 1 \in 1 .. Len(s_ram_buf)
        /\ s_ram_buf[flush_i + 1] \in Nat /\ s_ram_buf[flush_i + 1] <= sampled
  BY <1>1, ElementOfSeq DEF TypeOK, SampleInv
<1> QED
  BY <1>1, <1>2 DEF NextSample, SampleInv

\* After a record is written a later sample is the next one.
LEMMA WrittenSample ==
  ASSUME TypeOK, LockHolder, SampleInv, WriteRecord
  PROVE  SampleInv' /\ NextSample < NextSample' /\ NextSample' \in Nat
<1>1. /\ flush_i' = flush_i + 1 /\ s_ram_buf' = s_ram_buf /\ pend' = pend
      /\ pc' = "flush" /\ pc = "flush" /\ sampled' = sampled
      /\ flush_i < Len(s_ram_buf)
  BY DEF WriteRecord, Writing
<1>2. s_ready /\ s_ready'
  BY DEF WriteRecord, Writing, LockHolder
<1>3. SampleInv'
  BY <1>1, <1>2 DEF SampleInv
<1>4. /\ flush_i + 1 \in 1 .. Len(s_ram_buf) /\ NextSample = s_ram_buf[flush_i + 1]
      /\ NextSample <= sampled /\ NextSample \in Nat /\ sampled \in Nat
      /\ flush_i \in Nat /\ Len(s_ram_buf) \in Nat
  BY <1>1, NextSampleIs DEF TypeOK
<1>5. /\ \A i, j \in 1 .. Len(s_ram_buf) : i < j => s_ram_buf[i] < s_ram_buf[j]
      /\ pend # NoSample => s_ram_buf[flush_i + 1] < pend
  BY <1>4 DEF SampleInv
<1>6. NextSample' = IF flush_i + 1 < Len(s_ram_buf) THEN s_ram_buf[flush_i + 1 + 1]
                    ELSE IF pend # NoSample THEN pend ELSE sampled + 1
  BY <1>1 DEF NextSample
<1>7. CASE flush_i + 1 < Len(s_ram_buf)
  <2>1. flush_i + 1 + 1 \in 1 .. Len(s_ram_buf) /\ flush_i + 1 < flush_i + 1 + 1
    BY <1>4, <1>7
  <2>2. s_ram_buf[flush_i + 1] < s_ram_buf[flush_i + 1 + 1]
    BY <1>4, <1>5, <2>1
  <2>3. s_ram_buf[flush_i + 1 + 1] \in Nat
    BY <2>1, ElementOfSeq DEF TypeOK
  <2> QED
    BY <1>3, <1>4, <1>6, <1>7, <2>2, <2>3
<1>8. CASE ~(flush_i + 1 < Len(s_ram_buf))
  <2>1. pend \in Nat
    BY DEF TypeOK
  <2> QED
    BY <1>3, <1>4, <1>5, <1>6, <1>8, <2>1
<1> QED
  BY <1>3, <1>7, <1>8

\* Every step keeps the samples in order and never goes back to an earlier one.
LEMMA SampleStep ==
  ASSUME TypeOK, LockHolder, SampleInv, [Next]_vars
  PROVE  SampleInv' /\ NextSample <= NextSample'
<1>1. ASSUME UNCHANGED buffer, UNCHANGED sampled,
             s_ready' = s_ready, pc' \in {"boot", "idle"} => pc \in {"boot", "idle"}
      PROVE  SampleInv' /\ NextSample <= NextSample'
  <2>1. s_ram_buf' = s_ram_buf /\ flush_i' = flush_i /\ pend' = pend /\ sampled' = sampled
    BY <1>1 DEF buffer
  <2>2. NextSample' = NextSample
    BY <2>1 DEF NextSample
  <2>3. SampleInv'
    BY <1>1, <2>1, Zenon DEF SampleInv
  <2> QED
    BY <2>2, <2>3, NextSampleIs
<1>2. CASE Boot
  <2>1. ~s_ready
    BY <1>2 DEF Boot, LockHolder
  <2>2. s_ram_buf' = s_ram_buf /\ flush_i' = flush_i /\ pend' = pend /\ sampled' = sampled
        /\ s_ram_buf = <<>> /\ flush_i = 0 /\ pend = NoSample
    BY <1>2, <2>1 DEF Boot, buffer, SampleInv
  <2>3. NextSample' = NextSample
    BY <2>2 DEF NextSample
  <2>4. SampleInv'
    BY <2>2 DEF SampleInv
  <2> QED
    BY <2>3, <2>4, NextSampleIs
<1>3. CASE EraseSector \/ Flush \/ AdvanceSector \/ UNCHANGED vars
  <2>1. /\ UNCHANGED buffer /\ UNCHANGED sampled /\ s_ready' = s_ready
        /\ pc' \in {"boot", "idle"} => pc \in {"boot", "idle"}
    BY <1>3 DEF EraseSector, Flush, AdvanceSector, vars, cursor
  <2> QED
    BY <1>1, <2>1
<1>4. CASE WriteHeader
  <2>1. /\ s_ram_buf' = s_ram_buf /\ flush_i' = flush_i /\ pend' = pend
        /\ sampled' = sampled /\ s_ready' = TRUE
        /\ s_ready => pc' = "flush"
    BY <1>4 DEF WriteHeader, buffer
  <2>2. NextSample' = NextSample
    BY <2>1 DEF NextSample
  <2>3. SampleInv'
    BY <2>1 DEF SampleInv
  <2> QED
    BY <2>2, <2>3, NextSampleIs
<1>5. CASE AddRecord
  BY <1>5, AddedSample, NextSampleIs
<1>6. CASE FlushDone \/ (FlashError /\ s_ready)
  <2>1. /\ FinishFlush(flush_i) /\ UNCHANGED <<sampled, s_ready>> /\ s_ready
    BY <1>6 DEF FlushDone, FlashError, cursor, LockHolder
  <2> QED
    BY <2>1, FinishedSamples, NextSampleIs
<1>7. CASE WriteRecord
  BY <1>7, WrittenSample, NextSampleIs
<1>8. CASE (FlashError /\ ~s_ready) \/ PowerLoss
  <2>1. Reset /\ sampled' = sampled
    BY <1>8 DEF FlashError, PowerLoss
  <2>2. /\ s_ram_buf' = <<>> /\ flush_i' = 0 /\ pend' = NoSample /\ s_ready' = FALSE
        /\ NoSample = 0 /\ Len(<<>>) = 0
    BY <2>1 DEF Reset, NoSample
  <2>3. SampleInv'
    BY <2>1, <2>2, NextSampleIs DEF SampleInv
  <2>4. NextSample' = sampled + 1
    BY <2>1, <2>2 DEF NextSample
  <2> QED
    BY <2>3, <2>4, NextSampleIs
<1> QED
  BY <1>2, <1>3, <1>4, <1>5, <1>6, <1>7, <1>8 DEF Next, LogStep

-----------------------------------------------------------------------------
(***************************************************************************)
(* The records, which flush_locked numbers, are in the order of their      *)
(* samples.  A record whose write was reported as failed may be on flash   *)
(* all the same: it stands at the cursor and is written again.             *)
(***************************************************************************)
IdInv ==
  \A s \in Sectors, k \in Slots : Stored(s, k) =>
    slot[s][k].id < NextSample \/ (Open /\ s = s_cur_sector /\ k = s_cur_slot)

IdOrder ==
  \A s, t \in Sectors, j, k \in Slots :
    Stored(s, j) /\ Stored(t, k) /\ slot[s][j].seq < slot[t][k].seq
      => slot[s][j].id < slot[t][k].id

LogInv == OrderInv /\ SampleInv /\ IdInv /\ IdOrder

\* Nothing new can be read.
KeepsRecords ==
  \A s \in Sectors, k \in Slots :
    Stored(s, k)' => Stored(s, k) /\ slot'[s][k] = slot[s][k]

\* What is on flash was sampled; what is at the cursor is the next sample.
LEMMA StoredSampled ==
  ASSUME LogInv, NEW s \in Sectors, NEW k \in Slots, Stored(s, k)
  PROVE  /\ slot[s][k].id \in Nat /\ slot[s][k].seq \in Nat
         /\ slot[s][k].id <= sampled
<1>1. slot[s][k].id \in Nat /\ slot[s][k].seq \in Nat
  BY DEF LogInv, OrderInv, NumberingInv, TypeOK, SlotValue
<1>2. TypeOK /\ SampleInv
  BY DEF LogInv, OrderInv, NumberingInv
<1>3. NextSample \in Nat /\ NextSample <= sampled + 1 /\ sampled \in Nat
  BY <1>2, NextSampleIs
<1>4. CASE slot[s][k].id < NextSample
  BY <1>1, <1>3, <1>4
<1>5. CASE Open /\ s = s_cur_sector /\ k = s_cur_slot
  <2>1. Free(slot[s][k])
    BY <1>5 DEF Open, LogInv, OrderInv, TailInv, CursorTail
  <2>2. flush_i < Len(s_ram_buf) /\ slot[s][k].id = s_ram_buf[flush_i + 1]
    BY <2>1 DEF Free, Stored, record_is_valid
  <2> QED
    BY <1>1, <1>2, <2>2, NextSampleIs
<1> QED
  BY <1>1, <1>4, <1>5 DEF LogInv, IdInv

\* A step that brings no new record keeps the samples in order.
LEMMA IdsKept ==
  ASSUME LogInv, KeepsRecords, NextSample <= NextSample', NextSample' \in Nat,
         UNCHANGED cursor \/ ~Open \/ NextSample' = sampled + 1
  PROVE  IdInv' /\ IdOrder'
<1>1. NextSample \in Nat /\ sampled \in Nat
  BY NextSampleIs DEF LogInv, OrderInv, NumberingInv
<1>2. IdInv'
  <2> SUFFICES ASSUME NEW s \in Sectors, NEW k \in Slots, Stored(s, k)',
                      ~(slot'[s][k].id < NextSample')
               PROVE  Open' /\ s = s_cur_sector' /\ k = s_cur_slot'
    BY DEF IdInv
  <2>1. Stored(s, k) /\ slot'[s][k] = slot[s][k]
    BY DEF KeepsRecords
  <2>2. slot[s][k].id \in Nat /\ slot[s][k].id <= sampled
    BY <2>1, StoredSampled
  <2>3. ~(slot[s][k].id < NextSample) /\ NextSample' # sampled + 1
    BY <1>1, <2>1, <2>2
  <2>4. Open /\ s = s_cur_sector /\ k = s_cur_slot
    BY <2>1, <2>3 DEF LogInv, IdInv
  <2>5. UNCHANGED cursor
    BY <2>3, <2>4
  <2> QED
    BY <2>4, <2>5 DEF cursor, Open
<1>3. IdOrder'
  BY DEF KeepsRecords, LogInv, IdOrder
<1> QED
  BY <1>2, <1>3

\* No record has a higher number than the one that is written next.
LEMMA CursorHighest ==
  ASSUME OrderInv, Open, NEW t \in Sectors, NEW k \in Slots, Stored(t, k)
  PROVE  slot[t][k].seq <= s_last_seq + 1
<1>1. /\ hdr[t] # NoHeader /\ slot[t][k].seq = hdr[t] + k /\ k \in Nat
      /\ hdr[t] \in Nat /\ hdr[s_cur_sector] \in Nat /\ s_cur_sector \in Sectors
      /\ s_last_seq + 1 = hdr[s_cur_sector] + s_cur_slot /\ s_cur_slot \in Nat
  BY SlotsAssumption
     DEF OrderInv, NumberingInv, RecordNumbering, CursorNumbering, TypeOK, Stored, Open, Slots
<1>2. IsHead(s_cur_sector, Sectors)
  BY DEF OrderInv, OpenInv
<1>3. CASE t = s_cur_sector
  <2>1. k <= s_cur_slot
    <3>1. k > s_cur_slot => slot[t][k].st = "empty"
      BY <1>3 DEF OrderInv, TailInv, CursorTail, Open
    <3> QED
      BY <1>1, <3>1 DEF Stored, record_is_valid
  <2> QED
    BY <1>1, <1>3, <2>1
<1>4. CASE t # s_cur_sector
  <2>1. hdr[t] <= hdr[s_cur_sector] /\ hdr[t] # hdr[s_cur_sector]
    BY <1>1, <1>2, <1>4, StoredNotTorn DEF IsHead, OrderInv
  <2>2. hdr[t] + k < hdr[s_cur_sector]
    BY <1>1, <2>1 DEF OrderInv, RangesApart
  <2> QED
    BY <1>1, <2>2
<1> QED
  BY <1>3, <1>4

\* A write at the cursor, whole or not, keeps the samples in order.
LEMMA IdsWritten ==
  ASSUME LogInv, Writing, UNCHANGED hdr, NEW v, AtCursor(v), SetSlot(v), Free(OldSlot)
  PROVE  /\ IdOrder'
         /\ \A s \in Sectors, k \in Slots : Stored(s, k)' =>
              \/ slot'[s][k].id < NextSample
              \/ slot'[s][k].id = NextSample /\ s = s_cur_sector /\ k = s_cur_slot
<1>1. /\ s_cur_slot \in Slots /\ s_cur_sector \in Sectors
      /\ \A s \in Sectors, k \in Slots :
           slot'[s][k] = IF s = s_cur_sector /\ k = s_cur_slot THEN v ELSE slot[s][k]
  BY SetSlotTail DEF LogInv, OrderInv
<1>2. Open
  BY DEF Writing, Open, LogInv, OrderInv, NumberingInv, LockHolder
<1>3. NextSample = s_ram_buf[flush_i + 1] /\ NextSample \in Nat /\ s_last_seq \in Nat
  BY NextSampleIs DEF Writing, LogInv, OrderInv, NumberingInv, TypeOK
<1>4. v.st = "valid" => v.id = NextSample /\ v.seq = s_last_seq + 1
  BY <1>3 DEF AtCursor, Free, NewRecord
<1>5. \A s \in Sectors, k \in Slots : ~(s = s_cur_sector /\ k = s_cur_slot) =>
        /\ slot'[s][k] = slot[s][k]
        /\ Stored(s, k)' => Stored(s, k) /\ slot[s][k].id < NextSample
  BY <1>1 DEF Stored, record_is_valid, LogInv, IdInv
<1>6. \A s \in Sectors, k \in Slots :
        Stored(s, k)' /\ s = s_cur_sector /\ k = s_cur_slot =>
          slot'[s][k].id = NextSample /\ slot'[s][k].seq = s_last_seq + 1
  BY <1>1, <1>4 DEF Stored, record_is_valid
<1>7. IdOrder'
  <2> SUFFICES ASSUME NEW s \in Sectors, NEW t \in Sectors, NEW j \in Slots, NEW k \in Slots,
                      Stored(s, j)', Stored(t, k)', slot'[s][j].seq < slot'[t][k].seq
               PROVE  slot'[s][j].id < slot'[t][k].id
    BY DEF IdOrder
  <2>1. CASE s = s_cur_sector /\ j = s_cur_slot
    <3>1. slot'[s][j].seq = s_last_seq + 1
      BY <1>6, <2>1
    <3>2. ~(t = s_cur_sector /\ k = s_cur_slot)
      BY <1>3, <1>6, <3>1
    <3>3. slot'[t][k] = slot[t][k] /\ Stored(t, k) /\ slot[t][k].seq \in Nat
      BY <1>5, <3>2, StoredSampled
    <3>4. slot[t][k].seq <= s_last_seq + 1
      BY <1>2, <3>3, CursorHighest DEF LogInv
    <3> QED
      BY <1>3, <3>1, <3>3, <3>4
  <2>2. CASE ~(s = s_cur_sector /\ j = s_cur_slot) /\ t = s_cur_sector /\ k = s_cur_slot
    BY <1>5, <1>6, <2>2
  <2>3. CASE ~(s = s_cur_sector /\ j = s_cur_slot) /\ ~(t = s_cur_sector /\ k = s_cur_slot)
    BY <1>5, <2>3 DEF LogInv, IdOrder
  <2> QED
    BY <2>1, <2>2, <2>3
<1> QED
  BY <1>5, <1>6, <1>7

\* A sector that is renewed brings no new record; nor does flash left alone.
LEMMA RenewedKeeps ==
  ASSUME OrderInv, UNCHANGED flash \/ \E m, h, c : Renews(m, h, c) PROVE KeepsRecords
<1>1. CASE UNCHANGED flash
  BY <1>1 DEF flash, KeepsRecords, Stored, record_is_valid
<1>2. CASE \E m, h, c : Renews(m, h, c)
  <2>1. PICK m, h, c : Renews(m, h, c)
    BY <1>2
  <2>2. /\ \A t \in Others : hdr'[t] = hdr[t] /\ slot'[t] = slot[t]
        /\ \A k \in Slots : ~Stored(m, k)'
        /\ \A t \in Sectors : t = m \/ t \in Others
    BY <2>1, RenewedTarget
  <2>3. \A s \in Sectors, k \in Slots : Stored(s, k)' => s \in Others
    BY <2>2
  <2> QED
    BY <2>2, <2>3 DEF KeepsRecords, Stored, record_is_valid
<1> QED
  BY <1>1, <1>2

\* What a failed or interrupted write leaves, and what happens to the cursor.
LEMMA HalfWritten ==
  ASSUME LogInv, "ghost" \notin Tears, HalfWrite, NextSample <= NextSample',
         NextSample' \in Nat, UNCHANGED cursor \/ NextSample' = sampled + 1
  PROVE  IdInv' /\ IdOrder'
<1>1. PICK v \in Interrupted(OldSlot, NewRecord) : SetSlot(v)
  BY DEF HalfWrite
<1>2. Writing /\ UNCHANGED hdr /\ AtCursor(v) /\ Free(OldSlot)
  BY <1>1, WrittenAtCursor DEF HalfWrite, LogInv, OrderInv
<1>3. /\ IdOrder'
      /\ \A s \in Sectors, k \in Slots : Stored(s, k)' =>
           \/ slot'[s][k].id < NextSample
           \/ slot'[s][k].id = NextSample /\ s = s_cur_sector /\ k = s_cur_slot
  BY <1>1, <1>2, IdsWritten
<1>4. Open /\ NextSample \in Nat /\ NextSample <= sampled /\ sampled \in Nat
  BY <1>2, NextSampleIs
     DEF LogInv, OrderInv, NumberingInv, LockHolder, Writing, Open
<1>5. \A s \in Sectors, k \in Slots : slot'[s][k].id \in Nat
  BY <1>2, HalfType DEF LogInv, OrderInv, NumberingInv, SlotValue
<1>6. ASSUME NEW s \in Sectors, NEW k \in Slots, Stored(s, k)'
      PROVE  slot'[s][k].id < NextSample' \/ (Open /\ s = s_cur_sector /\ k = s_cur_slot)'
  <2>1. CASE slot'[s][k].id < NextSample
    BY <1>4, <1>5, <2>1
  <2>2. CASE slot'[s][k].id = NextSample /\ NextSample' = sampled + 1
    BY <1>4, <2>2
  <2>3. CASE /\ UNCHANGED cursor
             /\ slot'[s][k].id = NextSample /\ s = s_cur_sector /\ k = s_cur_slot
    BY <1>4, <2>3 DEF cursor, Open
  <2> QED
    BY <1>3, <1>6, <2>1, <2>2, <2>3
<1> QED
  BY <1>3, <1>6 DEF IdInv

\* Samples are numbers.
LEMMA NextSampleType == ASSUME TypeOK' PROVE NextSample' \in Nat
<1>1. /\ s_ram_buf' \in Seq(Nat) /\ flush_i' \in Nat /\ Len(s_ram_buf') \in Nat
      /\ pend' \in Nat /\ sampled' \in Nat
  BY BoundsAssumption DEF TypeOK
<1>2. ASSUME NEW buf \in Seq(Nat), NEW i \in Nat, i < Len(buf) PROVE buf[i + 1] \in Nat
  <2>1. i + 1 \in 1 .. Len(buf)
    BY <1>2
  <2> QED
    BY <2>1, ElementOfSeq
<1>3. flush_i' < Len(s_ram_buf') => s_ram_buf'[flush_i' + 1] \in Nat
  BY <1>1, <1>2, Zenon
<1>4. \A i \in Nat : i + 1 \in Nat
  OBVIOUS
<1> QED
  BY <1>1, <1>3, <1>4, Zenon DEF NextSample

\* Every step keeps the records in the order of their samples.
LEMMA LogInvStep ==
  ASSUME LogInv, "ghost" \notin Tears, ReadsFail = FALSE, [Next]_vars
  PROVE  LogInv'
<1>0. /\ OrderInv /\ OrderInv' /\ SampleInv' /\ NextSample <= NextSample'
      /\ TypeOK /\ LockHolder /\ SampleInv
  BY OrderStep, SampleStep DEF LogInv, OrderInv, NumberingInv
<1> SUFFICES IdInv' /\ IdOrder'
  BY <1>0 DEF LogInv
<1>1. NextSample' \in Nat
  BY <1>0, NextSampleType DEF OrderInv, NumberingInv
<1>2. CASE Boot
  <2>1. ~Open
    BY <1>0, <1>2 DEF Boot, LockHolder, Open
  <2>2. KeepsRecords
    BY <1>0, <1>2, RenewedKeeps DEF Boot
  <2> QED
    BY <1>0, <1>1, <2>1, <2>2, IdsKept
<1>3. CASE EraseSector \/ WriteHeader
  <2>1. ~Open
    <3>1. s_ready => s_cur_slot >= RecordsPerSector
      BY <1>0, <1>3 DEF EraseSector, WriteHeader, LockHolder
    <3> QED
      BY <1>0, <3>1, SlotsAssumption DEF Open, TypeOK
  <2>2. KeepsRecords
    BY <1>0, <1>3, Renewing, RenewedKeeps
  <2> QED
    BY <1>0, <1>1, <2>1, <2>2, IdsKept
<1>4. CASE AddRecord \/ Flush \/ FlushDone \/ AdvanceSector \/ UNCHANGED vars
  <2>1. UNCHANGED flash /\ UNCHANGED cursor
    BY <1>4 DEF AddRecord, Flush, FlushDone, AdvanceSector, vars
  <2>2. KeepsRecords
    BY <1>0, <2>1, RenewedKeeps
  <2> QED
    BY <1>0, <1>1, <2>1, <2>2, IdsKept
<1>5. CASE WriteRecord
  <2>1. PICK v : v = Program(OldSlot, NewRecord)
    OBVIOUS
  <2>2. Writing /\ SetSlot(v) /\ UNCHANGED hdr /\ AtCursor(v) /\ Free(OldSlot)
    BY <1>0, <1>5, <2>1, WrittenAtCursor DEF WriteRecord, OrderInv
  <2>3. /\ IdOrder'
        /\ \A s \in Sectors, k \in Slots : Stored(s, k)' =>
             slot'[s][k].id < NextSample \/ slot'[s][k].id = NextSample
    BY <2>2, IdsWritten
  <2>4. NextSample < NextSample' /\ NextSample \in Nat
    BY <1>0, <1>5, WrittenSample, NextSampleIs
  <2>5. \A s \in Sectors, k \in Slots : slot'[s][k].id \in Nat
    BY <1>0 DEF OrderInv, NumberingInv, TypeOK, SlotValue
  <2>6. IdInv'
    BY <1>1, <2>3, <2>4, <2>5 DEF IdInv
  <2> QED
    BY <2>3, <2>6
<1>6. CASE FlashError \/ PowerLoss
  <2>1. UNCHANGED cursor \/ NextSample' = sampled + 1
    <3>1. UNCHANGED cursor \/ (Reset /\ sampled' = sampled)
      BY <1>6 DEF FlashError, PowerLoss
    <3>2. Reset /\ sampled' = sampled => NextSample' = sampled + 1
      BY DEF Reset, NextSample
    <3> QED
      BY <3>1, <3>2
  <2>2. CASE HalfWrite
    BY <1>0, <1>1, <2>1, <2>2, HalfWritten
  <2>3. CASE HalfErase \/ HalfHeader \/ UNCHANGED flash
    BY <1>0, <1>1, <2>1, <2>3, Renewing, RenewedKeeps, IdsKept
  <2> QED
    BY <1>6, <2>2, <2>3 DEF FlashError, PowerLoss
<1> QED
  BY <1>2, <1>3, <1>4, <1>5, <1>6 DEF Next, LogStep

\* So they are in every reachable state.
LEMMA LogInvariant ==
  ASSUME "ghost" \notin Tears, ReadsFail = FALSE PROVE Spec => []LogInv
<1>1. Init /\ OrderInv => LogInv
  <2> SUFFICES ASSUME Init, OrderInv PROVE LogInv
    OBVIOUS
  <2>1. SampleInv
    BY DEF Init, SampleInv, NoSample
  <2>2. \A s \in Sectors, k \in Slots : ~Stored(s, k)
    BY DEF Init, Stored
  <2> QED
    BY <2>1, <2>2 DEF LogInv, IdInv, IdOrder
<1>2. LogInv /\ [Next]_vars => LogInv'
  BY LogInvStep
<1>3. Spec => []OrderInv
  BY OrderInvariant
<1> QED
  BY <1>1, <1>2, <1>3, PTL DEF Spec

\* Chronological order: of two records that ntc_history_iterate can reach, the
\* one it emits first was sampled first and has the smaller sequence number,
\* through any number of torn records, failed writes and erases, and restarts.
THEOREM ChronologicalOrder ==
  ASSUME "ghost" \notin Tears, ReadsFail = FALSE PROVE Spec => []Chronological
<1>1. LogInv => Chronological
  <2> SUFFICES ASSUME LogInv, NEW s \in Sectors, NEW t \in Sectors, NEW j \in Slots,
                      NEW k \in Slots, Visible(s, j), Visible(t, k), Before(s, j, t, k)
               PROVE  slot[s][j].id < slot[t][k].id /\ slot[s][j].seq < slot[t][k].seq
    BY DEF Chronological
  <2>1. Stored(s, j) /\ Stored(t, k)
    <3>1. j \in 0 .. j /\ k \in 0 .. k
      BY SlotsAssumption DEF Slots
    <3> QED
      BY <3>1 DEF Visible, Stored
  <2>2. /\ slot[s][j].seq = hdr[s] + j /\ slot[t][k].seq = hdr[t] + k
        /\ hdr[s] \in Nat /\ hdr[t] \in Nat /\ j \in Nat /\ k \in Nat
    BY <2>1, SlotsAssumption
       DEF LogInv, OrderInv, NumberingInv, RecordNumbering, Stored, TypeOK, Slots
  <2>3. slot[s][j].seq < slot[t][k].seq
    <3>1. CASE hdr[s] < hdr[t]
      <4>1. hdr[s] + j < hdr[t]
        BY <2>1, <3>1 DEF LogInv, OrderInv, RangesApart
      <4> QED
        BY <2>2, <4>1
    <3>2. CASE s = t /\ j < k
      BY <2>2, <3>2
    <3> QED
      BY <3>1, <3>2 DEF Before
  <2> QED
    BY <2>1, <2>3 DEF LogInv, IdOrder
<1> QED
  BY <1>1, LogInvariant, PTL

-----------------------------------------------------------------------------
(***************************************************************************)
(* What the log loses: an erase takes the oldest records, and a flush      *)
(* loses no sample.                                                        *)
(***************************************************************************)
\* A record that can be reached is stored, and one that is stored is reached.
LEMMA VisibleStored ==
  ASSUME TailInv, NEW s \in Sectors, NEW k \in Slots
  PROVE  Visible(s, k) <=> Stored(s, k)
<1>1. k \in Nat /\ \A j \in 0 .. k : j \in Slots /\ (j = k \/ j < k)
  BY SlotsAssumption DEF Slots
<1>2. Visible(s, k) => Stored(s, k)
  BY <1>1 DEF Visible, Stored
<1>3. Stored(s, k) => Visible(s, k)
  <2> SUFFICES ASSUME Stored(s, k), NEW j \in 0 .. k PROVE record_is_valid(slot[s][j])
    BY DEF Visible, Stored
  <2>1. slot[s][k].st # "empty" /\ hdr[s] # NoHeader
    BY DEF Stored, record_is_valid
  <2>2. j < k => record_is_valid(slot[s][j])
    BY <1>1, <2>1 DEF TailInv, NoHiddenRecord
  <2> QED
    BY <1>1, <2>2 DEF Stored
<1> QED
  BY <1>2, <1>3

\* So what the readers find is what is stored.
StoredId(x) == \E s \in Sectors, k \in Slots : Stored(s, k) /\ slot[s][k].id = x

VisibleAreStored == TailInv => \A x : x \in VisibleIds <=> StoredId(x)

\* It is, on a flash that TailInv describes.
LEMMA VisibleIdsAre == VisibleAreStored
<1> SUFFICES ASSUME TailInv, NEW x PROVE x \in VisibleIds <=> StoredId(x)
  BY DEF VisibleAreStored
<1>1. x \in VisibleIds <=>
        \E s \in Sectors, k \in Slots : Visible(s, k) /\ slot[s][k].id = x
  <2>1. ASSUME NEW s \in Sectors, NEW k \in Slots, Visible(s, k), slot[s][k].id = x
        PROVE  x \in VisibleIds
    <3>1. <<s, k>> \in {q \in Sectors \X Slots : Visible(q[1], q[2])}
      BY <2>1
    <3> QED
      BY <2>1, <3>1 DEF VisibleIds
  <2>2. ASSUME x \in VisibleIds
        PROVE  \E s \in Sectors, k \in Slots : Visible(s, k) /\ slot[s][k].id = x
    <3>1. PICK q \in Sectors \X Slots : Visible(q[1], q[2]) /\ slot[q[1]][q[2]].id = x
      BY <2>2 DEF VisibleIds
    <3>2. q[1] \in Sectors /\ q[2] \in Slots
      BY <3>1
    <3> QED
      BY <3>1, <3>2
  <2> QED
    BY <2>1, <2>2
<1> QED
  BY <1>1, VisibleStored DEF StoredId

\* A step that is not an erase keeps every stored record, or a copy of it.
LEMMA StoredKept ==
  ASSUME LogInv, "ghost" \notin Tears, [Next]_vars, pc # "erase",
         NEW s \in Sectors, NEW k \in Slots, Stored(s, k)
  PROVE  Stored(s, k)' /\ slot'[s][k].id = slot[s][k].id /\ hdr'[s] = hdr[s]
<1>0. /\ TypeOK /\ LockHolder /\ TailInv
      /\ hdr[s] # NoHeader /\ slot[s][k].st = "valid"
  BY DEF LogInv, OrderInv, NumberingInv, Stored, record_is_valid
<1>1. ASSUME hdr' = hdr, slot'[s][k].st = "valid", slot'[s][k].id = slot[s][k].id
      PROVE  Stored(s, k)' /\ slot'[s][k].id = slot[s][k].id /\ hdr'[s] = hdr[s]
  BY <1>0, <1>1 DEF Stored, record_is_valid
<1>2. CASE UNCHANGED flash
  BY <1>0, <1>1, <1>2 DEF flash
<1>3. CASE Writing /\ UNCHANGED hdr
           /\ \E v \in {Program(OldSlot, NewRecord)} \cup Interrupted(OldSlot, NewRecord) :
                SetSlot(v)
  <2>1. PICK v \in {Program(OldSlot, NewRecord)} \cup Interrupted(OldSlot, NewRecord) :
          SetSlot(v)
    BY <1>3
  <2>2. AtCursor(v) /\ Free(OldSlot) /\ Writing
    BY <1>0, <1>3, <2>1, WrittenAtCursor
  <2>3. slot'[s][k] = IF s = s_cur_sector /\ k = s_cur_slot THEN v ELSE slot[s][k]
    BY <1>0, <1>3, <2>1, <2>2, SetSlotTail
  <2>4. ASSUME s = s_cur_sector, k = s_cur_slot
        PROVE  v.st = "valid" /\ v.id = slot[s][k].id
    <3>1. OldSlot = slot[s][k]
      BY <2>4 DEF OldSlot
    <3>2. Program(OldSlot, NewRecord) = NewRecord
      BY <2>2, FreeSlot DEF Writing
    <3>3. v = OldSlot \/ v = NewRecord
      BY <1>0, <2>1, <3>1, <3>2 DEF Interrupted, record_is_empty
    <3>4. NewRecord.st = "valid" /\ NewRecord.id = OldSlot.id
      BY <1>0, <2>2, <3>1 DEF Free, NewRecord
    <3> QED
      BY <1>0, <3>1, <3>3, <3>4
  <2> QED
    BY <1>0, <1>1, <1>3, <2>3, <2>4
<1>4. CASE pc = "header" /\ slot' = slot
           /\ \E h \in {NoHeader, HeaderSeq} : hdr' = [hdr EXCEPT ![next] = h]
  <2>1. s # next
    BY <1>0, <1>4 DEF LockHolder
  <2> QED
    BY <1>0, <1>4, <2>1 DEF TypeOK, Stored, record_is_valid
<1>5. \/ UNCHANGED flash
      \/ HalfWrite \/ WriteRecord
      \/ WriteHeader \/ HalfHeader
  BY DEF Next, LogStep, Boot, EraseSector, AddRecord, Flush, FlushDone, AdvanceSector,
         FlashError, PowerLoss, HalfErase, vars
<1>6. HalfWrite \/ WriteRecord => Writing /\ UNCHANGED hdr
        /\ \E v \in {Program(OldSlot, NewRecord)} \cup Interrupted(OldSlot, NewRecord) :
             SetSlot(v)
  BY DEF HalfWrite, WriteRecord
<1>7. WriteHeader \/ HalfHeader => pc = "header" /\ slot' = slot
        /\ \E h \in {NoHeader, HeaderSeq} : hdr' = [hdr EXCEPT ![next] = h]
  BY DEF WriteHeader, HalfHeader
<1> QED
  BY <1>2, <1>3, <1>4, <1>5, <1>6, <1>7

\* An erase takes what Target holds, and leaves the others as they are.
LEMMA ErasedOnly ==
  ASSUME LogInv, [Next]_vars, pc = "erase"
  PROVE  \/ UNCHANGED flash
         \/ /\ Closed /\ Target \in Sectors
            /\ \A s \in Sectors, k \in Slots :
                 /\ Stored(s, k)' => s \in Others
                 /\ s \in Others => /\ Stored(s, k)' = Stored(s, k)
                                    /\ slot'[s] = slot[s] /\ hdr'[s] = hdr[s]
<1>1. \/ UNCHANGED flash
      \/ EraseSector \/ HalfErase
  BY DEF Next, LogStep, Boot, AddRecord, Flush, FlushDone, AdvanceSector, WriteHeader,
         WriteRecord, Writing, HalfWrite, HalfHeader, FlashError, PowerLoss, vars
<1> SUFFICES ASSUME \E m, h, c : Renews(m, h, c)
             PROVE  /\ Closed /\ Target \in Sectors
                    /\ \A s \in Sectors, k \in Slots :
                         /\ Stored(s, k)' => s \in Others
                         /\ s \in Others => /\ Stored(s, k)' = Stored(s, k)
                                            /\ slot'[s] = slot[s] /\ hdr'[s] = hdr[s]
  BY <1>1, Renewing DEF LogInv
<1>2. PICK m, h, c : Renews(m, h, c)
  OBVIOUS
<1>3. /\ Closed /\ m = Target /\ m \in Sectors
      /\ \A t \in Others : hdr'[t] = hdr[t] /\ slot'[t] = slot[t]
      /\ \A k \in Slots : ~Stored(m, k)'
      /\ \A t \in Sectors : t = m \/ t \in Others
  BY <1>2, RenewedTarget DEF LogInv
<1> QED
  BY <1>3 DEF Stored, record_is_valid

\* The records of Target were sampled before those of the other sectors, unless
\* there are twins.
LEMMA TargetOldest ==
  ASSUME LogInv, Closed, ~Twins,
         NEW j \in Slots, Target \in Sectors, Stored(Target, j),
         NEW t \in Others, NEW k \in Slots, Stored(t, k)
  PROVE  slot[Target][j].id < slot[t][k].id
<1>1. PICK m \in Sectors : m = Target
  OBVIOUS
<1>2. /\ t \in Sectors /\ t # m /\ hdr[m] # NoHeader /\ hdr[t] # NoHeader
      /\ hdr[m] # hdr[t] /\ s_cur_sector \in Sectors
  BY <1>1 DEF Others, Stored, Twins, LogInv, OrderInv, NumberingInv, TypeOK
<1>3. hdr[m] <= hdr[t]
  BY <1>1, <1>2 DEF LogInv, OrderInv, OldestNext, Twins
<1>4. /\ hdr[m] \in Nat /\ hdr[t] \in Nat /\ j \in Nat /\ k \in Nat
      /\ slot[m][j].seq = hdr[m] + j /\ slot[t][k].seq = hdr[t] + k
      /\ Stored(m, j)
  BY <1>1, <1>2, SlotsAssumption
     DEF LogInv, OrderInv, NumberingInv, RecordNumbering, Stored, TypeOK, Slots
<1>5. hdr[m] + j < hdr[t]
  BY <1>2, <1>3, <1>4 DEF LogInv, OrderInv, RangesApart
<1>6. slot[m][j].seq < slot[t][k].seq
  BY <1>4, <1>5
<1> QED
  BY <1>1, <1>2, <1>4, <1>6 DEF LogInv, IdOrder

\* What a step makes unreadable is older than what it leaves readable.
LEMMA OldestFirstStep ==
  ASSUME LogInv, "ghost" \notin Tears, ReadsFail = FALSE, [Next]_vars, ~Twins
  PROVE  LosesOldestFirst
<1>0. TailInv /\ TailInv'
  BY LogInvStep DEF LogInv, OrderInv
<1> SUFFICES ASSUME NEW x \in VisibleIds \ VisibleIds', NEW y \in VisibleIds \cap VisibleIds'
             PROVE  x < y
  BY DEF LosesOldestFirst
<1>1. PICK s \in Sectors, j \in Slots : Stored(s, j) /\ slot[s][j].id = x
  BY <1>0, VisibleIdsAre DEF VisibleAreStored, StoredId
<1>2. VisibleAreStored'
  BY VisibleIdsAre, PTL
<1>3. PICK t \in Sectors, k \in Slots : Stored(t, k)' /\ slot'[t][k].id = y
  BY <1>0, <1>2 DEF VisibleAreStored, StoredId
<1>4. ~(Stored(s, j)' /\ slot'[s][j].id = x)
  BY <1>0, <1>2 DEF VisibleAreStored, StoredId
<1>5. pc = "erase"
  BY <1>1, <1>4, StoredKept
<1>6. ~UNCHANGED flash
  BY <1>1, <1>4 DEF flash, Stored, record_is_valid
<1>7. /\ Closed /\ Target \in Sectors /\ t \in Others
      /\ Stored(t, k) /\ slot[t][k].id = y
      /\ s \notin Others
  BY <1>1, <1>3, <1>4, <1>5, <1>6, ErasedOnly
<1>8. s = Target
  BY <1>7 DEF Others
<1> QED
  BY <1>1, <1>7, <1>8, TargetOldest

\* As long as no two sectors have the same number, what the log drops is older
\* than everything it keeps, even when a write can be torn.
THEOREM OldestGoesFirst ==
  ASSUME "ghost" \notin Tears, ReadsFail = FALSE PROVE Spec => RingExceptTwins
<1>1. LogInv /\ [Next]_vars => [Twins \/ LosesOldestFirst]_vars
  BY OldestFirstStep
<1> QED
  BY <1>1, LogInvariant, PTL DEF Spec, RingExceptTwins

-----------------------------------------------------------------------------
(***************************************************************************)
(* Without torn records there are no twins: only a sector that holds no    *)
(* record leaves its number to the next one, and the boot scan does not    *)
(* close a sector whose first slot is blank.                               *)
(***************************************************************************)
NoTorn == \A s \in Sectors, k \in Slots : hdr[s] # NoHeader => slot[s][k].st # "torn"

\* With a header, Target would be no twin, and it holds nothing torn.
LEMMA RenewedTwins ==
  ASSUME OrderInv, NoTorn, ~Twins, NEW m, NEW h, NEW c, Renews(m, h, c)
  PROVE  NoTorn' /\ ~Twins'
<1>1. /\ Closed /\ m = Target /\ m \in Sectors /\ hdr'[m] = h
      /\ \A t \in Others : t \in Sectors /\ hdr'[t] = hdr[t] /\ slot'[t] = slot[t]
      /\ \A t \in Sectors : t = m \/ t \in Others
  BY RenewedTarget
<1>2. slot'[m] = c
  BY <1>1 DEF Renews, OrderInv, NumberingInv, TypeOK
<1>3. NoTorn'
  BY <1>1, <1>2 DEF NoTorn, Renews, BlankSlots, Empty
<1>4. 0 \in Slots
  BY SlotsAssumption DEF Slots
<1>5. \A t \in Others : hdr[t] # NoHeader => hdr[t] # h
  <2> SUFFICES ASSUME NEW t \in Others, hdr[t] # NoHeader, hdr[t] = h PROVE FALSE
    OBVIOUS
  <2>1. hdr[t] = s_last_seq + 1
    BY DEF Renews, HeaderSeq
  <2>2. Torn0(t) /\ t \in Sectors
    BY <1>1, <2>1 DEF OrderInv, ClosedInv
  <2> QED
    BY <1>4, <2>2 DEF Torn0, NoTorn
<1>6. ~Twins'
  <2> SUFFICES ASSUME NEW s \in Sectors, NEW t \in Sectors, s # t, hdr'[s] # NoHeader,
                      hdr'[s] = hdr'[t]
               PROVE  FALSE
    BY DEF Twins
  <2>1. CASE s = m \/ t = m
    BY <1>1, <1>5, <2>1
  <2>2. CASE s # m /\ t # m
    BY <1>1, <2>2 DEF Twins
  <2> QED
    BY <2>1, <2>2
<1> QED
  BY <1>3, <1>6

\* No step tears a record or makes twins.
LEMMA NoTwinsStep ==
  ASSUME LogInv, NoTorn, ~Twins, Tears = {}, [Next]_vars
  PROVE  NoTorn' /\ ~Twins'
<1>0. OrderInv /\ TailInv /\ TypeOK
  BY DEF LogInv, OrderInv, NumberingInv
<1>1. CASE UNCHANGED flash
  BY <1>1 DEF flash, NoTorn, Twins
<1>2. CASE HalfWrite \/ WriteRecord
  <2>1. Writing /\ UNCHANGED hdr
    BY <1>2 DEF HalfWrite, WriteRecord
  <2>2. PICK v \in {Program(OldSlot, NewRecord)} \cup Interrupted(OldSlot, NewRecord) :
          SetSlot(v)
    BY <1>2 DEF HalfWrite, WriteRecord
  <2>3. AtCursor(v) /\ Free(OldSlot)
    BY <1>0, <2>1, <2>2, WrittenAtCursor
  <2>4. v = OldSlot \/ v = NewRecord
    BY <2>1, <2>2, <2>3, FreeSlot DEF Writing
  <2>5. /\ s_cur_slot \in Slots /\ s_cur_sector \in Sectors
        /\ \A s \in Sectors, k \in Slots :
             slot'[s][k] = IF s = s_cur_sector /\ k = s_cur_slot THEN v ELSE slot[s][k]
    BY <1>0, <2>1, <2>2, <2>3, SetSlotTail
  <2>6. NewRecord.st # "torn"
    BY DEF NewRecord
  <2>7. NoTorn'
    BY <2>1, <2>4, <2>5, <2>6 DEF NoTorn, OldSlot
  <2> QED
    BY <2>1, <2>7 DEF Twins
<1>3. CASE EraseSector \/ WriteHeader \/ HalfErase \/ HalfHeader
  BY <1>0, <1>1, <1>3, Renewing, RenewedTwins
<1> QED
  BY <1>1, <1>2, <1>3
     DEF Next, LogStep, Boot, AddRecord, Flush, FlushDone, AdvanceSector, FlashError,
         PowerLoss, vars

\* The log is a ring: what it drops is older than everything it keeps, through
\* any number of failed writes and erases, and restarts, as long as a write that
\* is cut short leaves the whole record or nothing.
THEOREM LogIsRing ==
  ASSUME Tears = {}, ReadsFail = FALSE PROVE Spec => RingOnly
<1>1. Init => NoTorn /\ ~Twins
  BY DEF Init, NoTorn, Twins
<1>2. LogInv /\ NoTorn /\ ~Twins /\ [Next]_vars => NoTorn' /\ ~Twins'
  BY NoTwinsStep
<1>3. LogInv /\ NoTorn /\ ~Twins /\ [Next]_vars => [LosesOldestFirst]_vars
  BY OldestFirstStep
<1>4. Spec => []LogInv
  BY LogInvariant
<1> QED
  BY <1>1, <1>2, <1>3, <1>4, PTL DEF Spec, RingOnly

-----------------------------------------------------------------------------
(***************************************************************************)
(* A flush loses no sample.  What flush_locked has written leaves the RAM  *)
(* buffer only when it returns, and in between it may erase a sector: if   *)
(* the buffer held more than a sector, that could be one it has just       *)
(* written.  RAM_BUFFER_RECORDS is 16 and RECORDS_PER_SECTOR 126.          *)
(***************************************************************************)
BufferFits == RamRecords <= RecordsPerSector /\ NumSectors > 1

\* A sector that was closed by writing is full.
FullInv ==
  s_ready /\ s_cur_slot >= RecordsPerSector =>
    /\ hdr[s_cur_sector] # NoHeader
    /\ \A k \in Slots : record_is_valid(slot[s_cur_sector][k])
    /\ s_last_seq + 1 = hdr[s_cur_sector] + RecordsPerSector

\* The samples that flush_locked has written are the last records of the log.
FlushedInv ==
  \A i \in 1 .. flush_i : \E s \in Sectors, k \in Slots :
    /\ Stored(s, k) /\ slot[s][k].id = s_ram_buf[i]
    /\ hdr[s] + k = s_last_seq - flush_i + i

FlushInv == LogInv /\ FullInv /\ FlushedInv

\* Of two sectors the next one is another one.
LEMMA NextIsOther ==
  ASSUME NumSectors > 1, NEW c \in Sectors PROVE NextSector(c) # c
BY NextSectorIs, SectorsAssumption DEF Sectors

\* While it flushes, Target holds no record of the last sector's worth of them.
LEMMA TargetIsOlder ==
  ASSUME LogInv, FullInv, BufferFits, s_ready, Closed,
         NEW k \in Slots, Stored(Target, k)
  PROVE  hdr[Target] + k < s_last_seq + 1 - RecordsPerSector
<1>1. PICK c \in Sectors : c = s_cur_sector
  BY DEF LogInv, OrderInv, NumberingInv, TypeOK
<1>2. PICK m \in Sectors : m = Target /\ m = NextSector(c)
  BY <1>1, NextSectorIs DEF Target
<1>3. m # c /\ c \in Others
  BY <1>1, <1>2, NextIsOther DEF Others, BufferFits
<1>4. /\ hdr[c] # NoHeader /\ s_last_seq + 1 = hdr[c] + RecordsPerSector
      /\ \A j \in Slots : record_is_valid(slot[c][j])
  <2>1. s_cur_slot >= RecordsPerSector
    BY SlotsAssumption DEF Closed, Open, LogInv, OrderInv, NumberingInv, TypeOK
  <2> QED
    BY <1>1, <2>1 DEF FullInv
<1>5. /\ hdr[c] \in Nat /\ hdr[m] \in Nat /\ k \in Nat /\ s_last_seq \in Nat
      /\ Stored(m, k) /\ hdr[m] # NoHeader /\ 0 \in Slots
  BY <1>2, SlotsAssumption DEF LogInv, OrderInv, NumberingInv, TypeOK, Slots, Stored
<1>6. Stored(c, 0)
  BY <1>4, <1>5 DEF Stored
<1>7. ~Torn0(c) /\ ~Torn0(m)
  BY <1>5, <1>6, StoredNotTorn DEF LogInv, OrderInv
<1>8. hdr[m] <= hdr[c]
  BY <1>1, <1>2, <1>3, <1>4, <1>5 DEF LogInv, OrderInv, OldestNext
<1>9. hdr[m] # hdr[c]
  <2> SUFFICES ASSUME hdr[m] = hdr[c] PROVE FALSE
    OBVIOUS
  <2>1. PICK p \in Sectors : IsHead(p, Sectors)
    BY <1>4 DEF LogInv, OrderInv, Headed, Unused
  <2>2. IsHead(c, Others)
    BY <1>1, <1>3, <1>4 DEF LogInv, OrderInv, ClosedInv, Unused
  <2>3. hdr[p] = hdr[c]
    <3>1. p = m \/ p \in Others
      BY <1>2 DEF Others
    <3>2. hdr[p] <= hdr[c] /\ hdr[c] <= hdr[p] /\ hdr[p] \in Nat
      BY <2>1, <2>2, <3>1 DEF IsHead, LogInv, OrderInv, NumberingInv, TypeOK
    <3> QED
      BY <1>5, <3>2
  <2> QED
    BY <1>3, <1>7, <2>1, <2>3 DEF IsHead
<1>10. hdr[m] + k < hdr[c]
  BY <1>5, <1>8, <1>9 DEF LogInv, OrderInv, RangesApart
<1> QED
  BY <1>2, <1>4, <1>5, <1>10, SlotsAssumption

\* The samples that have been written stay readable through the next step.
LEMMA FlushedStay ==
  ASSUME FlushInv, BufferFits, "ghost" \notin Tears, [Next]_vars, NEW i \in 1 .. flush_i
  PROVE  \E s \in Sectors, k \in Slots :
           /\ Stored(s, k)' /\ slot'[s][k].id = s_ram_buf[i]
           /\ hdr'[s] + k = s_last_seq - flush_i + i
<1>1. PICK s \in Sectors, k \in Slots :
        /\ Stored(s, k) /\ slot[s][k].id = s_ram_buf[i]
        /\ hdr[s] + k = s_last_seq - flush_i + i
  BY DEF FlushInv, FlushedInv
<1>2. LogInv /\ FullInv
  BY DEF FlushInv
<1>3. CASE pc # "erase"
  BY <1>1, <1>2, <1>3, StoredKept
<1>4. CASE UNCHANGED flash
  BY <1>1, <1>4 DEF flash, Stored, record_is_valid
<1>5. CASE pc = "erase" /\ ~UNCHANGED flash
  <2>1. /\ flush_i \in Nat /\ flush_i <= RamRecords /\ s_last_seq \in Nat
        /\ flush_i # 0 /\ i \in Nat /\ 0 < i /\ i <= flush_i
        /\ hdr[s] \in Nat /\ k \in Nat
    BY <1>2, SlotsAssumption, RamAssumption
       DEF LogInv, OrderInv, NumberingInv, TypeOK, Slots
  <2>2. s_ready
    BY <1>2, <2>1 DEF LogInv, SampleInv
  <2>3. /\ Closed /\ Target \in Sectors
        /\ s \in Others => /\ Stored(s, k)' = Stored(s, k)
                           /\ slot'[s] = slot[s] /\ hdr'[s] = hdr[s]
    BY <1>2, <1>5, ErasedOnly
  <2>4. s # Target
    <3> SUFFICES ASSUME s = Target PROVE FALSE
      OBVIOUS
    <3>1. hdr[s] + k < s_last_seq + 1 - RecordsPerSector
      BY <1>1, <1>2, <2>2, <2>3, TargetIsOlder
    <3>2. s_last_seq - flush_i + i >= s_last_seq + 1 - RecordsPerSector
      BY <2>1, RamAssumption, SlotsAssumption DEF BufferFits
    <3> QED
      BY <1>1, <2>1, <3>1, <3>2, SlotsAssumption
  <2>5. s \in Others
    BY <2>4 DEF Others
  <2> QED
    BY <1>1, <2>3, <2>5
<1> QED
  BY <1>3, <1>4, <1>5

\* A full sector stays full until the cursor leaves it.
LEMMA FullStep ==
  ASSUME LogInv, FullInv, NumSectors > 1, "ghost" \notin Tears, [Next]_vars
  PROVE  FullInv'
<1>0. OrderInv /\ TailInv /\ TypeOK /\ LockHolder /\ CursorNumbering
  BY DEF LogInv, OrderInv, NumberingInv
<1>1. ASSUME UNCHANGED cursor,
             UNCHANGED flash \/ EraseSector \/ HalfErase \/ HalfHeader
      PROVE  FullInv'
  <2> SUFFICES ASSUME s_ready', s_cur_slot' >= RecordsPerSector PROVE FullInv'
    BY DEF FullInv
  <2>1. PICK c \in Sectors : c = s_cur_sector
    BY <1>0 DEF TypeOK
  <2>2. /\ s_ready /\ s_cur_slot >= RecordsPerSector /\ s_cur_sector' = c
        /\ s_last_seq' = s_last_seq
    BY <1>1, <2>1 DEF cursor
  <2>3. /\ hdr[c] # NoHeader /\ \A k \in Slots : record_is_valid(slot[c][k])
        /\ s_last_seq + 1 = hdr[c] + RecordsPerSector
    BY <2>1, <2>2 DEF FullInv
  <2>4. c \in Others
    BY <2>1, <2>2, NextIsOther DEF Target, Others
  <2>5. hdr'[c] = hdr[c] /\ slot'[c] = slot[c]
    <3>1. CASE UNCHANGED flash
      BY <3>1 DEF flash
    <3>2. CASE \E m, h, d : Renews(m, h, d)
      BY <1>0, <2>4, <3>2, RenewedTarget
    <3> QED
      BY <1>0, <1>1, <3>1, <3>2, Renewing
  <2> QED
    BY <2>2, <2>3, <2>5 DEF FullInv, record_is_valid
<1>2. CASE Boot
  BY <1>2 DEF Boot, BootFormat, BootResume, FullInv
<1>3. CASE WriteHeader
  BY <1>3, SlotsAssumption DEF WriteHeader, CursorAfterAdvance, FullInv
<1>4. CASE EraseSector \/ AddRecord \/ Flush \/ FlushDone \/ AdvanceSector
  BY <1>1, <1>4 DEF EraseSector, AddRecord, Flush, FlushDone, AdvanceSector
<1>5. CASE WriteRecord
  <2>1. PICK v : v = Program(OldSlot, NewRecord)
    OBVIOUS
  <2>2. Writing /\ SetSlot(v) /\ UNCHANGED hdr /\ AtCursor(v) /\ Free(OldSlot)
    BY <1>0, <1>5, <2>1, WrittenAtCursor DEF WriteRecord
  <2>3. v = NewRecord
    BY <2>1, <2>2, FreeSlot DEF Writing
  <2>4. PICK c \in Sectors : c = s_cur_sector
    BY <1>0 DEF TypeOK
  <2>5. \A k \in Slots : slot'[c][k] = IF k = s_cur_slot THEN v ELSE slot[c][k]
    BY <1>0, <2>2, <2>4, SetSlotTail
  <2>6. Open /\ s_cur_slot \in Nat /\ s_last_seq \in Nat /\ hdr[c] \in Nat
    BY <1>0, <2>2, SlotsAssumption DEF Writing, LockHolder, Open, TypeOK
  <2>7. hdr[c] # NoHeader /\ s_last_seq + 1 = hdr[c] + s_cur_slot
    BY <1>0, <2>4, <2>6 DEF CursorNumbering, Open
  <2>8. \A k \in Slots : k < s_cur_slot => record_is_valid(slot[c][k])
    BY <1>0, <2>4, <2>6 DEF TailInv, CursorTail, Open
  <2>9. /\ s_cur_slot' = s_cur_slot + 1 /\ s_last_seq' = s_last_seq + 1
        /\ s_cur_sector' = c /\ hdr' = hdr
    BY <1>5, <2>4 DEF WriteRecord
  <2>10. ASSUME s_cur_slot' >= RecordsPerSector
         PROVE  FullInv'
    <3>1. s_cur_slot + 1 = RecordsPerSector
      BY <2>6, <2>9, <2>10, SlotsAssumption DEF Open
    <3>2. \A k \in Slots : record_is_valid(slot'[c][k])
      <4>1. \A k \in Slots : k = s_cur_slot \/ k < s_cur_slot
        BY <2>6, <3>1, SlotsAssumption DEF Slots
      <4>2. record_is_valid(v)
        BY <2>3 DEF NewRecord, record_is_valid
      <4> QED
        BY <2>5, <2>8, <4>1, <4>2
    <3>3. s_last_seq' + 1 = hdr[c] + RecordsPerSector
      BY <2>6, <2>7, <2>9, <3>1
    <3> QED
      BY <2>7, <2>9, <3>2, <3>3 DEF FullInv, record_is_valid
  <2> QED
    BY <2>10 DEF FullInv
<1>6. CASE FlashError /\ s_ready
  <2>1. UNCHANGED cursor
    BY <1>6 DEF FlashError
  <2>2. CASE HalfWrite
    <3>1. s_cur_slot < RecordsPerSector /\ s_cur_slot' = s_cur_slot
      BY <2>1, <2>2 DEF HalfWrite, Writing, cursor
    <3> QED
      BY <1>0, <3>1, SlotsAssumption DEF FullInv, TypeOK
  <2> QED
    BY <1>1, <1>6, <2>1, <2>2 DEF FlashError
<1>7. CASE (FlashError /\ ~s_ready) \/ PowerLoss
  BY <1>7 DEF FlashError, PowerLoss, Reset, FullInv
<1>8. CASE UNCHANGED vars
  BY <1>1, <1>8 DEF vars
<1> QED
  BY <1>2, <1>3, <1>4, <1>5, <1>6, <1>7, <1>8 DEF Next, LogStep

\* Every step keeps the written samples readable until the flush returns.
LEMMA FlushStep ==
  ASSUME FlushInv, BufferFits, "ghost" \notin Tears, ReadsFail = FALSE, [Next]_vars
  PROVE  FlushInv'
<1>0. LogInv /\ OrderInv /\ TailInv /\ TypeOK /\ LogInv' /\ FullInv'
  BY LogInvStep, FullStep DEF FlushInv, LogInv, OrderInv, NumberingInv, BufferFits
<1> SUFFICES FlushedInv'
  BY <1>0 DEF FlushInv
<1>1. CASE flush_i' = 0
  BY <1>1 DEF FlushedInv
<1>2. CASE /\ flush_i' = flush_i /\ s_ram_buf' = s_ram_buf
           /\ s_last_seq' = s_last_seq \/ flush_i = 0
  BY <1>2, FlushedStay DEF FlushedInv, Stored, record_is_valid
<1>3. CASE WriteRecord
  <2>1. PICK v : v = Program(OldSlot, NewRecord)
    OBVIOUS
  <2>2. Writing /\ SetSlot(v) /\ UNCHANGED hdr /\ AtCursor(v) /\ Free(OldSlot)
    BY <1>0, <1>3, <2>1, WrittenAtCursor DEF WriteRecord
  <2>3. v = NewRecord
    BY <2>1, <2>2, FreeSlot DEF Writing
  <2>4. PICK c \in Sectors, l \in Slots : c = s_cur_sector /\ l = s_cur_slot
    BY <1>0, <2>2, WritingType DEF TypeOK
  <2>5. slot'[c][l] = v
    BY <1>0, <2>2, <2>4, SetSlotTail
  <2>6. hdr[c] # NoHeader /\ s_last_seq + 1 = hdr[c] + l
    BY <1>0, <2>2, <2>4
       DEF LogInv, OrderInv, NumberingInv, LockHolder, CursorNumbering, Writing
  <2>7. /\ flush_i' = flush_i + 1 /\ s_last_seq' = s_last_seq + 1
        /\ s_ram_buf' = s_ram_buf /\ hdr' = hdr
        /\ flush_i \in Nat /\ s_last_seq \in Nat
    BY <1>0, <1>3 DEF WriteRecord, TypeOK
  <2>8. Stored(c, l)' /\ slot'[c][l].id = s_ram_buf[flush_i + 1]
    BY <2>3, <2>5, <2>6, <2>7 DEF Stored, NewRecord, record_is_valid
  <2>9. ASSUME NEW i \in 1 .. flush_i + 1
        PROVE  \E s \in Sectors, k \in Slots :
                 /\ Stored(s, k)' /\ slot'[s][k].id = s_ram_buf[i]
                 /\ hdr'[s] + k = (s_last_seq + 1) - (flush_i + 1) + i
    <3>1. s_last_seq - flush_i + i = (s_last_seq + 1) - (flush_i + 1) + i
      BY <2>7
    <3>2. CASE i \in 1 .. flush_i
      BY <3>1, <3>2, FlushedStay
    <3>3. CASE i = flush_i + 1
      BY <2>6, <2>7, <2>8, <3>3
    <3> QED
      BY <2>7, <3>2, <3>3
  <2> QED
    BY <2>7, <2>9 DEF FlushedInv, Stored, record_is_valid
<1>4. CASE Boot
  <2>1. flush_i = 0 /\ flush_i' = flush_i
    BY <1>0, <1>4 DEF LogInv, SampleInv, Boot, buffer
  <2> QED
    BY <1>1, <2>1
<1>5. CASE AddRecord
  <2>1. flush_i = 0 /\ flush_i' = flush_i
    BY <1>0, <1>5 DEF LogInv, SampleInv, AddRecord
  <2> QED
    BY <1>1, <2>1
<1>6. CASE EraseSector \/ WriteHeader \/ AdvanceSector \/ Flush \/ UNCHANGED vars
  BY <1>2, <1>6 DEF EraseSector, WriteHeader, AdvanceSector, Flush, vars, cursor, buffer
<1>7. CASE FlushDone \/ FlashError \/ PowerLoss
  BY <1>1, <1>7 DEF FlushDone, FlashError, PowerLoss, FinishFlush, Reset
<1> QED
  BY <1>3, <1>4, <1>5, <1>6, <1>7 DEF Next, LogStep

\* A step that takes a sample out of the buffer leaves it on flash.
LEMMA NoDropStep ==
  ASSUME FlushInv, BufferFits, "ghost" \notin Tears, ReadsFail = FALSE, [Next]_vars,
         NEW i \in 1 .. Len(s_ram_buf), pc' # "boot"
  PROVE  \/ \E j \in 1 .. Len(s_ram_buf') : s_ram_buf'[j] = s_ram_buf[i]
         \/ s_ram_buf[i] \in VisibleIds'
<1>0. TypeOK /\ TailInv'
  BY FlushStep DEF FlushInv, LogInv, OrderInv, NumberingInv
<1>1. Len(s_ram_buf) \in Nat /\ flush_i \in Nat /\ i \in Nat
  BY <1>0 DEF TypeOK
<1>2. CASE s_ram_buf' = s_ram_buf
  BY <1>2
<1>3. CASE s_ram_buf' = Append(s_ram_buf, sampled + 1)
  <2>1. sampled + 1 \in Nat
    BY <1>0, BoundsAssumption DEF TypeOK
  <2>2. /\ Len(Append(s_ram_buf, sampled + 1)) = Len(s_ram_buf) + 1
        /\ Append(s_ram_buf, sampled + 1)[i] = s_ram_buf[i]
    BY <1>0, <2>1, AppendProperties DEF TypeOK
  <2>3. i \in 1 .. Len(s_ram_buf) + 1
    BY <1>1
  <2> QED
    BY <1>3, <2>2, <2>3
<1>4. CASE FinishFlush(flush_i)
  <2>1. CASE i <= flush_i
    <3>1. i \in 1 .. flush_i
      BY <1>1, <2>1
    <3>2. PICK x : x = s_ram_buf[i]
      OBVIOUS
    <3>3. StoredId(x)'
      BY <3>1, <3>2, FlushedStay DEF StoredId
    <3>4. VisibleAreStored'
      BY VisibleIdsAre, PTL
    <3> QED
      BY <1>0, <3>2, <3>3, <3>4 DEF VisibleAreStored
  <2>2. CASE flush_i < i
    <3> DEFINE kept == FlushKeeps(flush_i)
               more == Append(kept, pend)
    <3>1. /\ kept \in Seq(Nat) /\ Len(kept) = Len(s_ram_buf) - flush_i
          /\ \A j \in 1 .. Len(s_ram_buf) - flush_i : kept[j] = s_ram_buf[flush_i + j]
          /\ pend \in Nat
      BY <1>0, KeptSamples DEF TypeOK
    <3>2. i - flush_i \in 1 .. Len(s_ram_buf) - flush_i /\ flush_i + (i - flush_i) = i
      BY <1>1, <2>2
    <3>3. kept[i - flush_i] = s_ram_buf[i]
      BY <3>1, <3>2
    <3>4. s_ram_buf' = kept \/ s_ram_buf' = more
      BY <1>4 DEF FinishFlush
    <3> HIDE DEF kept
    <3>5. Len(more) = Len(kept) + 1 /\ \A j \in 1 .. Len(kept) : more[j] = kept[j]
      BY <3>1, AppendProperties
    <3> HIDE DEF more
    <3>6. i - flush_i \in 1 .. Len(kept) /\ i - flush_i \in 1 .. Len(kept) + 1
      BY <1>1, <3>1, <3>2
    <3> QED
      BY <3>3, <3>4, <3>5, <3>6
  <2> QED
    BY <1>1, <2>1, <2>2
<1>5. \/ s_ram_buf' = s_ram_buf
      \/ s_ram_buf' = Append(s_ram_buf, sampled + 1)
      \/ FinishFlush(flush_i)
  BY DEF Next, LogStep, Boot, EraseSector, WriteHeader, AddRecord, Flush, FlushDone,
         AdvanceSector, WriteRecord, FlashError, PowerLoss, Reset, vars, buffer
<1> QED
  BY <1>2, <1>3, <1>4, <1>5

\* A sample leaves the RAM buffer only when it can be read from flash, or when
\* the device resets, whatever flash operation of the flush fails.
THEOREM FlushLosesNothing ==
  ASSUME "ghost" \notin Tears, ReadsFail = FALSE,
         RamRecords <= RecordsPerSector, NumSectors > 1
  PROVE  Spec => NoSilentDrop
<1>0. BufferFits
  BY DEF BufferFits
<1>1. Init /\ LogInv => FlushInv
  BY DEF Init, FlushInv, FullInv, FlushedInv
<1>2. FlushInv /\ [Next]_vars => FlushInv'
  BY <1>0, FlushStep
<1>3. FlushInv /\ [Next]_vars =>
        [\A i \in 1 .. Len(s_ram_buf) :
           \/ \E j \in 1 .. Len(s_ram_buf') : s_ram_buf'[j] = s_ram_buf[i]
           \/ s_ram_buf[i] \in VisibleIds'
           \/ pc' = "boot"]_vars
  BY <1>0, NoDropStep
<1>4. Spec => []LogInv
  BY LogInvariant
<1> QED
  BY <1>1, <1>2, <1>3, <1>4, PTL DEF Spec, NoSilentDrop

=============================================================================
