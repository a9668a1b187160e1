------------------------------- MODULE RingLog -------------------------------
(***************************************************************************)
(* What the history log promises, without sectors, headers, a cursor or a  *)
(* lock: samples wait in a short queue and move, oldest first, to the end  *)
(* of a log that lets go of its oldest records in blocks when it is full.  *)
(* A sample is refused only while the queue is full, and the samples that  *)
(* wait are lost only when the device goes down.                           *)
(***************************************************************************)
EXTENDS Naturals, Sequences

CONSTANTS
  Blocks,      \* blocks of the ring
  BlockSize,   \* records of a block
  QueueSize,   \* samples that can wait while no other is being offered
  MaxGiven     \* bound: samples

VARIABLES
  log,     \* the samples that can be read, in the order of reading
  queue,   \* the samples that wait, the one being offered last
  given,   \* samples offered so far
  up       \* whether the device runs

RingInit == log = <<>> /\ queue = <<>> /\ given = 0 /\ ~up

Offer ==
  /\ up /\ given < MaxGiven /\ Len(queue) <= QueueSize
  /\ given' = given + 1
  /\ queue' = Append(queue, given + 1)
  /\ UNCHANGED <<log, up>>

\* The log and the queue that remains when the oldest sample is stored, a block
\* is dropped, or neither.
Stored == IF queue = <<>> THEN {} ELSE {<<Append(log, Head(queue)), Tail(queue)>>}
Dropped ==
  IF Len(log) = Blocks * BlockSize
    THEN {<<SubSeq(log, BlockSize + 1, Len(log)), queue>>}
    ELSE {}
Moves == {<<log, queue>>} \cup Stored \cup Dropped

\* What a full queue may lose is the sample that came last.
Survivors(q) ==
  {q} \cup (IF Len(q) >= QueueSize THEN {SubSeq(q, 1, Len(q) - 1)} ELSE {})

Move ==
  /\ up
  /\ \E m \in Moves : log' = m[1] /\ queue' \in Survivors(m[2])
  /\ UNCHANGED <<given, up>>

GoDown ==
  /\ up /\ up' = FALSE
  /\ \E m \in Moves : log' = m[1]
  /\ queue' = <<>>
  /\ UNCHANGED given

ComeUp == ~up /\ up' = TRUE /\ UNCHANGED <<log, queue, given>>

RingNext == Offer \/ Move \/ GoDown \/ ComeUp
RingSpec == RingInit /\ [][RingNext]_<<log, queue, given, up>>
=============================================================================
