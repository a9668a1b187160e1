---------------------------- MODULE SamplerProofs ----------------------------
(***************************************************************************)
(* Theorems about the sampling chain, for any number of channels, any      *)
(* length of a tick, of a conversion and of the delays the scheduler adds. *)
(***************************************************************************)
EXTENDS Sampler, Integers, TLAPS

\* A tick is reached after Tick units of time.
LEMMA NextPhase ==
  ASSUME phase \in 0 .. Tick - 1
  PROVE  (phase + 1) % Tick = IF phase + 1 = Tick THEN 0 ELSE phase + 1
BY SamplerAssumption, SMT

-----------------------------------------------------------------------------
(***************************************************************************)
(* Type correctness.                                                       *)
(***************************************************************************)
\* The loop of ntc_reader_task works on a channel, or has seen all; it sleeps
\* after a selection and after the start of a conversion only.
LoopInv ==
  /\ pc \in {"select", "start", "read"} => i \in Channels
  /\ pc \in {"check", "rest"} => i = NumChannels
  /\ pc \notin {"start", "read"} => sleep = 0

\* The value of a failed reading is a value.
LEMMA InvalidType == Invalid \in Value
BY DEF Invalid, Value

\* A value that is converted is a value.
LEMMA ConvertedType ==
  ASSUME NEW v \in Value, NEW w \in Converted(v) PROVE w \in Value
<1>1. w \in {v, Invalid}
  BY DEF Converted
<1> QED
  BY <1>1, InvalidType

\* The converter's variables keep their types when time passes.
LEMMA ConvertType ==
  ASSUME SamplerTypeOK, Convert
  PROVE  conv' \in 0 .. Conversion /\ through' \in SUBSET Channels
BY SamplerAssumption DEF Convert, SamplerTypeOK

\* ntc_get_temp_celsius returns, and the loop goes on with the next channel.
LEMMA ReturnsType ==
  ASSUME SamplerTypeOK, LoopInv, pc \in {"start", "read"}, sleep = 0,
         NEW v \in Value, Returns(v, i + 1)
  PROVE  /\ pc' \in {"select", "check"} /\ i' \in 0 .. NumChannels
         /\ temps' \in [Channels -> Value] /\ record' \in [Channels -> Value]
         /\ sleep' \in 0 .. 1 /\ held' \in 0 .. MaxHold /\ phase' \in 0 .. Tick - 1
         /\ LoopInv'
<1>1. i \in Channels /\ i' = i + 1 /\ NumChannels \in Nat
  BY SamplerAssumption DEF LoopInv, Returns
<1>2. i + 1 \in 0 .. NumChannels /\ (i + 1 < NumChannels => i + 1 \in Channels)
      /\ (~(i + 1 < NumChannels) => i + 1 = NumChannels)
  BY <1>1 DEF Channels
<1>3. temps' \in [Channels -> Value] /\ record' \in [Channels -> Value]
  BY DEF Returns, SamplerTypeOK
<1>4. sleep' \in 0 .. 1 /\ held' \in 0 .. MaxHold /\ phase' \in 0 .. Tick - 1
  BY SamplerAssumption DEF Returns, SamplerTypeOK
<1>5. pc' \in {"select", "check"} /\ LoopInv'
  BY <1>1, <1>2 DEF Returns, MoreChannels, LoopInv
<1> QED
  BY <1>1, <1>2, <1>3, <1>4, <1>5

\* Every step keeps the variables well formed.
LEMMA SamplerTypeStep ==
  ASSUME SamplerTypeOK, LoopInv, [Next]_vars
  PROVE  SamplerTypeOK' /\ LoopInv'
<1>1. CASE Pass
  <2>1. phase' \in 0 .. Tick - 1
    BY <1>1, NextPhase, SamplerAssumption DEF Pass, SamplerTypeOK
  <2>2. sleep' \in 0 .. 1 /\ held' \in 0 .. MaxHold /\ (sleep = 0 => sleep' = 0)
    BY <1>1, SamplerAssumption DEF Pass, SamplerTypeOK
  <2>3. conv' \in 0 .. Conversion /\ reg' \in Value
    BY <1>1, SamplerAssumption DEF Pass, SamplerTypeOK, Result, Value
  <2> QED
    BY <1>1, <2>1, <2>2, <2>3 DEF Pass, SamplerTypeOK, LoopInv, task, history
<1>2. CASE SelectChannel
  <2>1. i \in Channels
    BY <1>2 DEF SelectChannel, Ready, LoopInv
  <2> QED
    BY <1>2, <2>1, SamplerAssumption
       DEF SelectChannel, Ready, Delay, SamplerTypeOK, LoopInv, history
<1>3. CASE StartConversion
  <2>1. i \in Channels
    BY <1>3 DEF StartConversion, Ready, LoopInv
  <2>2. late' \in SUBSET Channels
    BY <1>3, <2>1 DEF StartConversion, SamplerTypeOK
  <2>3. conv' \in 0 .. Conversion /\ through' \in SUBSET Channels
    BY <1>3, ConvertType DEF StartConversion
  <2> QED
    BY <1>3, <2>1, <2>2, <2>3, SamplerAssumption
       DEF StartConversion, Ready, Delay, ConversionDelay, SamplerTypeOK, LoopInv
<1>4. CASE ReadConversion
  <2>1. PICK v \in Converted(reg) : Returns(v, i + 1)
    BY <1>4 DEF ReadConversion
  <2>2. v \in Value
    BY <2>1, ConvertedType DEF SamplerTypeOK
  <2>3. pc \in {"start", "read"} /\ sleep = 0
    BY <1>4 DEF ReadConversion, Ready
  <2>4. UNCHANGED <<mux, conv, through, reg, broken, late, erred>>
    BY <1>4 DEF ReadConversion, converter, history
  <2> QED
    BY <2>1, <2>2, <2>3, <2>4, ReturnsType DEF SamplerTypeOK
<1>5. CASE TransferFails
  <2>1. Invalid \in Value
    BY InvalidType
  <2>2. pc \in {"start", "read"} /\ sleep = 0 /\ Returns(Invalid, i + 1)
    BY <1>5 DEF TransferFails, Ready, AfterFailure
  <2>3. conv' \in 0 .. Conversion /\ through' \in SUBSET Channels
    BY <1>5, ConvertType DEF TransferFails, SamplerTypeOK
  <2>4. UNCHANGED <<mux, reg, broken, late>> /\ erred' \in BOOLEAN
    BY <1>5 DEF TransferFails
  <2> QED
    BY <2>1, <2>2, <2>3, <2>4, ReturnsType DEF SamplerTypeOK
<1>6. CASE CheckRound
  <2>1. record' \in [Channels -> Value]
    BY <1>6, InvalidType DEF CheckRound, SamplerTypeOK, NoRecord, NoTemps
  <2> QED
    BY <1>6, <2>1 DEF CheckRound, Ready, SamplerTypeOK, LoopInv, time, converter, history
<1>7. CASE NextRound
  <2>1. temps' \in [Channels -> Value] /\ record' \in [Channels -> Value]
    BY <1>7, InvalidType DEF NextRound, NoRecord, NoTemps
  <2>2. reg' \in Value
    <3>1. Result \in Value /\ reg \in Value
      BY DEF SamplerTypeOK, Result, Value
    <3>2. PICK v \in Value : reg' = [v EXCEPT !.fresh = FALSE]
      BY <1>7, <3>1 DEF NextRound
    <3> QED
      BY <3>2 DEF Value
  <2>3. i' \in Channels /\ i' \in 0 .. NumChannels
    BY <1>7, SamplerAssumption DEF NextRound, Channels
  <2>4. sleep' \in 0 .. 1 /\ held' \in 0 .. MaxHold /\ phase' \in 0 .. Tick - 1
        /\ conv' \in 0 .. Conversion
    BY <1>7, SamplerAssumption DEF NextRound
  <2>5. broken' \in SUBSET Channels /\ late' \in SUBSET Channels /\ erred' \in BOOLEAN
    BY <1>7 DEF NextRound
  <2>6. mux' \in Channels /\ through' \in SUBSET Channels
    BY <1>7 DEF NextRound, SamplerTypeOK
  <2>7. pc' = "select" /\ sleep' = 0
    BY <1>7 DEF NextRound
  <2> QED
    BY <2>1, <2>2, <2>3, <2>4, <2>5, <2>6, <2>7 DEF SamplerTypeOK, LoopInv
<1>8. CASE UNCHANGED vars
  BY <1>8 DEF vars, task, time, converter, history, SamplerTypeOK, LoopInv
<1> QED
  BY <1>1, <1>2, <1>3, <1>4, <1>5, <1>6, <1>7, <1>8 DEF Next, TaskStep

\* The types are right at power-up.
LEMMA SamplerTypeInit == ASSUME Init PROVE SamplerTypeOK /\ LoopInv
<1>1. NoTemps \in [Channels -> Value] /\ Invalid \in Value
  BY InvalidType DEF NoTemps
<1>2. 0 \in Channels /\ 0 \in 0 .. NumChannels /\ 0 \in 0 .. MaxHold
      /\ 0 \in 0 .. Tick - 1 /\ 0 \in 0 .. Conversion
  BY SamplerAssumption DEF Channels
<1>3. broken \in SUBSET Channels /\ late \in SUBSET Channels /\ through \in SUBSET Channels
      /\ erred \in BOOLEAN
  BY DEF Init
<1>4. 0 \in 0 .. 1
  OBVIOUS
<1> QED
  BY <1>1, <1>2, <1>3, <1>4 DEF Init, NoRecord, SamplerTypeOK, LoopInv

\* The task, the clock and the converter stay well formed: in particular the
\* delays end, the loop stays within the channels, and a conversion never takes
\* longer than a conversion.
THEOREM SamplerTypeCorrect == Spec => []SamplerTypeOK
<1>1. Init => SamplerTypeOK /\ LoopInv
  BY SamplerTypeInit
<1>2. SamplerTypeOK /\ LoopInv /\ [Next]_vars => SamplerTypeOK' /\ LoopInv'
  BY SamplerTypeStep
<1> QED
  BY <1>1, <1>2, PTL DEF Spec

-----------------------------------------------------------------------------
(***************************************************************************)
(* What a round logs.                                                      *)
(*                                                                         *)
(* The argument is about the tick that ends a delay.  A conversion that is *)
(* not late is over by the next tick: what it still takes and the time     *)
(* since the last tick together never exceed Tick.  A late one is over by  *)
(* the tick after that, which comes before the next conversion is started, *)
(* so the converter takes the start; that fails only behind a failed       *)
(* transfer, and then the round is not logged (AllValid is false).         *)
(***************************************************************************)
Own(c) == [from |-> {c}, fresh |-> TRUE]
AllValid == \A c \in Channels : c < i => temps[c] # Invalid

\* What is known of the converter, when no conversion is longer than a tick and
\* nothing has failed in this round.
ConverterInv ==
  /\ conv + phase <= 2 * Tick
  /\ ~(pc = "read" /\ sleep = 1 /\ i \in late) => conv + phase <= Tick
  /\ pc = "start" => mux = i /\ (sleep = 0 => conv = 0)
  /\ pc = "read" /\ i \notin late =>
       IF conv > 0 THEN sleep = 1 /\ through = {i} ELSE reg = Own(i)

TimeInv ==
  /\ pc = "read" /\ i \notin late => Conversion <= Tick
  /\ AllValid /\ Conversion <= Tick => ConverterInv

\* A value that was read is the channel's own, or its conversion was late.
ValueInv ==
  AllValid => \A c \in Channels \ late : c < i => temps[c] = Own(c) /\ c \notin broken

\* Nothing else makes a value invalid.
MissInv == ~erred /\ broken = {} /\ late = {} => AllValid

RecordInv == record = IF pc = "rest" /\ AllValid THEN temps ELSE NoRecord

RoundInv ==
  SamplerTypeOK /\ LoopInv /\ TimeInv /\ ValueInv /\ MissInv /\ RecordInv

\* The passing of time: it ends conversions at the latest when it ought to.
LEMMA PassRound ==
  ASSUME RoundInv, Pass PROVE TimeInv' /\ ValueInv' /\ MissInv' /\ RecordInv'
<1>0. SamplerTypeOK
  BY DEF RoundInv
<1>1. UNCHANGED <<pc, i, temps, record, mux, through, broken, late, erred>>
  BY DEF Pass, task, history
<1>2. AllValid' <=> AllValid
  BY <1>1 DEF AllValid
<1>3. ValueInv' /\ MissInv' /\ RecordInv'
  BY <1>1, <1>2 DEF RoundInv, ValueInv, MissInv, RecordInv
<1>4. ASSUME AllValid, Conversion <= Tick PROVE ConverterInv'
  <2>1. ConverterInv
    BY <1>4 DEF RoundInv, TimeInv
  <2>2. /\ phase' = IF phase + 1 = Tick THEN 0 ELSE phase + 1
        /\ sleep' = IF phase' = 0 /\ sleep > 0 THEN sleep - 1 ELSE sleep
        /\ conv' = IF conv > 0 THEN conv - 1 ELSE 0
        /\ reg' = IF conv = 1 THEN [from |-> through, fresh |-> TRUE] ELSE reg
    BY <1>0, NextPhase DEF Pass, SamplerTypeOK, Result
  <2>3. phase \in 0 .. Tick - 1 /\ sleep \in 0 .. 1 /\ conv \in Nat /\ Tick \in Nat \ {0}
    BY <1>0, SamplerAssumption DEF SamplerTypeOK
  <2>4. conv' + phase' <= 2 * Tick /\ (conv + phase <= Tick => conv' + phase' <= Tick)
    BY <2>1, <2>2, <2>3 DEF ConverterInv
  <2>5. ~(pc' = "read" /\ sleep' = 1 /\ i' \in late') => conv' + phase' <= Tick
    BY <1>1, <2>1, <2>2, <2>3 DEF ConverterInv
  <2>6. pc' = "start" => mux' = i' /\ (sleep' = 0 => conv' = 0)
    BY <1>1, <2>1, <2>2, <2>3 DEF ConverterInv
  <2>7. pc' = "read" /\ i' \notin late' =>
          IF conv' > 0 THEN sleep' = 1 /\ through' = {i'} ELSE reg' = Own(i')
    <3> SUFFICES ASSUME pc = "read", i \notin late
                 PROVE  IF conv' > 0 THEN sleep' = 1 /\ through = {i} ELSE reg' = Own(i)
      BY <1>1
    <3>1. /\ conv + phase <= Tick
          /\ conv > 0 => sleep = 1 /\ through = {i}
          /\ ~(conv > 0) => reg = Own(i)
      BY <2>1 DEF ConverterInv
    <3>2. CASE conv > 1
      <4>1. conv' > 0 /\ sleep' = 1
        BY <2>2, <2>3, <3>1, <3>2
      <4> QED
        BY <3>1, <3>2, <2>3, <4>1
    <3>3. CASE conv = 1
      <4>1. through = {i} /\ conv' = 0
        BY <2>2, <3>1, <3>3
      <4>2. reg' = [from |-> through, fresh |-> TRUE]
        BY <2>2, <3>3
      <4> QED
        BY <4>1, <4>2 DEF Own
    <3>4. CASE conv = 0
      BY <2>2, <2>3, <3>1, <3>4
    <3> QED
      BY <2>3, <3>2, <3>3, <3>4
  <2> QED
    BY <2>4, <2>5, <2>6, <2>7 DEF ConverterInv
<1> QED
  BY <1>1, <1>2, <1>3, <1>4 DEF TimeInv, RoundInv

\* A selection keeps what a running conversion still takes.
LEMMA SelectRound ==
  ASSUME RoundInv, SelectChannel PROVE TimeInv' /\ ValueInv' /\ MissInv' /\ RecordInv'
<1>1. /\ pc = "select" /\ pc' = "start" /\ sleep' = 1 /\ mux' = i
      /\ UNCHANGED <<i, temps, record, conv, phase, broken, late, erred>>
  BY DEF SelectChannel, Ready, Delay, history
<1>2. AllValid' <=> AllValid
  BY <1>1 DEF AllValid
<1>3. ConverterInv => ConverterInv'
  BY <1>1 DEF ConverterInv
<1> QED
  BY <1>1, <1>2, <1>3 DEF RoundInv, TimeInv, ValueInv, MissInv, RecordInv

\* A conversion is started: the converter is free, unless the round is lost.
LEMMA StartRound ==
  ASSUME RoundInv, StartConversion PROVE TimeInv' /\ ValueInv' /\ MissInv' /\ RecordInv'
<1>1. /\ pc = "start" /\ sleep = 0 /\ pc' = "read" /\ sleep' = 1 /\ Convert
      /\ late' = IF phase + Conversion > Tick THEN late \cup {i} ELSE late
      /\ UNCHANGED <<i, temps, record, phase, mux, reg, broken, erred>>
  BY DEF StartConversion, Ready, Delay, ConversionDelay
<1>2. AllValid' <=> AllValid
  BY <1>1 DEF AllValid
<1>3. phase \in 0 .. Tick - 1 /\ Tick \in Nat \ {0} /\ Conversion \in Nat \ {0}
  BY SamplerAssumption DEF RoundInv, SamplerTypeOK
<1>4. i \notin late' => phase + Conversion <= Tick
  BY <1>1, <1>3
<1>5. ASSUME AllValid, Conversion <= Tick PROVE ConverterInv'
  <2>1. conv = 0 /\ mux = i
    BY <1>1, <1>5 DEF RoundInv, TimeInv, ConverterInv
  <2>2. conv' = Conversion /\ through' = {i}
    BY <1>1, <2>1 DEF Convert
  <2> QED
    BY <1>1, <1>3, <1>4, <1>5, <2>2 DEF ConverterInv
<1>6. TimeInv'
  BY <1>1, <1>2, <1>3, <1>4, <1>5 DEF TimeInv
<1>7. late \subseteq late'
  BY <1>1
<1>8. ValueInv' /\ MissInv' /\ RecordInv'
  BY <1>1, <1>2, <1>7 DEF RoundInv, ValueInv, MissInv, RecordInv
<1> QED
  BY <1>6, <1>8

\* The value of a channel is valid or loses the round.
LEMMA ReturnsValid ==
  ASSUME SamplerTypeOK, i \in Channels, NEW v, Returns(v, i + 1)
  PROVE  /\ AllValid' <=> AllValid /\ v # Invalid
         /\ \A c \in Channels : c < i' => c < i \/ c = i
         /\ \A c \in Channels : temps'[c] = IF c = i THEN v ELSE temps[c]
<1>1. i' = i + 1 /\ i \in Nat /\ \A c \in Channels : c \in Nat
  BY DEF Returns, Channels
<1>2. \A c \in Channels : temps'[c] = IF c = i THEN v ELSE temps[c]
  BY DEF Returns, SamplerTypeOK
<1>3. \A c \in Channels : c < i' <=> c < i \/ c = i
  BY <1>1
<1>4. \A c \in Channels : c < i => c # i
  BY <1>1
<1> QED
  BY <1>2, <1>3, <1>4 DEF AllValid

\* A conversion that was not late is over when it is read, and of this channel.
LEMMA ReadRound ==
  ASSUME RoundInv, ReadConversion PROVE TimeInv' /\ ValueInv' /\ MissInv' /\ RecordInv'
<1>1. PICK v \in Converted(reg) : Returns(v, i + 1)
  BY DEF ReadConversion
<1>2. pc = "read" /\ sleep = 0 /\ i \in Channels /\ SamplerTypeOK
  BY DEF ReadConversion, Ready, RoundInv, LoopInv
<1>3. /\ pc' \in {"select", "check"} /\ sleep' = 0
      /\ UNCHANGED <<record, phase, mux, conv, through, reg, broken, late, erred>>
  BY <1>1, <1>2 DEF ReadConversion, Returns, converter, history
<1>4. /\ AllValid' <=> AllValid /\ v # Invalid
      /\ \A c \in Channels : c < i' => c < i \/ c = i
      /\ \A c \in Channels : temps'[c] = IF c = i THEN v ELSE temps[c]
  BY <1>1, <1>2, ReturnsValid
<1>5. TimeInv'
  <2>1. ConverterInv => ConverterInv'
    BY <1>2, <1>3 DEF ConverterInv
  <2> QED
    BY <1>3, <1>4, <2>1 DEF RoundInv, TimeInv
<1>6. AllValid /\ i \notin late => reg = Own(i)
  BY <1>2, SamplerAssumption DEF RoundInv, TimeInv, ConverterInv, SamplerTypeOK
<1>7. ASSUME AllValid, i \notin late, v # Invalid
      PROVE  v = Own(i) /\ i \notin broken
  BY <1>1, <1>6, <1>7 DEF Converted, Own
<1>8. ValueInv'
  BY <1>3, <1>4, <1>7 DEF RoundInv, ValueInv
<1>9. MissInv'
  <2> SUFFICES ASSUME ~erred, broken = {}, late = {} PROVE AllValid /\ v # Invalid
    BY <1>3, <1>4 DEF MissInv
  <2>1. AllValid
    BY DEF RoundInv, MissInv
  <2>2. reg = Own(i) /\ v = reg
    BY <1>1, <1>6, <2>1 DEF Converted, Own
  <2> QED
    BY <2>1, <2>2 DEF Own, Invalid
<1>10. RecordInv'
  BY <1>2, <1>3 DEF RoundInv, RecordInv
<1> QED
  BY <1>5, <1>8, <1>9, <1>10

\* A failed transfer loses the round.
LEMMA FailRound ==
  ASSUME RoundInv, TransferFails PROVE TimeInv' /\ ValueInv' /\ MissInv' /\ RecordInv'
<1>1. Returns(Invalid, i + 1) /\ pc \in {"start", "read"} /\ erred'
  BY DEF TransferFails, AfterFailure, Ready
<1>2. ~AllValid'
  BY <1>1, ReturnsValid DEF RoundInv, LoopInv
<1>3. pc' \in {"select", "check"} /\ record' = record
  BY <1>1 DEF Returns
<1> QED
  BY <1>1, <1>2, <1>3 DEF RoundInv, TimeInv, ValueInv, MissInv, RecordInv

\* The round is logged when all its values are valid.
LEMMA CheckRecord ==
  ASSUME RoundInv, CheckRound PROVE TimeInv' /\ ValueInv' /\ MissInv' /\ RecordInv'
<1>1. /\ pc = "check" /\ pc' = "rest" /\ i = NumChannels
      /\ record' = IF \A c \in Channels : temps[c] # Invalid THEN temps ELSE NoRecord
      /\ UNCHANGED <<i, temps, sleep, phase, mux, conv, through, reg, broken, late, erred>>
  BY DEF CheckRound, Ready, Checked, time, converter, history, RoundInv, LoopInv
<1>2. AllValid <=> \A c \in Channels : temps[c] # Invalid
  BY <1>1, SamplerAssumption DEF AllValid, Channels
<1>3. AllValid' <=> AllValid
  BY <1>1 DEF AllValid
<1>4. ConverterInv => ConverterInv'
  BY <1>1 DEF ConverterInv
<1> QED
  BY <1>1, <1>2, <1>3, <1>4 DEF RoundInv, TimeInv, ValueInv, MissInv, RecordInv

\* A new round starts at a tick, with no conversion running.
LEMMA NewRound ==
  ASSUME NextRound PROVE TimeInv' /\ ValueInv' /\ MissInv' /\ RecordInv'
<1>1. pc' = "select" /\ i' = 0 /\ record' = NoRecord /\ conv' = 0 /\ phase' = 0
  BY DEF NextRound
<1>2. \A c \in Channels : ~(c < 0)
  BY DEF Channels
<1>3. AllValid' /\ ValueInv'
  BY <1>1, <1>2 DEF AllValid, ValueInv
<1>4. ConverterInv'
  BY <1>1, SamplerAssumption DEF ConverterInv
<1> QED
  BY <1>1, <1>3, <1>4 DEF TimeInv, MissInv, RecordInv

\* RoundInv is inductive.
LEMMA RoundStep == ASSUME RoundInv, [Next]_vars PROVE RoundInv'
<1>1. SamplerTypeOK' /\ LoopInv'
  BY SamplerTypeStep DEF RoundInv
<1>2. CASE UNCHANGED vars
  BY <1>2 DEF vars, task, time, converter, history, RoundInv, SamplerTypeOK, LoopInv,
              TimeInv, ConverterInv, ValueInv, MissInv, RecordInv, AllValid
<1>3. CASE Next
  BY <1>1, <1>3, PassRound, SelectRound, StartRound, ReadRound, FailRound, CheckRecord,
     NewRound DEF Next, TaskStep, RoundInv
<1> QED
  BY <1>2, <1>3

\* RoundInv holds at power-up.
LEMMA RoundInit == ASSUME Init PROVE RoundInv
<1>1. pc = "select" /\ i = 0 /\ record = NoRecord /\ conv = 0 /\ phase = 0
  BY DEF Init
<1>2. \A c \in Channels : ~(c < 0)
  BY DEF Channels
<1>3. AllValid /\ ValueInv
  BY <1>1, <1>2 DEF AllValid, ValueInv
<1>4. ConverterInv
  BY <1>1, SamplerAssumption DEF ConverterInv
<1> QED
  BY <1>1, <1>3, <1>4, SamplerTypeInit DEF RoundInv, TimeInv, MissInv, RecordInv

\* RoundInv holds in every reachable state.
LEMMA RoundInvariant == Spec => []RoundInv
<1>1. Init => RoundInv
  BY RoundInit
<1>2. RoundInv /\ [Next]_vars => RoundInv'
  BY RoundStep
<1> QED
  BY <1>1, <1>2, PTL DEF Spec

\* What a logged round looks like.
LEMMA LoggedRound ==
  ASSUME RoundInv, Logged
  PROVE  AllValid /\ record = temps /\ i = NumChannels /\ \A c \in Channels : c < i
<1>1. pc = "rest" /\ AllValid /\ record = temps
  BY DEF RoundInv, RecordInv, Logged
<1>2. i = NumChannels
  BY <1>1 DEF RoundInv, LoopInv
<1> QED
  BY <1>1, <1>2, SamplerAssumption DEF Channels

\* A logged temperature was converted in its round from its own channel alone,
\* unless its conversion was started so late in its tick that it could not be over
\* when the delay of one tick was: ads1115_read_raw waits one tick and does not
\* ask the converter.  One late conversion spoils no other channel's value.
THEOREM LoggedIsOwn == Spec => []OwnChannel
<1>1. RoundInv => OwnChannel
  BY LoggedRound DEF RoundInv, ValueInv, OwnChannel, Own
<1> QED
  BY <1>1, RoundInvariant, PTL

\* A round with a missing or shorted sensor is logged only if the conversion of
\* that very channel was late.
THEOREM BrokenIsNotLogged == Spec => []BrokenNotLogged
<1>1. RoundInv => BrokenNotLogged
  <2> SUFFICES ASSUME RoundInv, Logged, NEW c \in broken PROVE c \in late
    BY DEF BrokenNotLogged
  <2>1. c \in Channels
    BY DEF RoundInv, SamplerTypeOK
  <2> QED
    BY <2>1, LoggedRound DEF RoundInv, ValueInv
<1> QED
  BY <1>1, RoundInvariant, PTL

\* Nothing but a missing sensor, a failed transfer or a late conversion keeps
\* ntc_reader_task from passing a round on to the log.
THEOREM GoodIsLogged == Spec => []GoodRoundsLogged
<1>1. RoundInv => GoodRoundsLogged
  <2> SUFFICES ASSUME RoundInv, pc = "rest", broken = {}, ~erred, late = {}
               PROVE  Logged
    BY DEF GoodRoundsLogged
  <2>1. AllValid /\ record = temps /\ i = NumChannels
    BY DEF RoundInv, MissInv, RecordInv, LoopInv
  <2>2. 0 \in Channels /\ 0 < i
    BY <2>1, SamplerAssumption DEF Channels
  <2>3. temps[0] # Invalid /\ NoRecord[0] = Invalid
    BY <2>1, <2>2 DEF AllValid, NoRecord, NoTemps
  <2> QED
    BY <2>1, <2>3 DEF Logged
<1> QED
  BY <1>1, RoundInvariant, PTL
=============================================================================
