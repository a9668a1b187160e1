------------------------------- MODULE Sampler -------------------------------
(***************************************************************************)
(* ntc_reader_task and what it calls: ntc_get_temp_celsius,                *)
(* mux_set_channel and ads1115_read_raw.  One channel after the other is   *)
(* connected to the converter, a single conversion is started and, after a *)
(* delay, its result is read.  A round in which every value is valid goes  *)
(* to ntc_history_add_record.                                              *)
(*                                                                         *)
(* The question is time: vTaskDelay(pdMS_TO_TICKS(10)) is one tick, so it  *)
(* ends with the next tick interrupt, however soon that is, and the        *)
(* converter is not asked whether it is done.  Time passes in units, Tick  *)
(* of which lie between two ticks; between any two steps the task may be   *)
(* held up by up to MaxHold (tasks of higher priority, the UART of the     *)
(* log, the caches being off while another task writes to flash).          *)
(*                                                                         *)
(* A value is the set of channels that were connected while it was         *)
(* converted, and whether that was in this round.                          *)
(***************************************************************************)
EXTENDS Naturals

CONSTANTS
  NumChannels,   \* NTC_CHANNELS_COUNT
  Tick,          \* units of time between two ticks
  Conversion,    \* units of time a conversion takes
  MaxHold        \* bound: units of time the task is held up before a step

ASSUME SamplerAssumption ==
  NumChannels \in Nat \ {0} /\ Tick \in Nat \ {0} /\ Conversion \in Nat \ {0}
  /\ MaxHold \in Nat

VARIABLES
  pc,        \* what ntc_reader_task does next
  i,         \* its loop over the channels
  temps,     \* the values read in this round
  record,    \* what this round has passed to ntc_history_add_record
  sleep,     \* ticks that vTaskDelay still waits for
  held,      \* how long the task has been ready without taking its step
  phase,     \* time since the last tick
  mux,       \* the channel the multiplexer connects
  conv,      \* time the running conversion still takes, 0 if none runs
  through,   \* the channels connected since it was started
  reg,       \* the conversion register
  broken,    \* channels whose sensor is missing or shorted in this round
  late,      \* history: channels whose conversion was started late in its tick
  erred      \* history: a transfer on the bus failed in this round

task == <<pc, i, temps, record>>
time == <<sleep, held, phase>>
converter == <<mux, conv, through, reg>>
history == <<broken, late, erred>>
vars == <<task, time, converter, history>>

Channels == 0 .. NumChannels - 1
Value == [from : SUBSET Channels, fresh : BOOLEAN]

\* NTC_INVALID_TEMP, and the register of a converter that has converted nothing.
Invalid == [from |-> {}, fresh |-> FALSE]
NoTemps == [c \in Channels |-> Invalid]
NoRecord == NoTemps

-----------------------------------------------------------------------------
\* The result of the running conversion.
Result == [from |-> through, fresh |-> TRUE]

\* One unit of time passes: for a task that sleeps, or one that is held up.
Pass ==
  /\ pc # "rest"
  /\ sleep > 0 \/ held < MaxHold
  /\ phase' = (phase + 1) % Tick
  /\ sleep' = IF phase' = 0 /\ sleep > 0 THEN sleep - 1 ELSE sleep
  /\ held' = IF sleep > 0 THEN 0 ELSE held + 1
  /\ conv' = IF conv > 0 THEN conv - 1 ELSE 0
  /\ reg' = IF conv = 1 THEN Result ELSE reg
  /\ UNCHANGED <<task, mux, through, history>>

\* vTaskDelay: the task is ready again at the ticks-th tick interrupt from now.
Delay(ticks) == sleep' = ticks /\ held' = 0 /\ UNCHANGED phase

Ready(p) == pc = p /\ sleep = 0

\* Mutant of ConversionDelay: pdMS_TO_TICKS(8) is no tick at all.
NoTick == 0

\* pdMS_TO_TICKS(10) with 100 ticks per second.
ConversionDelay == 1

\* mux_set_channel.  A conversion still running sees both channels.
SelectChannel ==
  /\ Ready("select")
  /\ mux' = i
  /\ through' = through \cup {i}
  /\ pc' = "start"
  /\ Delay(1)
  /\ UNCHANGED <<i, temps, record, conv, reg, history>>

\* The converter ignores a start while it converts.
Convert ==
  IF conv = 0 THEN conv' = Conversion /\ through' = {mux}
              ELSE UNCHANGED <<conv, through>>

StartConversion ==
  /\ Ready("start")
  /\ Convert
  /\ late' = IF phase + Conversion > Tick THEN late \cup {i} ELSE late
  /\ pc' = "read"
  /\ Delay(ConversionDelay)
  /\ UNCHANGED <<i, temps, record, mux, reg, broken, erred>>

\* Mutant of AfterFailure: a failed transfer is tried again.
TryAgain == i

AfterFailure == i + 1

\* Mutant of MoreChannels: one channel too many.
OneMore(n) == n <= NumChannels

MoreChannels(n) == n < NumChannels

\* ntc_get_temp_celsius returns v for channel i, and the loop goes on with n.
Returns(v, n) ==
  /\ temps' = [temps EXCEPT ![i] = v]
  /\ i' = n
  /\ pc' = IF MoreChannels(n) THEN "select" ELSE "check"
  /\ held' = 0
  /\ UNCHANGED <<record, sleep, phase>>

\* convert_to_celsius refuses the voltage of a missing or a shorted sensor; a
\* conversion that saw other channels too may have any voltage.
Converted(v) ==
  IF v.from \cap broken = {} THEN {v}
  ELSE IF v.from \subseteq broken THEN {Invalid} ELSE {v, Invalid}

ReadConversion ==
  /\ Ready("read")
  /\ \E v \in Converted(reg) : Returns(v, i + 1)
  /\ UNCHANGED <<converter, history>>

\* i2c_master_transmit or i2c_master_transmit_receive returns an error; the
\* converter may have taken the command.
TransferFails ==
  /\ \/ Ready("start") /\ (Convert \/ UNCHANGED <<conv, through>>)
     \/ Ready("read") /\ UNCHANGED <<conv, through>>
  /\ Returns(Invalid, AfterFailure)
  /\ erred' = TRUE
  /\ UNCHANGED <<mux, reg, broken, late>>

\* Mutant of Checked: the last channel is not looked at.
CheckedButOne == {c \in Channels : c + 1 < NumChannels}

Checked == Channels

\* The round is passed on if none of its values is invalid.
CheckRound ==
  /\ Ready("check")
  /\ record' = IF \A c \in Checked : temps[c] # Invalid THEN temps ELSE NoRecord
  /\ pc' = "rest"
  /\ UNCHANGED <<i, temps, time, converter, history>>

\* NTC_DELAY_SEC later, at a tick; a conversion that still ran is over, and what
\* the register holds is old.  Sensors may have been connected or removed.
NextRound ==
  /\ pc = "rest"
  /\ pc' = "select" /\ i' = 0 /\ temps' = NoTemps /\ record' = NoRecord
  /\ sleep' = 0 /\ held' = 0 /\ phase' = 0
  /\ conv' = 0
  /\ reg' = [IF conv > 0 THEN Result ELSE reg EXCEPT !.fresh = FALSE]
  /\ broken' \in SUBSET Channels
  /\ late' = {} /\ erred' = FALSE
  /\ UNCHANGED <<mux, through>>

Init ==
  /\ pc = "select" /\ i = 0 /\ temps = NoTemps /\ record = NoRecord
  /\ sleep = 0 /\ held = 0 /\ phase = 0
  /\ mux = 0 /\ conv = 0 /\ through = {} /\ reg = Invalid
  /\ broken \in SUBSET Channels /\ late = {} /\ erred = FALSE

TaskStep ==
  SelectChannel \/ StartConversion \/ ReadConversion \/ TransferFails \/ CheckRound

Next == Pass \/ TaskStep \/ NextRound

\* Time passes, and the task is not held up for ever.
Spec == Init /\ [][Next]_vars
FairSpec == Spec /\ WF_vars(Pass \/ TaskStep) /\ WF_vars(NextRound)

-----------------------------------------------------------------------------
SamplerTypeOK ==
  /\ pc \in {"select", "start", "read", "check", "rest"}
  /\ i \in 0 .. NumChannels
  /\ temps \in [Channels -> Value] /\ record \in [Channels -> Value]
  /\ sleep \in 0 .. 1 /\ held \in 0 .. MaxHold /\ phase \in 0 .. Tick - 1
  /\ mux \in Channels /\ conv \in 0 .. Conversion
  /\ through \in SUBSET Channels /\ reg \in Value
  /\ broken \in SUBSET Channels /\ late \in SUBSET Channels /\ erred \in BOOLEAN

Logged == record # NoRecord

\* A logged temperature was converted in its round from its own channel alone,
\* unless the task was held up before it started that conversion, so that the
\* tick that ends the delay came before the end of the conversion.  One late
\* conversion spoils no other value.
OwnChannel ==
  Logged => \A c \in Channels \ late : record[c] = [from |-> {c}, fresh |-> TRUE]

\* A round with a missing sensor is logged only if the conversion of that very
\* channel was late, so that another's value stands in its place.
BrokenNotLogged == Logged => broken \subseteq late

\* Nothing but a missing sensor, a failed transfer or a late conversion keeps a
\* round from being logged.
GoodRoundsLogged == pc = "rest" => Logged \/ broken # {} \/ erred \/ late # {}

\* Every round ends, also when the bus fails all the time.
RoundsEnd == (pc = "select") ~> (pc = "rest")
=============================================================================
