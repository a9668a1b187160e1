# Verification of UBAC

UBAC is firmware for an ESP32 that samples ten NTC temperature sensors every two
minutes, keeps the samples in a log on flash, and serves them over HTTP. It joins
a Wi-Fi network or, without one, opens an access point with a captive portal on
which the network can be named. This directory holds TLA+ models of the firmware
in `src/main`, the TLC configurations that check them on small instances, and
proofs of the central theorems for every size of the constants.

## 1. The system

| Component | Source | State | Operations |
|---|---|---|---|
| History log | `ntc_history.c` | the `storage` partition (32 sectors of 4096 bytes); the cursor `s_cur_sector`, `s_cur_slot`, `s_last_seq`, `s_ready`; the RAM buffer of 16 samples; `s_lock` | `ntc_history_init`, `ntc_history_add_record`, `ntc_history_flush`, `ntc_history_erase_all` (no caller) |
| History readers | `ntc_history.c`, `web_server.c` | that of one iteration | `ntc_history_iterate`, `history_get_handler`, `ntc_history_get_records` (no caller) |
| Boot | `ubac_main.c` | where `app_main` is | `app_main`, `ip_event_handler` |
| Wi-Fi | `wifi_app.c` | `WIFI_CONNECTED_BIT`; in the driver the mode, the station and its configuration in flash | `wifi_app_init`, `wifi_app_start_ap`, `wifi_app_connect_sta`, `wifi_app_scan`, `wifi_event_handler` |
| Web server | `web_server.c` | one request at a time, and the `connect_task`s it leaves behind | `/`, `/history.json`, `/fake_history.json`, `/scan`, `/connect`, `/reset_wifi`, the redirect of other paths |
| DNS server | `dns_server.c` | its task, its socket, the handle `xDnsTask` | `dns_server_start`, `dns_server_stop`, the reply to a query |
| UDP responder | `udp_responder.c` | its task and socket | `udp_responder_start`, the reply |
| Sampling chain | `ubac_main.c`, `ntc_sensor.c`, `ads1115.c`, `mux.c`, `i2c_manager.c` | multiplexer pins, the converter's registers | `ntc_reader_task` and what it calls |
| Fan control | `fan_ctrl.c` | none (stubs) | |
| Pages, discovery tool | `html/`, `discovery.py` | none on the device | |

How they interact:

- `ntc_reader_task` calls `ntc_history_add_record`; the web server's task calls
  `ntc_history_iterate`. They share the flash and `s_lock`. The iteration gives
  the lock back before it reads the records.
- The Wi-Fi driver posts events to the default event loop. One task runs the
  handlers of an event in the order they were registered: `ip_event_handler`
  (registered by `app_main`), then `wifi_event_handler`.
- `ip_event_handler` starts the UDP responder and stops the DNS server;
  `app_main` starts the DNS server and the web server when `wifi_app_init` has
  returned, which may be before or after the event.
- `/connect` starts a detached task that configures the station a second later;
  `/reset_wifi` clears the configuration and restarts; `/scan` uses the station.
- A failed `ESP_ERROR_CHECK` aborts, and the panic handler reboots
  (`sdkconfig.defaults`: `CONFIG_ESP_SYSTEM_PANIC_PRINT_REBOOT`).

What is hard: power can fail in any flash operation, and the log has to find
itself again from what is on flash; any flash operation can fail; readers run
without the lock against a writer that erases; boot, events, requests and
detached tasks overlap in orders no test fixes; a wait of five seconds races an
event; a conversion of 7.8 ms is given one tick; packets and forms end at the
limits of fixed arrays. `PROJECT.json` lists these hazards at their lines, each with the
properties that cover it or the reason why none does.

What makes each component correct:

- *Log*: what is on flash can always be read again, in order, with the right
  numbers; no sample leaves the RAM buffer unwritten; only the oldest records are
  dropped; a used slot is never programmed; every call returns.
- *Readers*: the newest records, in order, no more than the maximum, whatever the
  writer does meanwhile; every request is answered.
- *Boot and network*: the boot always gets to the web server; the station keeps
  trying; the portal is given up only for a network; the event bit tells the truth; the responder runs when the device has
  an address and the portal's DNS does not; requests do not crash the device.
- *Sampling*: a temperature belongs to the channel it is logged under; a round is
  lost only for a reason; every round ends.
- *DNS reply and form*: the reply answers the question that was received;
  the name and the password that are saved are the ones sent.

## 2. Modules

| Module | Models | Extended by |
|---|---|---|
| `NtcHistory` | the writer and the recovery of the log | `NtcHistoryRing`, `NtcHistoryErase`, `NtcHistoryProofs`, `HistoryReaders` |
| `RingLog` | what the log promises, as an abstract specification | instantiated by `NtcHistoryRing` |
| `NtcHistoryRing` | the refinement mapping from `NtcHistory` to `RingLog` | `MCNtcHistory`, `NtcHistoryRingProofs` |
| `NtcHistoryErase` | `NtcHistory` with `ntc_history_erase_all` | `MCNtcHistoryErase` |
| `NtcHistoryProofs` | theorems about `NtcHistory`: types, structure | `NtcHistoryOrderProofs`, `NtcHistoryEraseProofs` |
| `NtcHistoryOrderProofs` | theorems: the order of the records, what leaves the log and the RAM buffer | `NtcHistoryRingProofs`, `HistoryReadersProofs` |
| `NtcHistoryRingProofs` | theorems: what the log keeps, and that it implements `RingLog` | |
| `NtcHistoryEraseProofs` | theorems about `NtcHistoryErase` | |
| `HistoryReaders` | `NtcHistory` composed with a reader | `MCHistoryReaders`, `HistoryReadersProofs` |
| `HistoryReadersProofs` | theorems about `HistoryReaders` | |
| `Network` | boot, Wi-Fi, events, DNS and UDP tasks, requests | `MCNetwork`, `NetworkProofs` |
| `NetworkProofs` | theorems about `Network` | |
| `Sampler` | `ntc_reader_task` with multiplexer, converter and bus | `MCSampler`, `SamplerProofs` |
| `SamplerProofs` | theorems about `Sampler` | |
| `DnsReply` | how the DNS server makes a reply | `MCRequests`, `RequestsProofs` |
| `ConnectForm` | a form from the browser to the station's configuration | `MCRequests`, `RequestsProofs` |
| `RequestsProofs` | theorems about `DnsReply` and `ConnectForm` | |

### NtcHistory

`hdr` and `slot` are the flash: the `seq_start` of each sector's header
(`NoHeader` when `read_sector_hdr` would refuse it) and its record slots. A slot
is what the code can tell apart: `record_is_empty` (all ones in `seq`),
`record_is_valid` (CRC matches) or neither. A "ghost" slot is partly programmed
but has still all ones in `seq`. A sample is its number in the order of the
calls; timestamps and temperatures are data no branch of the log depends on.

Each flash operation is one action: `EraseSector`, `WriteHeader`, `WriteRecord`;
`pc` names the one that the holder of `s_lock` does next, and `pc = "idle"` is
the lock being free. The RAM work between two flash operations belongs to the
operation before it, since it is under the lock and cannot fail. `Boot` is the
reading part of `ntc_history_init`; the sector it may have to start (a blank
device, or a closed newest sector) goes through the same `EraseSector` and
`WriteHeader`, distinguished by `s_ready`, as the code distinguishes them.
`FlashError` is an operation that returns an error with any part of its effect
done, `PowerLoss` a reset at any point, with half an operation done or none.

Assumed of the flash, as constants: what a cut write may leave (`Tears`: nothing
partial, `"torn"` only, or `"ghost"` too), and whether reads may fail at boot
(`ReadsFail`). Programming clears bits, so over anything but blank flash or the
same record it leaves garbage (`Program`). An erase that is cut off leaves the
sector as it was, or without a header and with all its slots blank or all garbage
(`HalfErase`): a header that survives the erase of some of the slots behind it is
left out.

`NumSectors`, `RecordsPerSector` and `RamRecords` are 32, 126 and 16 in the
firmware.

### RingLog and NtcHistoryRing

`RingLog` knows no sectors, headers, cursor or lock. It has the sequence of the
readable samples, a queue of those that wait, the number of samples given and
whether the device runs. `Offer` takes a sample; `Move` puts the oldest waiting
one at the end of the log, drops the oldest block of a full log, or refuses the
last sample of a full queue; `GoDown` loses the queue; `ComeUp` starts again.

`NtcHistoryRing` gives these variables their values in `NtcHistory`: the log is
what `ntc_history_iterate` would find, in the order of the record numbers; the
queue is the part of `s_ram_buf` that is not on flash, and behind it the sample
that `ntc_history_add_record` holds while it flushes. A write that returns an
error may have been done: the sample then counts as stored, although it is still
in the RAM buffer for the retry.

### NtcHistoryErase

`CallErase` takes the lock; `WipePartition` is `esp_partition_erase_range`, and
`FormatFirst` the header of sector 0 with the reset of the cursor and of the RAM
buffer. Either can fail (`EraseError`) or lose power (`ErasePowerLoss`) with any
set of sectors erased. A failure leaves cursor, `s_ready` and buffer as they were
(`ntc_history.c:623-630`). `wiped` and `spoilt` are history variables: which
samples a complete erase removed, and whether one has failed since.

### HistoryReaders

One request at a time: `ListToCount`, `CountSector` for each listed sector,
`Counted`, `ListToCopy`, `CopySector` for each, `Copied`, `Answer`. Listing is
under `s_lock`, so it waits for `pc = "idle"`; reading a sector does not.
`history_get_handler` and `ntc_history_get_records` differ in their callbacks:
the first never stops the iteration, the second does when it has enough. An
allocation or a read that fails costs the header, the sector, or the iteration,
as in the code. `known`, `old` and `met` are history variables: what could be read
when the counting and the copying began, and what the copying has come to, that is
skipped or passed on; `failed` says that something failed during this request.

### Network

`main` is where `app_main` is, `events` the event queue, `evt` whether
`ip_event_handler` has run for the event at its head and `wifi_event_handler`
has not; `task` the `connect_task`s with the call each does next; `httpd` the web
server's task. The Wi-Fi driver is external: it is modelled from how
`wifi_app.c` uses it and from its documented errors, in particular that
`esp_wifi_set_config` and `esp_wifi_scan_start` return `ESP_ERR_WIFI_STATE` while
the station is connecting. Sockets and delays are external too; a delay or a
timeout takes any time. `refused` is a history variable: whether the last
reboot was the abort of a refused configuration.

### Sampler

`SelectChannel`, `StartConversion` and `ReadConversion` are the three steps that
`ntc_get_temp_celsius` takes for a channel, `TransferFails` an error on the bus,
`CheckRound` and `NextRound` the loop of `ntc_reader_task` around them. Time
passes in units between them (`Pass`), of which `Tick` make a tick: `Delay(1)`,
which is what `vTaskDelay(pdMS_TO_TICKS(10))` comes to with 100 ticks per second,
ends at the next tick, however soon. A task that is ready can be held up by up to
`MaxHold` units. A value is the set of channels that were connected while it was
converted, and whether that was in this round; the conversion to degrees only
tells whether the voltage is that of a working sensor. The converter is external:
it converts once per start and ignores a start while it converts.

### DnsReply

`QueryEnd` is the scan for the zero byte of the name, `Reply` the branches behind
it. `tx_buffer` is arbitrary, since it keeps the bytes of earlier packets, and one
byte longer than the array, since the scan may look at the byte behind it.

### ConnectForm

`Submit` is the browser's encoding of the form, `Refuse`, `Receive` and
`ReceiveFails` are `connect_post_handler`, `Field` its `strstr`, `strchr` and
`strncpy`. The text is abstracted to what the encoding tells apart: characters
sent as they are, spaces, and those that become three bytes.

## 3. Runs

Passing runs:

| Run | Checks | Instance |
|---|---|---|
| `log_torn` | `TypeOK`, `RecordNumbering`, `CursorNumbering`, `NoHiddenRecord`, `CursorTail`, `Chronological`, `WriteOnce`, `NoSilentDrop`, `RingExceptTwins` | 3 sectors of 2 records, buffer of 2, 8 samples, 3 faults, torn writes |
| `log_ring` | `Retention`, `RingOnly`, `ImplementsRing` | the same with 9 samples, writes all or nothing |
| `log_erase` | `SoundUnlessEraseFailed`, `ErasedStaysErased`, `UsedOnce`, `EraseCallsReturn` | the same with 8 samples, 2 faults, torn writes, reads fail at boot |
| `read_live` | `ReadersTypeOK`, `OldRowsInOrder`, `NewestRows`, `ExcessIsNew`, `RequestAnswered` | 2 sectors of 2 records, 6 samples, 1 fault, a maximum of 3 rows; the reader's allocations and reads fail |
| `net_live` | `NetTypeOK`, `StationNotForgotten`, `BitFollowsStation`, `PortalUnlessNetwork`, `BootCompletes`, `ResponderUp` | 1 network, 2 connect tasks per boot, 2 boots, 1 socket error, 1 lost connection |
| `sampler` | `SamplerTypeOK`, `OwnChannel`, `BrokenNotLogged`, `GoodRoundsLogged`, `RoundsEnd` | 3 channels, ticks of 5, conversions of 4, hold-ups of up to 6 units |
| `requests` | `AnswersQuestion`, `FieldsApart`, `PlainFormSaved` | packets of up to 8 bytes over {0, 1, 2, 255}; forms at the firmware's sizes |

What they show:

- *The log survives.* Whatever fails, what is on flash keeps its structure: a
  record's number is that of its place, readers see every record that was
  written (`NoHiddenRecord`: they stop at the first slot that is not valid, so
  nothing may lie behind one), and no used slot is programmed (`WriteOnce`).
  As long as the boot can read the flash, readers see the records in the order of
  the samples (`Chronological`): a header or a record that cannot be read at boot
  hides what lies behind it from the recovery, and the log goes on with numbers it
  has used before. No sample leaves the RAM buffer without
  being on flash, except by a reset (`NoSilentDrop`).
- *It is a ring*, as long as a write is all or nothing: every step of the log,
  over errors and power losses, is a step of `RingLog` or leaves it alone
  (`ImplementsRing`). So what is stored is in order; what goes is older than what
  stays; a reset loses what waits and nothing else; and all but one sector's worth
  stays (`Retention`).
- *It can be erased.* A power loss in the middle of `ntc_history_erase_all` leaves
  a sound log, and nothing that a complete one removed comes back. One that
  returns an error may leave the cursor in a sector that it has erased, with
  `s_ready` set: the log may then write where no reader looks, or over used slots.
  A boot need not end this: if the header of sector 0 was written all the same, a
  record of the stale cursor can lie behind free slots, where the boot resumes, and
  is then programmed over. A complete erase ends it, or the erase of the sectors
  concerned as the ring comes round. `SoundUnlessEraseFailed` and `UsedOnce` promise
  nothing from the failure to the next complete erase (`spoilt`): they
  say that nothing else breaks the structure, read errors at boot included, and
  not how far a failed erase goes. `ErasedStaysErased` is about completed erases,
  and makes no such exception.
- *It lets go of its lock* (`EraseCallsReturn`), and so requests are answered
  (`RequestAnswered`).
- *A reader gets the newest records* that the writer leaves it. `NewestRows` judges
  every complete answer: a record that was there from the first count to the end is
  missing only if it was skipped, with as many newer records above it as the maximum
  less those erased in between (`Outdated`), or if `ntc_history_get_records` had its
  array full before it came to it, with at least as many records of sectors that
  were rewritten meanwhile (`Displaced`). With failed reads or allocations a reader
  gets fewer, but in order; `failed` excuses it from the rest.
- *The network comes up and stays up*, as far as the device can see to it. A
  `connect_task` gives the access point up before the station has its
  configuration, and nothing but a restart brings it back; a device that has no
  network to join is left without it only by an empty name or on the way to the
  restart of a reset (`PortalUnlessNetwork`). One with a wrong password saved is
  not: it keeps trying, without its portal, until its next boot.
- *A temperature is that of its channel*, unless the task is held up between the
  tick that ends the multiplexer's delay and the start of the conversion
  (`OwnChannel`). At 128 samples per second a conversion takes 7.8 ms
  (`ads1115.c:71`) of the 10 ms of a tick, so a little more than 2 ms are to
  spare; a flash erase or write, during which the caches are off, takes longer. A
  late conversion spoils its own channel's value and no other. One missing
  sensor, one failed transfer or one late conversion can cost the round of all ten
  (`GoodRoundsLogged`: nothing else does).
- *Requests are read as they were sent.* The DNS server's scan for a zero byte
  finds the name that a resolver would read, whatever earlier packets left in the
  buffer (`AnswersQuestion`). Name and password never run into each other, however
  much of the body has come (`FieldsApart`); that a value cut short with the body
  is saved as it came is not excluded.

Runs in which the code departs from what its documentation or an assertion says
(each is a finding in `PROJECT.json`):

| Run | Property | What happens |
|---|---|---|
| `log_torn_ring` | `RingOnly` | A torn first record of a sector leaves two sectors with one `seq_start`. At the next boot the older is taken for the newest, and the sector with the newest records is erased. |
| `read_order` | `RowsInOrder` | The oldest sector is erased and refilled before an iteration reads it: the newest records come first. |
| `net_hijack` | `NoHijack` | The saved network is reached during `wifi_app_init`: the DNS server is stopped before it is started, and stays. |
| `net_config` | `ConfigAccepted` | New credentials arrive while the station retries an unreachable network: abort, reboot, credentials lost. |
| `form_ssid` | `SsidSaved` | A network with a space in its name is saved under the name as the browser encoded it, and is never joined. |

The positive runs next to a finding show how far the promise does hold:
`RingExceptTwins` that twins are the only cause of lost newest records,
`OldRowsInOrder` that only records written during the copying come out of order,
`PlainFormSaved` that names and passwords without special characters are saved
as they are.

More departures were met while modelling and are not runs of their own:

- `ntc_history.h:50-51` has the result of an unlimited iteration "capped for
  safety in the caller"; records flushed between the counting and the copying
  iteration of `/history.json` come on top of its 1024. `ExcessIsNew` says that
  nothing else does.
- `ntc_history.h:63` says of `ntc_history_get_records` "Reads up to max_records newest
  records". When a sector that had been closed short is erased and refilled before
  it is copied, it gives more records than were counted in it; they fill the array
  too early, and the newest records of the next sector are left out while an older
  one is returned. The cause is that of `read_order`, and the function has no
  caller; `NewestRows` says how far it goes (`Displaced`).
- `ntc_history_iterate` does not count the call of the callback that stops it
  (`ntc_history.h:55` says it returns the number of calls). Nobody uses that
  result.
- `GET /scan` while the station is connecting aborts at `wifi_app.c:178`
  (`ScanAborts`), for the same reason as the configuration in `net_config`.
- `README.md:7` supports "up to 10" sensors; a channel without a sensor discards
  every round, since `ntc_reader_task` logs a round only if all are valid.
- An address reply keeps the question's `ar_count` although it drops the
  additional records, so it announces an EDNS record that it does not have.
- A network name of the full 32 bytes loses its last one; a name and a password
  that each fit are refused when the body reaches 100 bytes; a body that comes in
  two parts is read after the first, and a password cut off there is saved.
- The clock is never set, so after a power loss the timestamps start again.

### Bounds

*Log.* Three sectors are the fewest in which the sector being erased, the
current one and a third differ; two records per sector the fewest with a first
and a last; a buffer of two can fail in the middle of a flush, and be full or
not when a sample comes. Eight or nine samples fill the six slots and wrap.
Three faults allow a torn write, a power loss while the following boot repairs,
and another afterwards; two sectors with the same `seq_start` need two. In
`log_erase` two faults are an erase that fails and a power loss in what follows,
or a power loss and a read error at the boot behind it.

*Readers.* Six samples fill two sectors and replace the first of them, before a
reader gets to it or after; a maximum of three rows makes a skip that ends inside
a sector. `read_order` needs three sectors. The one fault
of `read_live` can be a torn write that closes a sector short, which then gives more
records when it is refilled than were counted in it: this is what `Displaced` is for.

*Network.* One network and the empty SSID are the values the code tells apart.
Two boots show what survives a reboot and what must not; two connect tasks can
overlap; one failing socket call is enough for a dangling handle.
`MaxBoots` bounds reboots, so a model that has used them can be left waiting for
one; and an idle device waits for requests: the runs of `Network` do not check
deadlock for these reasons. `ResponderUp` makes an exception of socket errors
(`errors`): a responder whose socket fails comes back only with the next address. It
says that nothing else keeps the responder away, and nothing of that hazard itself.

*Sampler.* A unit is 2 ms: a tick of 10 ms is five, a conversion of 7.8 ms four.
Hold-ups of six are longer than a tick and than a conversion, so a start can come
at any time of a tick, and a read can find its own conversion running. Three
channels are enough for a conversion to run on into the next channel and to
be read there while a third follows.

*Requests.* The four bytes stand for the end of the name, the two types that are
answered with an address (each also a length of a label), and everything else. A
header of one byte, an answer of two and a payload of eight leave room for the
empty name with an answer, or for a name of up to two bytes without, and make the
question, the answer and the packet end at, before and behind the payload's end. The form has the
firmware's sizes (100, 32, 64), with names and passwords at and next to each. The
two models share no state; a behaviour of the run handles either a packet or
a form.

### Fairness

- `NtcHistoryErase`: weak fairness of `Boot` and of the steps of the task that
  holds `s_lock`. The scheduler runs a task that can run, and a device that lost
  power is switched on again. No fairness of the callers or the faults.
  `NtcHistory` alone is checked for safety only.
- `HistoryReaders`: the same, and weak fairness of the reader's own steps, and
  strong fairness of taking `s_lock`: FreeRTOS hands a mutex to the waiting task
  of highest priority, the sampling task waits two minutes between its calls,
  and so the lock comes free again and again. Weak fairness would not do, since
  the lock can be taken between two steps of the reader.
- `Network`: weak fairness of `app_main` (its wait has a timeout), of the event
  task, and of the UDP task binding its socket. None of the driver: that a
  network answers is not assumed.
- `Sampler`: time passes, and the task is held up for a bounded time. None of the
  bus: every transfer may fail.

## 4. Proofs

The theorems hold for every number of sectors, slots, buffered samples, samples,
faults, rows, tasks and channels, for every timing, and for packets, texts and arrays
of every size, from the assumptions that the
modules make on their constants (above all that the
sizes are positive) and from those in the column *Needs*:

| Theorem | States | Needs |
|---|---|---|
| *`NtcHistoryProofs`* | | |
| `TypeCorrect` | `[]TypeOK` | |
| `RecordNumbersCorrect` | `[]RecordNumbering` | |
| `CursorNumberCorrect` | `[]CursorNumbering` | |
| `NoRecordHidden` | `[]NoHiddenRecord` | no ghosts |
| `CursorAtTail` | `[]CursorTail` | no ghosts |
| `RecordsWrittenOnce` | `WriteOnce` | no ghosts |
| *`NtcHistoryOrderProofs`* | | |
| `ChronologicalOrder` | `[]Chronological` | no ghosts, boot reads |
| `OldestGoesFirst` | `RingExceptTwins` | no ghosts, boot reads |
| `LogIsRing` | `RingOnly` | whole writes, boot reads |
| `FlushLosesNothing` | `NoSilentDrop` | no ghosts, boot reads, the buffer fits into a sector, two sectors or more |
| *`NtcHistoryRingProofs`* | | |
| `LogRetains` | `[]Retention` | whole writes, boot reads |
| `LogImplementsRing` | `ImplementsRing` | whole writes, boot reads, two sectors or more |
| *`NtcHistoryEraseProofs`* | | |
| `SoundWithErase` | `[]SoundUnlessEraseFailed` | no ghosts |
| `UsedSlotsOnce` | `UsedOnce` | no ghosts |
| `NothingComesBack` | `[]ErasedStaysErased` | |
| *`HistoryReadersProofs`* | | |
| `ReadersTypeCorrect` | `[]ReadersTypeOK` | |
| `RowsStayInOrder` | `[]OldRowsInOrder` | no ghosts, boot reads |
| `ExcessIsWritten` | `[]ExcessIsNew` | no ghosts, boot reads |
| `NewestArePassedOn` | `[]NewestRows` | no ghosts, boot reads |
| *`NetworkProofs`* | | |
| `NetTypeCorrect` | `[]NetTypeOK` | |
| `StationRemembered` | `[]StationNotForgotten` | |
| `BitIsRight` | `[]BitFollowsStation` | |
| `PortalIsUp` | `[]PortalUnlessNetwork` | |
| *`RequestsProofs`* | | |
| `QuestionsAnswered` | `[]AnswersQuestion` | |
| `FieldsKeptApart` | `[]FieldsApart` | |
| `PlainFormsSaved` | `[]PlainFormSaved` | |
| *`SamplerProofs`* | | |
| `SamplerTypeCorrect` | `[]SamplerTypeOK` | |
| `LoggedIsOwn` | `[]OwnChannel` | |
| `BrokenIsNotLogged` | `[]BrokenNotLogged` | |
| `GoodIsLogged` | `[]GoodRoundsLogged` | |

The needs, and what in the code bears on them:

- *No ghosts* (`"ghost" \notin Tears`): a partly programmed slot whose `seq` still
  reads as all ones would be taken for free. The comment in `ntc_history.c` above
  the write ("Single 32-byte write phase for Flash ECC compliance") is the code's
  own reason to think that it does not occur. The runs leave ghosts out too.
- *Boot reads* (`ReadsFail = FALSE`): a header that cannot be read at boot hides
  the newest sector, and the log goes on with numbers it has used. The theorems
  about structure do not need it; those about the order of the samples do, since
  `Chronological` is false without it.
- *Whole writes* (`Tears = {}`): `RingOnly` is false with torn writes
  (`log_torn_ring`), and so are `Retention` and the refinement, which need every
  slot of a closed sector to count and only the oldest block to go.
- *Two sectors or more* (`NumSectors > 1`): the proofs speak of the sector behind
  the current one as of another. The firmware has 32. It is the proofs that need
  this: with `NumSectors = 1` in `log_ring.cfg` (three records to the sector, two
  in RAM, three faults) TLC finds `ImplementsRing` and `Retention` to hold as well.
- *The buffer fits* (`RamRecords <= RecordsPerSector`, `NumSectors > 1`): what a
  flush has written leaves the RAM buffer only at its end. If the buffer were
  larger than a sector, the flush could erase a sector that it has just written.
  The firmware has 16, 126 and 32.

### Structure of the log

`RecordNumbering` is not inductive: whether the next record gets
the right number depends on the cursor, and whether a write happens at all on
who holds the lock. `NumberingInv` adds `CursorNumbering` (next number = number
of the place) and `LockHolder` (what `pc` implies of `s_ready` and of the cursor).
The step that carries the proof is `Boot`: lemma `ScanRecoversNumber` shows from
`RecordNumbering` that the scan, which takes the maximum over the records it
passed, ends with `s_last_seq = seq_start + n - 1`.

`TailInv` in turn joins `NoHiddenRecord` with `CursorTail` and `NoGhost`: a write
hides nothing because the cursor stands behind the last record (`SetSlotTail`),
and the cursor stands there after a boot because nothing is hidden (`BootTail`).
After a failed write the slot holds nothing or a part of the record that the
retry writes; `Free` says so, and `StaysFree`, `AddRecordFree` and `CallTail`
carry it over the calls in between. `WriteOnce` follows from `TailInv` step by
step (`WriteOnceStep`).

`SoundInv` is the same with `ntc_history_erase_all` in between: the structure of
the flash holds throughout, that of the cursor except while the partition is
blank, and neither once an erase has returned an error. `FreshInv` has every
sample on flash, in the buffer and on its way younger than those that were wiped.

### Order of the log

One would like to say that the headers increase along the ring. They do not: a
torn first record leaves two sectors with one `seq_start` (twins), the next boot
resumes in the first of them, finds it closed, and erases the one behind it.
`OrderInv` is what does hold. `IsHead(p, S)` says that the numbers do not fall
going round the sectors `S` up to `p`, that none is higher than that of `p`, and
that a twin of `p` is empty and stands directly before it or somewhere behind it.
While the cursor is in a sector with room, that sector is the head of all
(`OpenInv`). Otherwise the sectors but the one to be renewed have a head and leave
room for the header that comes (`ClosedInv`), and what is stored in the one to be
renewed is the oldest, or is the twin's (`OldestNext`). `RangesApart` keeps the
numbers of one sector below the next header.

`LogInv` adds the samples: those in RAM are in the order of the calls
(`SampleInv`), those on flash are earlier, but for one whose write was reported as
failed and which stands at the cursor to be written again (`IdInv`), and numbers
order samples (`IdOrder`). `Chronological` is then a matter of reading.

`OldestFirstStep` gets `RingExceptTwins` from `OldestNext` at the erase; without
torn writes `NoTornStep` and `NoTwinsStep` exclude twins, which gives `RingOnly`. For
`NoSilentDrop`, `FlushInv` knows where the samples that a flush has written are:
they carry the last numbers (`FlushedInv`), a sector that was closed by writing is
full (`FullInv`), and so the erase that a flush makes on its way cannot reach them.

### Retention and the ring

`Retention` counts records, and `LogInv` does not say how many there are.
`UseInv` does: all sectors but the newest are full as far as they are in use
(`FullIfUsed`), and either the log is in its `FirstRound`, where the sectors in use
are those up to the newest and its header says how many records came before, or it
has `Wrapped` and all sectors but the one that is renewed are in use. Between the
last record of a sector and the header of the next, `Turned` says the same of the
sector that was filled and what may be found in the one behind it: its old records,
nothing, or the header that was written by a call that returned an error. `UseInv`
holds through every step, a reset in the middle of any of them included
(`UseInvariant`). Then places are counted: `CountFull` maps the slots of full
sectors into the samples one to one, since no sample can be read in two places
(`OnePlaceOnly`), and `UsedEnough` finds enough full sectors.

For the refinement, `RecordsRanked` shows that the readable records have one number
each, so that `ReadableLog` is the sequence of their samples in the order of the
numbers (`Sorted`, over `Rank` and `Nth`). Two lemmas about such sequences carry the
steps of the flash: a record with a higher number than all appends to the sequence
(`SortedAppend`), and taking away the records with the lowest numbers drops as many
from its front (`SortedDrop`). A write is the one (`ListWritten`). An erase is the other or
takes nothing away, for a sector that stores something is erased only when the
log is full and it holds the oldest block (`RenewedIsFull`, `FullCount`).

The queue is where a failed write shows: only the first sample in the RAM buffer
can be on flash already, at the cursor (`WaitersAre`). Whether it is decides what
`Waiting` leaves out, and so whether a retry moves a sample or changes nothing.
There is then one lemma for each kind of step: `OfferStep` for a call, `StoreStep`
for a write, `RenewStep` for an erase or a header, `FailStep` for any of these when it
fails, `FlushedStep` for the end of a flush, `QuietStep` where only the lock moves,
`ResetStep` and `BootStep`. `RingSteps` joins them.

### Readers

A reader's list of sectors is stale from the moment it gives `s_lock` back, so
the invariants speak of what the sectors in the list hold now. `PlaceInv` adds to
`LogInv` that a sample can be read in one place only. `ReadInv` says that of the
records in `old` those in the sectors still to be read come in the order of the
list and behind those passed on: an erase only takes records of `old` away, and a
rewritten sector holds none of them. `SeenInv`, `CountInv` and `ExcessInv` count:
what the first iteration has emitted and what is left to it lie between the known
records that are still there and all that are readable, which bounds `skip` on
both sides; the second iteration passes on no more than that and what it has met
that is new. `ExcessInv` also counts the known records that were listed and not
come to yet, so that when `get_records` has filled its array, what it has not come
to is no more than what it has met that is new: that is `Displaced`. `NewestInv` turns
the bound on `skip` into the rest of `NewestRows`: each known record that was met and
not passed on has `MaxRows` records above it, or records that were erased to make
up for them. A sector of which only the beginning was copied, since the array was
full, is treated as one that ends there (`FirstRecords`). `met` and the sets `known`
and `old` are what ties the numbers to the records.

### Network

`EventAtHand` ties the event that `ip_event_handler` has run for to the head of
the queue. `StationInv` is `StationNotForgotten` with it: each way to a
station that is down leaves an event behind, and each handler that takes the event
away connects. `BitInv` says that the last event of the queue that says anything of
the connection tells how the station is (`LastWord`), and when there is none, the
bit does (`Settled`). `PortalInv` adds to `PortalUnlessNetwork` that there are no
requests before the web server runs, which is last, and that `app_main` gets past the
access point only with a network saved; `PortalTaskStep` follows a `connect_task`, which
is the reason for a missing portal (`Excused`) from the mode to the configuration.

### Requests

Both models compute with recursive functions: the walk over the labels of a name
(`NameEnd`), and the flattening of a sequence of sequences (`FlattenSeq`) that an
encoded text is. The provers cannot instantiate the library's induction, but they
can do without: `LeastNumber` gets the least element of a set of numbers from
`NatLessThanWellFounded`, and `Counting` from that the induction for a *set* of
numbers, with no operator to instantiate. Each recursive function is then treated alike. It
exists, which its definition takes for granted (`WalkExists`, `FlattensExists`: the set of
lengths up to which there is such a function is that of all numbers). And its
values have the property wanted (`WalkEnds`; `FlattenSeqType`, `FlattenSingles`).

For the DNS server that gives: a name ends in a zero byte behind the header, or
not within what was received (`NameEndIs`). The first zero byte that the code's scan
comes to is that one, if no label holds another (`ScanFindsName`), and the branches of
`Reply` are then compared with `AnswersQuestion` one by one (`ReplyAnswers`). They look at
bytes behind the name only when those were received, so what earlier packets
left in the buffer does not count.

For the form: an encoded text has none of the keys and no `&` in it
(`EncodedType`), and a plain one is as it was (`EncodedPlain`). So of the beginning of a body
each key is found where the browser put it, if it has come, with a value that goes to
the next `&` or to the end (`FieldsOf`, with `ValueAt` and `FieldIs`), and `strncpy` takes
a beginning of the value that leaves room for the NUL (`FieldOf`). `FormInv` keeps
what was sent, received and saved together.

The constants are assumed to be what they are in C: bytes between 0 and 255
(`BytesAssumption`), texts made of the three kinds of characters
(`TextsAssumption`), arrays of at least one byte (`FieldSizesAssumption`).

### Sampling

`RoundInv` bounds time: what a conversion still takes and the time since the last
tick come to no more than a tick, unless the conversion was started late
(`ConverterInv`), and then to no more than two. So it is over when its value is
read, or the channel is in `late`, and a late one is over before the next start.
Where a conversion takes longer than a tick, or an earlier transfer has failed,
nothing is known and no value is logged as valid without being late (`TimeInv`).
`ValueInv` and `MissInv` say why a value is invalid, and `RecordInv` that the
record is the values that were read.

### Model-checked only

Liveness (`EraseCallsReturn`, `RequestAnswered`, `BootCompletes`, `ResponderUp`,
`RoundsEnd`): liveness under fairness is beyond the prover. Every other property of
the passing runs is a theorem.

## 5. Not modelled

- Timestamps: the log orders by record numbers, no caller passes a `since_ts`,
  and the clock is never set. `float_to_cC` and the conversion of a voltage to
  degrees are arithmetic on data that no branch of the models depends on but for
  its validity.
- The JSON of `/scan` and of `/history.json`; the pages, `/fake_history.json` and
  the redirect of unknown paths, which change no state.
- Wrap-around of the 32-bit record numbers: 16000 years at one record per two
  minutes.
- Fan control (stubs without state), the discovery tool, the build.
- NVS, lwIP, the HTTP server and FreeRTOS, but for what the models take from
  them; memory exhaustion other than in the readers.

## 6. Plan

What is left: `LogImplementsRing` for a log of one sector, which the firmware
never has (`NumSectors > 1` in section 4).
