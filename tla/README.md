# TLA+ verification of SoC-FPGA-Projects

The repository holds four independent projects:

- **ESP32 - IR remote**: an ESP32 that replaces the remote control of an air conditioner. It serves
  web pages and an Android app, keeps a weekly schedule, and sends infrared frames;
- **ESP32 - IR Receiver**: an ESP32 that receives the frames of a remote, decodes them, and sends its
  own, as a client asks over TCP;
- **FPGA - TCP server controlled IO**: a Zynq board that echoes what it is sent over TCP and moves its
  LEDs one place on with each packet;
- **MIPS CPU - Uni lab**: the DLX processor of a university lab, in VHDL, with the bus, the memory
  and the lab equipment around it.

This directory models the first three projects and the processor of the fourth one, checks them with
TLC and proves the most important of their properties with TLAPS. What is left out is in section 9.

Paths are shortened below: where a project is not named, `server_schedule.c` and the other C files are in
`src/ESP32 - IR remote/`, the `.kt` files in its `Android App/`, the `.js` files in its `html/`, and
the VHDL files in `src/MIPS CPU - Uni lab/`. In the parts about the receiver and about the FPGA, `main.c`
is that of the project.

## 1. The system and its parts

### 1.1 The remote

Five FreeRTOS tasks matter: `app_main`, the event loop of the Wi-Fi driver, **httpd** (the single
task of `esp_http_server`, which runs every URI handler), **scheduler** (`ac_scheduler_task`) and
the FreeRTOS **timer** task. They share memory without locks, save one binary semaphore.

| Part | State it keeps | Operations | Interacts through |
|---|---|---|---|
| AC scheduler (`server_schedule.c`) | the table of entries, `schedule_active`, `next_event_index`, `turn_off_day`, a one-shot timer, the state to act on at the next wake-up | switch on, switch off, update, toggle and delete an entry, compute the next wake-up | one task notification, the buffer `schedule_data`, the semaphore `schedule_uri_bSemaphore`, the settings |
| Schedule handlers (`uri_handlers.c:110-300`) | none | POST: take the semaphore, receive the body, notify the scheduler, wait for its answer. GET: list the table up to the first invalid entry | the same, from the other side |
| IR settings and transmission (`ir_codec.c`, `uri_handlers.c:150-235`) | a union of bit-fields; `power_state`, what the AC is believed to do; the RMT channel and its queue | a command changes a field and sends a frame; a frame with the power bit toggles the AC | both httpd and scheduler write the settings and transmit |
| HTTP server (`ir_http_server.c`) | handle of the server, pointers to the shared structures | start, stop, register handlers | Wi-Fi events |
| File operations (`http_file_ops.c`, `upload.js`) | files on flash, the upload under way, the page's position in its list of files | receive a file in place, list, send | HTTP connections that break or fall silent |
| Wi-Fi link (`wifi.c`, `main.c`) | `s_retry_num`, the event group bits | handle START, DISCONNECTED, GOT_IP; connect; watch | events of the driver |
| App, control page (`AcControlViewModel.kt`) | settings on the screen, tap counters, one debounce job | taps, two delayed jobs, POST and GET coroutines | HTTP; the server's settings |
| App, schedule page (`ScheduleViewModel.kt`, `SchedulePage.kt`, `ScheduleEditDialog.kt`) | a list of schedules, a dialog | save, toggle, delete, refresh | HTTP; the server's table |
| TCP server variant (`TCP server variant/main.c`) | as the receiver's, section 1.2 | the receiver's server without its receiving channel | sockets |

What makes the parts correct, and what is hard about them:

- *Scheduler.* It must wake up for the right event, whatever was edited, expired or was overwritten
  before, and must never sleep through one it has chosen; each request must get its own answer,
  though a notification is a single slot that senders overwrite. The calendar arithmetic goes
  around the week; the table must stay a prefix of valid entries because the listing stops at the
  first invalid one.
- *Infrared.* The AC does not answer, so `power_state` must follow every frame that carries the
  power bit; two tasks write the word it shares with two other bit-fields, and take the completions of
  their frames from one queue.
- *Files.* A success that is reported must be one, and no failure may leave half a file: all of the
  package was received, and what was not received to its end is removed.
- *Wi-Fi.* The station must never lie idle with nothing to rouse it; losses, attempts and the
  handling of earlier events interleave.
- *App.* One job variable serves two purposes, so starting one cancels the other; answers arrive
  late and out of order; the HTTP client may send a request again that the server has already served, and
  a POST carries steps, not values; the list on the screen is a guess between an edit and its refresh, and its
  length and places are used as indices into the server's table.

### 1.2 The IR receiver

`tcp_server_task` (`main.c:154`) accepts one client after the other and runs `ir_server` (36) for each; it
creates the RMT channels, a queue of one and an encoder, drops what the first two reads return, and
obeys words: `set`, `freq`, `tx`, `rx`, `rxtx`. `rx` arms the receiving channel and waits ten seconds for
the event that `example_rmt_rx_done_callback` (`rxtx.c:14`) puts into the queue from an interrupt; then
it decodes and prints the buffer. The Wi-Fi code is an earlier version of the remote's. What is hard:
the stream has no message boundaries; a frame may come at any time, before, during or after the wait;
every failed call ends in `abort()` and a restart, so that each resource a connection takes must be
there and each call be made in a state that allows it; the decoder must find the halves of the bits
again where equal ones melt together.

### 1.3 The FPGA server

`main` (`main.c:124`) programs the clock and the PHY of a ZC706 over I2C (`si5324.c`, `sfp.c`,
`i2c_access.c`), or resets the PHY of a ZCU102 (`iic_phyreset.c`), sets up the timer and its interrupt
(`platform_zynq.c` or `platform.c`), adds the interface, waits for DHCP, takes a default address if no offer
comes, starts the server (`tcp_server.c`) and loops: lwIP's fast and slow timers when the interrupt has
set their flags, then one packet. The callbacks echo what arrives and move the LEDs (`io_control.c`).
What is hard: the I2C functions spin on flags that an interrupt sets and nobody resets after an error;
the loop tests and clears flags the interrupt may set in between, and only these flags make lwIP send
again what was lost; the wait for DHCP ends by an offer or by the interrupt's countdown, and the test
after it looks at both again; connections that end without a callback keep their memory.

### 1.4 The DLX processor

`IO_simulation.vhf` connects the processor (`DLX.vhf`) to a simulated memory (`IO_SIMUL.VHD`,
`SRAM.VHD`). In the processor, `DLX_Control.vhd` is a state machine of twenty states that selects
what the data path (`DLX_DATA_PATH.vhf`) does in each clock; `MAC.vhd` is a second state machine
that runs one bus access when the control reads or writes; the memory answers after a delay. The
hard part is that one adder, one set of multiplexers and eight clock enables serve every
instruction over several clocks, that three state machines hand an access to each other, and that
a reset may come at any time and hits them differently.

The lab's earlier machines (`sDLX_Control.vhd`, the bus slave with its read and write state machines) and
its equipment (monitor, logic analyzer) are not modelled.

## 2. The modules

| Module | Models | Kind |
|---|---|---|
| `ScheduleTime` | `calc_delay_to_event_ms`: time of the week, delays by field-wise subtraction with borrows | operators |
| `ScheduleTable` | the table, parsing, update, toggle, delete, the search for the nearest switch-on, the answers | operators |
| `DeleteLoop` | the compaction loop of a deletion, one `memmove` per step | state machine |
| `NearestLoop` | `delay_to_nearest_schedule_ms`, one probe per step, while the clock goes on | state machine |
| `ScheduleService` | what clients are promised: one edit per request, answered with that edit's result | abstract specification |
| `AcScheduler` | httpd, scheduler and timer task on the schedule | state machine, implements `ScheduleService` |
| `IrSettings` | the settings and what each command does to them | operators |
| `IrPower` | httpd and scheduler switching the AC, every bit-field write taken apart, the RMT channel, the AC | state machine |
| `AcControlApp` | the control page of the app, the network, the server's settings | state machine |
| `ScheduleApp` | the schedule page of the app, the network, the server's table (`ScheduleTable`) | state machine |
| `FileUpload` | the upload page, a connection, `upload_file`, the files | state machine |
| `WifiLink` | the Wi-Fi handlers, `app_main`, the web server's start and stop | state machine |
| `IrCodec` | the layout of a frame, its pulses, and the Manchester decoder | operators |
| `IrReceiver` | the receiver and the TCP variant: link (an instance of `WifiLink`), socket, client, commands, channels, frames, restarts | state machine |
| `I2cAccess` | the I2C functions, their interrupt, and the two programs of transfers | state machine, extended by `FpgaServer` |
| `FpgaServer` | the board from its start to serving clients: main loop, timer interrupt, DHCP, connections | state machine |
| `DlxWords`, `DlxAlu`, `DlxControl` | words and instructions; ALU and shifter; control and MAC tables | operators |
| `DlxIsa` | the instruction set: one whole instruction per step | abstract specification |
| `Dlx` | the computer, one clock per step | state machine, implements `DlxIsa` |
| `ScheduleProofs`, `AcSchedulerProofs`, `SettingsProofs`, `FileUploadProofs`, `WifiLinkProofs`, `IrReceiverProofs`, `FpgaServerProofs`, `DlxProofs` | the theorems | proofs |

`MC*` modules give a specification its small instance; definitions commented "a plausible slip" are
wrong versions of the definition below them, kept to show that the properties notice (section 4).
Where one module of proofs extends several state machines, the names all machines have carry a prefix:
`ControlSpec` and `ControlTypeOK` are the specification and the types of `AcControlApp`, `Page...` those of
`ScheduleApp`, `Search...` of `NearestLoop` and `Delete...` of `DeleteLoop`.

### 2.1 How they correspond to the code

**AcScheduler.** `hpc` follows `schedule_post_handler`: *take* (line 251), *recv* (252), *notify* (275),
*reply* (278). `spc` follows the loop of `ac_scheduler_task`: *wait* is `xTaskNotifyWait`, *run* the
switch, *answer*, *give* and *config* the three calls after an edit, in the order of the code; the
answer really is sent before the semaphore is given. `snote` and `hnote` are the tasks'
notifications with FreeRTOS's two ways to set them. `timer_command` is the queue to the timer task:
changing the period of a timer is a command, executed later. A switch of the AC is one step here;
`IrPower` takes it apart. Time is the second of the week; a `Tick` waits until the scheduler and the
timer task have nothing to do (`Urgent`), because a step of theirs takes microseconds. It does not
wait for httpd, which a slow client may hold for as long as it likes.

**ScheduleTable.** Requests carry an index and a payload whose fields may each be in or out of range:
`TransferData` stores the fields in order up to the first bad one, as the code does. Toggles and
deletions at an index past the table write outside of it in the code; `RequestsAssumption` excludes
them (section 7).

**NearestLoop and DeleteLoop** are the loops themselves; `ScheduleTable` has their closed forms, which
the other modules use. `localtime` returns one shared `struct tm`, which the callee refreshes under
its caller: `now_tm` is that structure.

**IrPower.** `power`, `power_state` and the highest bit of `mode` are bit-fields of one 32-bit word:
`Load` reads the word, `Store` writes all of it back with one field changed. A frame that waits
behind another is encoded when its turn comes. `rmt_tx_wait_all_done` is three actions, as in the driver: it
counts what is in flight (`Count`: on air, waiting, or sent and not yet recycled), takes as many completions
from the one queue all waiters share, without a timeout (`Recycle`), and returns (`WaitDone`). The scheduler's branch is a sequence of steps, and
`AC_OFF`, unlike `AC_ON`, leaves `power` set, as in the code.

**AcControlApp and ScheduleApp.** A coroutine is a bag of requests under way; the server serves one
request at a time and in any order, answers come back in any order. In `AcControlApp` connections fail: before the
server has the request, after it has it but before it serves it (`strays`, which are served although nobody
listens), or after it has answered; each time the HTTP client, which is built with
`retryOnConnectionFailure(true)`, may send the request again (`Retried`) or report the failure to the app, which drops
it. In `ScheduleApp` connections do not fail. Indices, day masks and their
decimal text are treated as the code does: the mask is turned around three times on the way from
the dialog to the table.

**FileUpload.** Sizes are counted in buffers; a connection works, is closed, is reset or falls silent.
`received` is unsigned in the code, so a negative result is taken for a length and the following
`fwrite` crashes or fails: `Negative` has both outcomes. What `fwrite` left in its buffer is written by
`fclose`, whose result nobody looks at: `Finish` answers 200 and leaves the file stored, or received to the
end and *cut* on the disk.

**WifiLink.** The driver and the access point are the environment: attempts fail for as long as an
outage lasts. The loops of `app_main` are actions; the handlers of the web server keep the test that
makes them never act (`server` is an address).

**IrReceiver.** `pc` follows `tcp_server_task`: *accept*, the two reads whose result is dropped (*filter1*,
*filter2*), *recv*, and in a command *sending* and *echo* (`rmt_tx_wait_all_done` of `tx` and of `rxtx`) and
*wait* (`xQueueReceive`). `arrived` is what `recv` would return: commands that arrive together are one,
`Joined`. The receiving channel is `armed` from `rmt_receive` to the callback, which is one step with the
driver's filling of the buffer, `Capture`; it may come while the task decodes, and while it does
anything else. A failed `ESP_ERROR_CHECK` is `Abort`, which leaves what a restart finds. A channel that a
broken connection has left armed (`stray`) writes into a stack frame that is gone: `StrayFrame`,
`StrayAborts`. `settings` is an uninitialised structure in the receiver: its reserved bits are
`reserved`, any of `StackBits`. What differs between the two programs hangs on `firmware`. `app_main`'s
loop only prints. A second client waits in the backlog, which is no different from coming later.

**IrCodec.** A signal is a sequence of levels; durations are exact, because the tolerance of
`within_tolerance` (200 of 1000) only absorbs jitter. The decoder is read symbol by symbol, as in the
code. The remote's `ir_codec.c` has the same functions for setting and encoding.

**I2cAccess.** A program is the sequence of its transfers, each with what its caller does with a failure:
it ends the function (*must*), is ignored (*write*, *read*), or the read is repeated until its value is
right (*poll*). `call` is where the I2C function is: *next*, *send* and *recv* (the loops on the flags),
*sent* and *received* (the wait for an idle bus). `StatusHandler` runs at any time the controller is at
work; `TotalErrorCount` is only compared with 0, so `errors` is whether it is not.

**FpgaServer.** `pc` follows `main`; the loop is *fast*, *fast over*, *slow*, *slow over*, *input*, where
*over* lies between the call and the clearing of its flag. `board` and `platform` stand for the macros
of the build. In the wait for DHCP the test (`DhcpTest`) and the packet (`DhcpInput`) are two steps, as are the
last test and the choice of the address. `TimerCallback` may come between any two steps once the timer runs. lwIP is the
environment: it calls the callbacks from `xemacif_input`, one packet at a time, sends lost echoes again in
`tcp_slowtmr` only, and ends connections by itself when a client resets, when it gives up and when the
address changes (`Abandon`). A connection counts packets: those its client has sent and the server has not
received, the window, the echoes in the send buffer. The heap is counted in blocks, two for a
connection. A packet that arrives out of order makes a chain with the next, of which `RecvCallback`
acknowledges and echoes only the first, as the code does.

**Dlx.** A variable per register; `S1`, `S2`, `DINT`, `Cadr`, `AO` are the wires. A `Clock` step takes
every register at once to its next value. `step_en` is any value in any clock. What a word means as
an instruction is the constant function `Decode`, so that a word of six bits can stand for every
kind of instruction; the adder keeps the code's structure of two halves, of which the upper one is
computed twice.

### 2.2 History variables

They only record, for the properties to refer to, and no guard reads them: `late` and `provoked` (IrReceiver:
a wait of this connection has timed out; what has gone wrong since the start), `bound`, `leaks` and a
connection's `missed` (FpgaServer: what became of the lease; connections that ended without a callback;
an echo that was not written), `overlapped` (IrPower: both
tasks were once at it at the same time), `disturbed`, `tapped`, `taps`, `applied`, `resends`, `resent` (AcControlApp: a
connection failed or answers came in another order; what was tapped, and applied by the server; how often the
HTTP client sent a POST again, and the steps in those),
`hasty` (ScheduleApp: an edit was made before the refresh of the last one had ended), `rebooted` and
`tries` (FileUpload), `initial` and `start` (the loops). `tapped`, `resends` and `tries` and the counters behind
`MaxEdits` and `MaxHasty` bound the runs.

## 3. The runs

All runs are of small instances; section 6 says what is proved for all of them. The type invariants are proved
for `AcScheduler`, `IrPower`, `FileUpload`, `WifiLink`, `IrReceiver`, `FpgaServer`, `Dlx` and the two loops and are not
in the configurations (adding `TypeOK` to the `INVARIANTS` of any instance shows that it holds there).

| Run | Properties | Instance |
|---|---|---|
| `scheduler` | `SemaphoreReleased`, `ArmedForTheEvent`, `StartArmed`, `PostAnswered`, `WakeupHappens` | two days of two hours of two minutes of two seconds, a table of two; new entries past midnight on one day, one at the second slot on every day, refusals when full, deletions, the power button at any time; fair tasks and clock |
| `scheduler_faults` | `RequestIntact`, `TableStable`, `RejectedEditHidden`, `StaysListed`, `ServiceSpec` | one day of two hours of two minutes; every kind of request, index and payload; clients that vanish |
| `semaphore_leak` | `SemaphoreReleased`, **violated** | one request, clients that vanish |
| `schedule` | `ComputesDeleted`, `ComputesNearest`, `NeverEarly`, `OffWithinADay`; `ListAgrees`, `EntriesListed`, `DaysAsPicked` | a week of three days of two hours of two minutes of three seconds, tables of four. All 2500 deletions from tables over five entries; searches in tables with two entries out of seven, every instant, up to two seconds passing at any point of the search; the app's page with five edits, three of them hasty, two sets of days |
| `ir_power` | `SettingsReachAc`, `StateTracked`, `EventTakesEffect`, `TransmissionsEnd` | four commands, any number of commands and scheduled switches |
| `http_clients` | `AppliedAtMostOnce`, `EventuallyAgrees`; `SuccessMeansReceived`, `NoHalfReceived`, `UploadEnds` | three taps on two arrows and the power button, two servers, failing connections, a POST sent again; two files of four sizes around both limits, three attempts, every way a connection fails |
| `upload_stored` | `SuccessMeansStored`, **violated** | the uploads of `http_clients` |
| `upload_timeout` | `RetriedOnTimeout`, **violated** | the same |
| `wifi_link` | `NeverStranded`, `Reconnects` | the code's five retries, outages of up to seven attempts, any number of them |
| `ir_receiver` | `NoCrashUnprovoked`, `DecodedIsComplement`, `FreshDecode`, `CommandsConsumed` | both programs, any number of connections on a heap for three between two restarts, five commands (and `rxtx` from two that arrive together), two settings and another remote's, all reserved bits set |
| `fpga` | `AddressSettled`, `HangsOnlyAfterLeaks`, `BringUpEnds`, `EchoArrives` | all boards and platforms, the code's 43 registers; one client who comes back as often as he likes, bursts of two packets, a heap for a connection and a half; counters cut down (below) |
| `dlx` | `AnsweredInTurn`, `ReadIsFresh`, `ExecutesIsa`, `InstructionsEnd` | 630 programs, words of six bits, four registers, eight words of memory, any stepping, resets at any time |

In `schedule` and `http_clients` machines that share nothing are checked in one run: an initial state starts one of
them and leaves the others where no action of theirs is enabled (`OnlySearch`, `OnlyDelete`, `OnlyPage`; `NoControl`,
`NoUpload`), so the run is the union of their state graphs.

What they show:

- **scheduler.** After every request the semaphore comes back; whenever the scheduler sleeps and its timer runs, the timer expires exactly when the entry
  it will use starts (and no valid entry starts before) or ends; and a scheduler that waits for a start
  always has its timer running. The properties speak of the entry the *code* will use: that an edit may
  leave an old timer running, or no timer at all, is listed in section 7. A POST is answered in the end
  though a timer event may take its place in the notification, and a wake-up that was set is acted on
  or replaced.
- **scheduler_faults.** From hand-over to answer, a request's handler waits, its handle is known, no
  other handler enters and the buffer holds its body, so that the single-slot notifications never mix
  two requests up; the unlocked reads of the table never meet a write; an edit that is refused neither
  adds nor removes an entry; what a client can ask for keeps every valid entry in the listed prefix;
  and the three tasks implement the atomic service.
- **semaphore_leak**, **upload_stored**, **upload_timeout.** Disagreements of the code with what it says (section 7).
- **schedule.** The two loops compute the closed forms that `AcScheduler` uses, so what the search
  finds by looking at one or two days of each entry is the minimum over all of them; a wake-up computed
  while the clock moves may be late but never early; and the switch-off that is paired with a switch-on
  is the next one. If each edit of the app's page waits for the refresh of the one before, the page ends up with the
  server's table, all entries of the table are in the list, and the days are those that were picked.
- **ir_power.** When a command is answered the AC has heard its settings, whatever frame went out
  between. Until the two tasks have overlapped once, the tracked power state is the AC's, and a
  scheduled event leaves the AC as it should, although a power bit may be left
  over from an earlier one. A task gets through the channel unless the two have counted the same frame
  (`Starved`), after which one of them or both wait for ever (section 7).
- **http_clients.** A tap on an arrow is applied once at most, whatever jobs cancel each other, and once more only
  for each time the HTTP client sends its POST again; without failures the screen ends up with the server's settings.
  Of what the upload page calls a success the server has received everything; no failure leaves a part of a file,
  save a crash of the program; the server's only task leaves every upload whose peer is not silent.
- **wifi_link.** See the proof; in addition outages shorter than the retries are survived again and again.
- **ir_receiver.** The server restarts only if a connection broke, a wait timed out, a frequency had no
  number or the heap was used up: a client who comes, commands and leaves can do so for ever, on the
  eight blocks of RMT memory that two pairs of channels fill. What is printed was received since the
  command, unless a wait of the connection has timed out. A decoded message is the complement of the
  word that was sent. Every command is consumed.
- **fpga.** The address is settled whichever way offer and countdown meet; the start-up ends, whatever
  order the completions and errors of the I2C controller come in, unless a part does not work; every
  echo arrives in the end, however losses, ticks and steps of the loop fall, with the exceptions the
  property names; and the server hangs in an accept only when connections have leaked the heap.
- **dlx.** Between instructions the computer does what the instruction set says, every answer of the
  memory falls into its own access, a read ends with the word at its address, and instructions end.

**Bounds, and why they are enough.** Calendar: with two days, hours and minutes every comparison of two
times has all its outcomes, each borrow occurs, and both ends of the week are crossed; `schedule` has a
third day so that a mask may skip one. Tables: two slots show full, empty, first and last; deletion,
whose loop needs four slots before its second round has anything to overwrite, has them. Requests are
one per outcome of the parsing. Receiver: two connections that leak and a
third, five commands that are each word of the protocol, a frame of each sender; the layout has its
real 34 bits. FPGA: with a countdown and a lease of two slow ticks, six LEDs cut to two, a receive path
reset every four ticks (the code has 24, 120, 6 and 400), each counter passes its limit several times in a
run; a window and a send buffer of two packets are filled and exceeded by bursts of two; callbacks run to
completion and the connections share the heap and the LEDs only, so that clients one after the other
do to each other what clients side by side do. Three taps are a first one, one that cuts its pause short and one after
the POST; one POST that is sent again, before it is served, after it or both, shows what a second one would show again.
Uploads: sizes below, between and above the two limits, and an empty file; two files are a
first and a last. Outages of 0 to 7 attempts lie on both sides of five retries. DLX: six bits hold
positive and negative numbers and both halves of the adder; eight words of memory let code reach its
own instructions and data; the second set of programs puts each of 25 instructions after each other, so
that what one leaves in the registers is seen by all.

**Deadlock** is not checked in `schedule` (the loops end, the user stops after the bound), `http_clients`,
`upload_stored` and `upload_timeout` (the user stops after the bound), `ir_power` (both tasks may really wait for each
other's completion for ever), `ir_receiver` (a listener that failed is gone
for good), `fpga` (`main` may return, or hang in an assertion) and `wifi_link` (a station that has
given up stays idle and the main loop ends). Everywhere else it is.

**Fairness.** `AcScheduler`: httpd, scheduler and timer task each run when they can (FreeRTOS priorities
do not starve them: each blocks after its work), and the clock goes on; nothing is asked of clients, so
requests may never come; a transmission of the scheduler ends (a step here), which
`IrPower` shows up to the starvation of section 7. `IrPower`: the tasks run and a frame ends; weak fairness, since a completion that is there stays there
for a task that alone waits for it. `AcControlApp`: delays pass and requests whose connections hold are served;
nothing is asked of connections that failed (`ControlFairness`). `FileUpload`: page
and server go on; a read that waits ends after the server's timeout (`Fairness`). `WifiLink`: attempts end, events
are handled, tasks run; nobody has to lose a link. `IrReceiver`: the server's task runs, transmissions end and
waits time out; nothing is asked of clients, remotes and the access point. `FpgaServer`: `main` goes on, the
I2C controller reports on every transfer, the timer runs; a packet and an acknowledgement that are sent
again and again arrive in the end, and so does an echo, which is what lwIP's retransmissions count on
(strong fairness of `RecvCallback`, `Acked` and of a `SendAgain` that arrives). `Dlx`: the clock; nothing is asked of `step_en` or
the reset. `ScheduleApp`, `scheduler_faults`, the loops and the violated runs check safety only.

## 4. Can the properties fail?

For every property of every passing run there is a definition with a "plausible slip", a bug somebody
could make in that code, with which TLC finds the property violated in the same instance: the semaphore
given back after a success only, a notification that does not overwrite, the day search that stops at
the first day, a borrow that is forgotten, an answer of the memory given a clock too early, and so on.
They are named next to the definitions they stand in for.

## 5. What `ScheduleService` and `DlxIsa` say

`ScheduleService` has a table, one request at most, and three phases: *idle*, *asked*, *edited*. In one
step the table is edited and the answer fixed; in another it is given. A fourth step abandons a request
(the client vanished, or the page is unknown). It promises what an edit does without the code's
detail: an update stores the entry in a free slot or the one it names, and ignores an index past the
table; a toggle flips one bit; a deletion removes one entry and closes the gap in a table with room,
and in a full one only keeps the entries before it; a refusal changes no validity. `AcScheduler` implements it with the phase taken from where the two tasks are.

`DlxIsa` has memory, program counter and registers, one instruction per step. `Dlx` implements it with
the program counter set back by one while an instruction is under way (the decoding state has already
advanced it), and with a store taking effect when the memory writes, a clock before its end.

## 6. What is proved

Every theorem holds for all values of the constants that the named assumptions allow: any number of
days, hours, minutes, seconds, slots; any requests and commands; any package of files; any number of retries; any word length, memory
size, program and meaning of words.

**AcSchedulerProofs.** `TypeCorrect` (`TypeOK`) and `IndexAlwaysInTable` come from one inductive invariant,
`TypedIndex`: types, and "a schedule that is active or about to start has an index in the table". The
types need arithmetic lemmas: a remainder or quotient is in range, a delay is a natural number, an
entry keeps legal times (`ScheduleProofs`). `RequestAlwaysIntact` and
`TableOnlyChangesForAWaitingHandler` rest on `Handshake`, which says for each place of the scheduler
where httpd must be and who holds the semaphore: `RequestIntact` itself is not inductive, because it
says nothing about the time between the answer and the giving of the semaphore.
`SemaphoreAlwaysReleased` is proved for clients that neither vanish nor ask for unknown pages
(the run `semaphore_leak` shows that the assumption is needed), with `Released` ("a taken semaphore
has an owner on the way to give it back") added.

`SchedulerImplementsService` (`ServiceSpec`): each step is a step of the service
or a stutter, under the invariants above. `EveryEntryStaysListed` (`StaysListed`) and
`RejectionAlwaysHidden` (`RejectedEditHidden`) follow from lemmas about each edit.

`StartAlwaysArmed` (`StartArmed`) and `AlwaysArmedForTheEvent` (`ArmedForTheEvent`) come from `Armed`. Neither
is inductive: they speak of a running timer, but its period comes from a command that the timer task
executes later, and of a scheduler without a notification, but the one that waits may be about an event that
has since been edited away. `Armed` says of the period that *will* run (`Pending`) what the property says
of the one that does, at every place of the scheduler. That the period set is the distance to the nearest
start is `NearestIsFirst` (below), that a second passing keeps it so is arithmetic of the week.

**ScheduleProofs.** First the calendar: the remainder and the quotient of a number, minutes, hours and days as digits
of the second of the week, the borrows of `calc_delay_to_event_ms`. From them, for a calendar of any size: the delay is
the distance to the event, except in the event's own minute, when it is a week less. Minima over sets of naturals are
found from the lemma at the top of the module, itself derived from the well-foundedness of `<`.

- *Deletion.* `DeletionKeepsOthers`: with room in the table, the closed form of the loop is the removal of one
  entry; `DeletionStaysCompact`: it leaves a prefix. `LoopComputesDeleted` (`ComputesDeleted`): the loop computes the closed
  form on a table of any size. Its invariant, `DeleteInv`, says that the two indices count the rounds, that
  each round so far met a valid entry, and that the table is the closed form cut off at that round; each `memmove`
  overlaps itself, so the step is about every slot at once. `DeleteTypeCorrect`: the indices stay in the table.
- *Search.* `NearestExists`: the choice of the nearest switch-on is well defined. `NearestIsFirst`: when its delay
  is positive, no start of a valid entry comes before it, though the code looks at one day of each mask, or two.
  `SearchComputesNearest` (`ComputesNearest`), `SearchNeverEarly` (`NeverEarly`) and `SearchOffWithinADay`
  (`OffWithinADay`) are about the loop: `SearchBest` says that what it keeps is the best of the candidates met so far
  (`Visited`) while the clock stands still; `SearchLate`, that the shared `struct tm` shows an instant of the search
  and the delay found leads to the event's minute or, counted in whole minutes, later, however the clock runs; `SearchOff`,
  that the day of the switch-off belongs to the entry found. `SearchTypeCorrect`: the delay, put together from two
  readings of the clock, is never negative by a minute or more.
- *Schedule page.* `ListAlwaysAgrees` (`ListAgrees`), `EntriesAlwaysListed` (`EntriesListed`) and `DaysAlwaysAsPicked`
  (`DaysAsPicked`). For a user who waits, one message at most is under way, and which one it is (the stages *at rest*,
  *asked*, *confirmed*, *fetching*, *coming*, *filling* of `PageInv`) says how screen and table differ: before the
  server has acted they agree; after it, the list it will send is the table. The server grants whatever such a page
  asks for (`Granted`), because the indices it makes up lie in the table or just past it. A mask that is turned
  around twice is the mask.

**WifiLinkProofs.** `Unstranded` (`NeverStranded`) and `TypeCorrect`. The property is not inductive: an idle
station may have an event in the queue that does not rouse it. `Roused` strengthens it: the *last*
event in the queue of an idle station is one that makes it connect or give up.

**SettingsProofs.** On the remote's side, three invariants on top of the types. `Channel`: the frames in flight are at most two, one task
has counted them all or is about to, and both have when they are two (`Covers`). `Sent`: the frame on air, when nothing
waits behind it, carries the current settings, and so does what the AC heard last when nothing is on
air; while httpd waits, so does what the AC heard last as soon as the completions httpd still wants are in the
queue, although they may be the other task's. It gives `AnsweredSettingsReachAc` (`SettingsReachAc`) whatever overlaps. `Turns`, for as long as
the tasks have not overlapped: one of them is idle, nobody holds an old copy of the shared word, and
each place says whether tracker and AC agree. It gives `TrackerAgrees` (`StateTracked`),
`ModeStaysLegal` (`ModeLegal`) and `EventsTakeEffect` (`EventTakesEffect`), none of which is inductive: they
speak of tasks at rest. `TypeCorrect` is there too.
On the app's side, `TapsAppliedAtMostOnce` (`AppliedAtMostOnce`) from `TapsInv`: for each arrow, what the server has
applied, what the posts under way and the strays carry and what the app still counts are together no more than the
taps and the steps that were sent again. Both
are bags, and summing over it would need an induction; the invariant says instead that there *is* a function of
partial sums (`Sums`), and each step that adds, takes or moves a post gives the new one.

**IrReceiverProofs.** `CrashesAreProvoked` (`NoCrashUnprovoked`) and `DecodesAreFresh` (`FreshDecode`) from one
inductive invariant. `CrashInv`: unless a connection broke, the blocks of RMT memory that are taken are
those of the connection that is served, which is why the next accept finds enough of them; a stray
channel has a broken connection behind it. `ChannelInv`: the channel is armed, and an event waits in the
queue, only while a command waits for it or after a wait has timed out, which is why `rmt_receive` is not
called on an armed channel. The link is an instance of `WifiLink`, whose actions leave the server alone.
`LinkUnstranded` carries that module's `NeverStranded` to the instance, where a restart may cut the link's start short;
`TypeCorrect` keeps the free RMT memory below the chip's: what is free while a client is served, and what the client
will give back, are no more than all of it (`Room`).
`DecodeComplements`: the decoder reads from the signal of any word its complement. The decoder's position in the signal
is a recursive function of the bits read, and "the first i bits are read right, and the position is the place of
bit i" is shown for all i by taking the least i for which it fails. `DecodesComplements`
(`DecodedIsComplement`) carries it to the server: whatever the buffer holds was a word (`LightInv`), since every
setting the protocol can produce fits the fields of a frame.

**FpgaServerProofs.** `AddressAlwaysSettled` (`AddressSettled`) from `AddressInv`, which says for each place of
the start how address and lease go together: a lease that is held is the address, there is no such address
without one, and a wait that ended without any lease left the countdown at 0, which the interrupt cannot
undo before the test that follows. `HangsNeedLeaks` (`HangsOnlyAfterLeaks`) from `HeapInv`: the free blocks and
two for every open or leaked connection are never less than the heap, and the server hangs with a timer that
works only when no block is free. It counts a finite set of open
connections that a step empties, shrinks by one or extends by one, for which the lemmas about
cardinalities stand first. `TypeCorrect` needs the bound from the other side as well: free blocks, two for every open
connection and one at least for every leaked one are never more than the heap. The rest of it are the transfers, whose
`at` stays in the program of the board that starts, and the connections: what a client waits for is at least what is in the send
buffer or not yet sent, so that no acknowledgement makes a counter negative.

**FileUploadProofs.** `SuccessIsReceived` (`SuccessMeansReceived`) from `Chain` and `Arrived`. An upload may
outlive its connection and still run when the user tries again. `Chain` says that such an upload holds
the new attempt back at its first file, and that request, upload and response never belong to the same
file twice; `Arrived`, that the files before the current one were received to their ends. A package may be of any
length and even name a file twice. `NoneHalfReceived` (`NoHalfReceived`) from `Whole`: only the file being
received is in part on the disk. That a received file is *stored* is not true of the code (`upload_stored`). `TypeCorrect` uses the chain to bound the page's index.

**DlxProofs.** `TypeCorrect` (`TypeOK`), which is about arithmetic: two half sums make a word, a shift does not
leave the word, whatever the control selects. `Answers` (`AnsweredInTurn`) from `Handshake`: the counters
of the memory run only while the MAC waits for its answer, and the control does not leave its request
before. `Reads` (`ReadIsFresh`) from `WordRead`: when the answer is given the output register holds the
word of the address, which has not changed since.

`Executes` (`ExecutesIsa`) is the refinement of `DlxIsa`: each clock is the step of an instruction or invisible to the
programmer. Three things carry it. The adder, which adds two halves and picks the upper one by the lower one's carry, is addition and
subtraction of whole words, and the shifter and the tests of the ALU are those of the instruction set (the sign
bit is the comparison with half the words, which needs `HALF` even; it is 2^16). One table says for each state where `DLX_Control`
goes and what the registers take in that clock (`Clocked`, `GoesTo`, `DecodesTo`). And `InProgress`
says what an instruction has done so far at each of the twenty states: its word is in `IR` and its address behind the
program counter (`Fetched`), its operands are latched (`Latched`), its state belongs to its opcode
(`Decided`), and `C`, `MAR` and `MDR` hold the result, the address and the data that the programmer's step will use
(`Worked`). It holds under any `step_en` and after a reset at any time.

**Model-checked only.** Liveness (`PostAnswered`, `WakeupHappens`, `TransmissionsEnd`, `EventuallyAgrees`,
`UploadEnds`, `Reconnects`, `CommandsConsumed`, `BringUpEnds`, `EchoArrives`, `InstructionsEnd`): temporal properties under
fairness are out of the prover's reach, as is `ENABLED`. Every safety property of the passing runs, state invariant or
action property, and both refinements have a theorem. Where a proof is about all lengths of a loop, a table
or a word, it does without the library's induction theorems, whose operator parameter the provers
cannot instantiate: a loop has an invariant, a recursive function a least counterexample.

## 7. Where the code does not do what it says

Three disagreements are runs.

- `semaphore_leak`: `uri_handlers.c:247` says of the semaphore "released in scheduler task", but
  when `httpd_req_recv` fails (252) or the page is unknown (268) the handler returns without notifying
  the scheduler, and the next schedule request blocks the only HTTP task for ever.
- `upload_stored`: `http_file_ops.c:214` answers "File uploaded successfully", and `upload.js:97` tells the user so,
  but the result of `fclose` (213), which writes what is left in the buffer, is not looked at: the tail of the file may be
  missing.
- `upload_timeout`: `http_file_ops.c:188` says "Retry on timeout", but `received` (181) is unsigned, the negative
  result of a timeout does not pass the test for `<= 0` (186), and `fwrite` is called with a length of nearly the whole
  address space: it crashes, or falls short and the upload is given up. `UploadEnds` leaves a silent peer out, because
  it would hold of one only on account of this bug.

The others were met while modelling. Properties are stated so that they hold beside them, with the
condition named; the models all have the behaviour.

- `server_schedule.c:129`: when an edit finds no positive delay, `config_wakeup` sets no wake-up but leaves
  a timer that runs: its event reaches the default branch, of which line 378 says "shouldnt be reached".
- The same line: during an event's own minute its delay is zero or negative, so an edit in that minute
  loses the start, or the end, of the schedule until the next edit.
- Lines 281-292: an AC that was switched off by hand before the end of a schedule makes `AC_OFF` neither
  end the schedule nor set a wake-up; it stays active for ever.
- Line 221: a timer event that is pending when an edit arrives is acted on with the state and index of
  another entry.
- Lines 361-366: the second round of the compaction moves what the first has moved already: deleting
  entry 0 of A B C D leaves B D. (With room in the table there is no second round.)
- Line 107: whether an entry spans midnight is decided by the hours; from 10:30 to 10:10 is six days
  and 23:40 hours (`SpanSeen` excludes it).
- Line 319: an update at an index past the table stores nothing and is answered as a success; toggles (340)
  and deletions (359) at such an index are not checked at all.
- Lines 261-291 and `uri_handlers.c:218-231`: the settings' word is written by two tasks without a lock;
  when they overlap, a toggle or a bit of the mode is lost (`overlapped`).
- `ir_codec.c:24`: `rmt_tx_wait_all_done` takes as many completions from the channel's one queue as were in flight when
  it was called, without a timeout. When both tasks count the same frame (1 and 2 wanted, 2 delivered) one of them is left waiting until another frame comes, whose completion it takes from
  its sender; when both count both frames, each may take one and both wait for ever: the web server and the schedule
  stop (`Starved`).
- Line 283: the switch-off leaves the power bit set, so that the next command of any kind toggles the AC.
- `uri_handlers.c:192` says that the fan speed "overflows to 0"; the code clamps it.
- `uri_handlers.c:201`: `FAN_DOWN` looks for its number behind the prefix of `FAN_UP` and always steps by one.
- `AcControlViewModel.kt:147`: fetched settings cancel the job that would post counted taps; they wait for
  the next tap.
- `network/HttpClient.kt:35`: a request whose connection failed may be sent again although the server has served it; a
  POST of steps, or of the power button, is then applied twice (`resent`).
- `ScheduleViewModel.kt:111`: two refreshes at once clear twice and fill twice: the list doubles.
- `SchedulePage.kt:41`: the index of a new schedule is the length of that list; it may lie behind a gap,
  where the schedule is stored, obeyed and never listed.
- `upload.js:71` allows 200KB, `http_file_ops.c:151` 128KB.
- `wifi.c:44`: the CONNECTED bit is never cleared, so that `main.c:54` never reports a lost link.
- `ir_http_server.c:255`, `269`: the handlers ask for a pointer to be NULL that is the address of a variable:
  the server is neither stopped nor started by them.

In the receiver and the TCP variant:

- `ir_codec.c:219` takes the first half of a pair for the bit, `ir_codec.c:48`
  sends it in the second: a decoded message is the complement of what was sent.
- `main.c:84`, `107`: nobody looks whether `xQueueReceive` has timed out. The first time `rx_data` is
  uninitialised; later an old frame is printed, and the channel stays armed: the next `rx` aborts, unless
  a frame has come in the meantime, which is then printed at once.
- `main.c:67`: a connection that breaks returns without deleting its channels; an armed one goes on writing
  to a stack that is gone. The third connection after two of them finds no RMT memory and aborts.
- `main.c:46-56`: the encoder and the queue are never deleted; `ir_codec.c:123` does not look at its
  allocation.
- `main.c:66` writes `tcp_rx_buffer[len]` before it looks whether `len` is negative.
- `main.c:61`: the two messages that are dropped are commands, if the client's terminal does not introduce
  itself.
- `main.c:65`: commands that arrive together are compared as one word.
- `main.c:135`: `sscanf` returns EOF, which is not 0, for `freq` alone.
- `main.c:205`: an `accept` that fails ends the server for good.

In the FPGA server:

- `sfp.c:108` promises XST_FAILURE if the programming was not successful; the results of all transfers but
  two are dropped (139-187), and `main.c:137-138` drops that of both functions.
- `sfp.c:175` waits for a link partner for ever; `i2c_access.c:256`: after one error the count stays, and
  every later call fails unless its completion is seen first.
- `platform_zynq.c:128-131` says that the receive path is reset every 100 milliseconds; 400 ticks of 250
  milliseconds are 100 seconds. `platform.c`, for SDT, has no such reset.
- `platform_zynq.c:157`, `165`: a timer that cannot be set up is only printed; the wait at `main.c:210` then
  never ends, or enabling the timer asserts.
- `tcp_server.c:80`: only the first pbuf of a chain is acknowledged: the window shrinks for good.
- `tcp_server.c:107`: the XGpio is used without a look at what `malloc` returned; line 115 leaks it.
- `tcp_server.c:129`: without `tcp_err`, connections that lwIP ends leak both blocks.
- `tcp_server.c:86`: the result of `tcp_write` is dropped; `main.c:233`: that of `start_application` too.

## 8. Assumptions

- A step of the scheduler or the timer task takes less than a second; the clock does not jump (the daily
  time synchronisation is not modelled).
- Delays are not cut to 32 bits: the tick rate that decides where `pdMS_TO_TICKS` overflows is a build
  option that is not in the repository.
- The AC hears every frame, and no other remote is used. The driver's count of transactions in flight, a C integer
  that both tasks change, is exact.
- Files: `unlink` of a file that was just closed succeeds; `fclose` either writes all of what is left or cuts the file.
- App: what a failing connection does to an edit of the schedule page is left out (`ScheduleApp`), with the sending
  again of such an edit.
- Requests name indices inside the table, or the first one past it for an update.
- The HTTP server is not asked before the scheduler task has published its table and handle.
- DLX: registers and memory power up as their declarations say, and as zero where a declaration gives no value (VHDL
  leaves them undefined until the reset, in which every run starts); the reset lasts over a rising edge of
  the clock, because `PC` is reset by one and the control is not; the three bitwise operations are
  functions on words; half a word is an even number of values. The debug port of the register file, `in_init` and `stop_n` are left out.
- Receiver: durations are measured exactly; two channels of 128 symbols take two blocks each, of the eight of
  the ESP32. `BoardAssumption`, `ServerAssumption`, `ReceiverAssumption`: constants are natural numbers.
- FPGA: IPv4 with DHCP on an ARM core; lwIP's own state is reduced to what the callbacks see; nothing but
  the connections uses the heap; `eth_link_detect` changes nothing here.
- Formatting, logging, HTML and JSON wording, timing within a frame: left out.

## 9. What is not modelled

- *Nothing to check*: layout and theme of the app; the two form pages of the web interface, which send
  requests that `AcScheduler` and `IrPower` accept in any order; the block design of the FPGA, which the
  vendor's tool generates; what is written to the registers of the clock and the PHY; `debug.c`.
- *Pure output*: the GET handlers of files, of their listing and of the settings change no state; those
  the app reads are modelled where it reads them.
- *The daily time synchronisation* and `get_http_date`: a clock that jumps changes what every wake-up
  means, and neither code nor documents say what should happen to one that was set before.
- *The lab's earlier machines*: the load/store machine has the states of the processor's control for two
  instructions; the bus slave and its state machines stand alone. Monitor and logic analyzer only watch.
- *lwIP, esp_http_server, FreeRTOS, the drivers*: external, modelled by what the code sees of them.

Proofs that would add most: the types of the two pages of the app, of which the invariants of section 6 hold
what the properties need; and that `IrPower`'s steps, as long as the tasks do not overlap, are those `AcScheduler` takes
for its switches.

## 10. Running it

    tlc -config AcScheduler.cfg MCAcScheduler
    tlapm AcSchedulerProofs.tla

Each `.cfg` belongs to the module of the same name or to `MC` with that name, save these: `AcSchedulerFaults` and
`SemaphoreLeak` belong to `MCAcScheduler`, `SuccessMeansStored` and `RetriedOnTimeout` to `MCFileUpload`.
`MCHttpClients` extends `MCAcControlApp` and `MCFileUpload`, which hold the values of its constants. The longest run
takes about two minutes with two workers.
