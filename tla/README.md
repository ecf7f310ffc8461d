# A verification of the eCTF 2025 example system

This directory holds TLA+ models of the eCTF 2025 example design: the decoder
firmware (`decoder/`), the host tools (`tools/ectf25/`) and the design package
(`design/ectf25_design/`). TLC checks the models on small instances; TLAPS proves
the most important results for every value of the constants.

All source paths below are relative to `src/`.

## 1. The system

    Encoder -> Uplink --TCP--> Satellite --TCP--> TV --serial--> Decoder
                                                   |
                          tv.subscribe, tv.list ---+

| Part | State it keeps | Operations | Talks to |
|---|---|---|---|
| Decoder, commands (`decoder/src/decoder.c`) | the subscription table in RAM (`decoder_status`) | boot, list, subscribe, decode | flash by calls, host by messages |
| Decoder, flash (`simple_flash.c`) | one page, behind a canary | erase, write, read | called by boot and subscribe |
| Serial protocol (`host_messaging.c`, `tools/ectf25/utils/decoder.py`) | what each side has read of a message; the host's `stream` | write/read a message, acknowledge | each other, by bytes |
| Uplink (`tools/ectf25/uplink`) | `encoded_queue`, `uplink_down`, `read_lock`, per channel `send_frame` | frame clock, frame stream, drain, connection handler | satellite, by TCP |
| Satellite (`tools/ectf25/satellite.py`) | a chain of futures per channel, tasks to cancel, open streams | read the uplink, publish, serve one TV, stop on a fatal error | uplink and TVs, by TCP |
| TV (`tools/ectf25/tv`) | `to_decode`, `crash` | receive thread, decode thread, main thread | satellite; decoder by serial |
| Bootloader client (`utils/flash.py`) | position in the image | update | bootloader (not in the repository) |
| Encoder, secrets, subscriptions (`design/`) | none | pack structures | the decoder, by way of files and frames |
| Tester (`utils/tester.py`) | the frames of each stage | generate, encode, decode, compare, dump | encoder, decoder |
| Stability test (`utils/stability_test.py`) | rolling lists of times, counters | rounds of encoding and decoding, checks of rates | encoder, decoder |
| Stress test (`utils/stress_test.py`) | none | encode or decode each frame of a file | encoder, decoder |

What is hard in it, and hard to test: power that fails while the flash page is
rewritten; uninitialised table entries and erased flash that are read as data; a
protocol with neither timeouts nor message numbers, where a killed tool leaves
the decoder in the middle of a message; several coroutines around one lock and
one queue; handlers that start and stop while frames are published; threads that
wait for a device with no timeout. `PROJECT.json` lists each at its line
("hazards"), with the properties that would catch it.

What makes each part correct:

* decoder: the table is a map (no channel twice), what was confirmed is kept over
  reboots, a command changes nothing but what it is asked to change;
* protocol: a call is executed once, as made, and returns the answer; after a
  fault the two sides find each other again;
* uplink: each frame leaves the queue once and in order, and goes to the satellite
  while one is connected;
* satellite: every connected TV gets each frame of its channel once and in order;
  a fatal error ends the process;
* TV: frames are decoded in the order received, each once; a crash of one thread
  ends all, and few frames go to the decoder after it;
* bodies: what one side packs the other unpacks, three Python files and one C
  file agreeing on fields, widths and order;
* from end to end: what the screen shows is what was encoded for the channel, and
  a subscribed decoder refuses none of it;
* update client: it never runs ahead of the board, and "complete" means installed;
* testers: every usable frame is tested, a frame is compared with its own
  original, a failing decoder is never passed and a working one never blamed, and
  the dumps line up wherever the loop was stopped.

## 2. Modules

| Module | Models |
|---|---|
| `Subscriptions` | what a decoder promises: a partial map from channels to windows |
| `Decoder` | `decoder.c` and `simple_flash.c`; implements `Subscriptions` |
| `MCDecoder` | instances of `Decoder` for TLC |
| `DecoderProofs` | invariants of `Decoder`, proved |
| `DecoderRefinement` | `Decoder` implements `Subscriptions`, proved |
| `Exchange` | what the protocol promises: a remote call, executed once |
| `HostLink` | `host_messaging.c` with `utils/decoder.py`, byte by byte; implements `Exchange` |
| `MCHostLink` | instances of `HostLink` for TLC |
| `HostLinkProofs` | safety of `HostLink` while nothing fails, and that it implements the safety part of `Exchange`, proved |
| `Uplink` | `uplink/__init__.py`: coroutines that share a queue and a lock |
| `MCUplink` | instances of `Uplink` for TLC |
| `UplinkProofs` | safety of `Uplink`, proved |
| `Broadcast` | what the satellite promises to its TVs: a backlog for each of them |
| `Satellite` | `satellite.py`; implements `Broadcast` |
| `MCSatellite` | instances of `Satellite` for TLC |
| `SatelliteProofs` | `Satellite` implements the safety part of `Broadcast`, proved |
| `Wire` | the bodies of the messages: `encoder.py`, `gen_subscription.py`, the packed structures of `decoder.c`, the list in `utils/decoder.py` |
| `WireProofs` | what is packed is unpacked, proved |
| `TV` | `tv/__init__.py`: three threads, a queue and an event |
| `Delivery` | `TV` with `Wire`, `Broadcast` and `Subscriptions`: from the encoder to the screen, with `tv.subscribe` and `tv.list` |
| `MCDelivery` | an instance of `Delivery` for TLC |
| `DeliveryProofs` | safety of `Delivery`, proved |
| `Flash` | `utils/flash.py`, with the bootloader it expects |
| `Tester` | `utils/tester.py` |
| `Stability` | `utils/stability_test.py` |
| `Bench` | `Flash`, `Tester` and `Stability`: the utilities that use a board, one at a time |
| `MCBench` | an instance of `Bench` for TLC |
| `BenchProofs` | safety of the three utilities, proved |

### Decoder

| Variable | Code |
|---|---|
| `subscribed_channels` | `decoder_status.subscribed_channels` (decoder.c:121) |
| `flash` | the page at `FLASH_STATUS_ADDR`, as words of 8 bytes |
| `pc`, `job` | where `init`, `update_subscription` or `main` is |
| `wp` | how far `flash_simple_write` has come |
| `update` | the packet in `uart_buf` |
| `reply` | the last response to the host |
| `accepted`, `confirmed` | history: updates written to RAM; updates told to the host as done |

`BootAgain`, `FirstBoot` and `InitUart` are `init`; `StartUpdate`, `RefuseUpdate`
and `EndUpdate` are `update_subscription` before and after its two flash calls;
`ErasePage`, `WriteWord`, `WriteDone` are those calls; `list_channels`, `decode`
and `BadCommand` are the other branches of `main`. `EraseFails` and `WriteFails`
are the negative results that the callers drop. Power may fail in any state: at
quiet moments (`IdlePowerCut`) and during a rewrite (`TearingPowerCut`).

Three specifications share these actions. `StableSpec` has power loss only
outside of rewrites, `CutSpec` has it everywhere, `FaultSpec` adds the refused
flash operations. Numbers of unused slots at the first boot are any numbers
(`FirstBoot`), as the C code leaves them uninitialised (decoder.c:306-312). A
`bool` read from erased flash is 0xFF; the model lets it be read as either value,
chosen at boot.

A word of the flash is 8 bytes. This is the alignment of `channel_status_t`: the
flag and the number of a slot share a word, each timestamp has its own. The
controller programs larger lines; a power loss then tears at fewer places than the
model allows, so the invariants proved for `CutSpec` carry over, and the
counterexample of `decoder_persistent` needs no finer cut than the one between
the erase and the first line.

### HostLink

| Variable | Code |
|---|---|
| `hpc`, `request`, `unsent`, `outcome` | the call in progress in `DecoderIntf`: `send_msg`/`get_ack`, then `get_msg` |
| `stream` | `DecoderIntf.stream` |
| `msg` | the header and body in `get_raw_msg` |
| `toDecoder`, `toHost` | the bytes on the wire, in order |
| `dpc` | `packet`: in `read_packet`; `body`: in its `read_bytes`; `write`: about to write; `ack`: in `read_ack` |
| `hdr`, `packet` | what `read_header` and `read_bytes` have read |
| `outbox`, `untold` | messages the firmware still writes before it is ready; the rest of the body being written |
| `served` | history: packets executed since the call began, with their answers |

One byte is read per step on the decoder, and in the host one byte of a header or
one block of a body. Writing is one step: it never blocks. `LinkSpec` has no
faults; a tool may be followed by another, and opening the port discards some of
what had arrived. `FaultSpec` has `Kill` (a tool dies with some of its bytes
still unsent), `PowerLoss`, `GiveUp` (the user interrupts a call when both sides
wait for bytes) and `Retry` (the user calls again, with a new tool, once the
decoder has read all and is waiting).

### Uplink

| Variable | Code |
|---|---|
| `send_frame`, `idx` | the event of each `Channel`; the next frame in `frame_stream` |
| `encoded_queue`, `uplink_down` | the same |
| `locked`, `waiters` | `read_lock`: whether it is held, and who waits for it, in order |
| `at`, `frame`, `running` | the line of each task, the frame it holds, and the task that has not awaited yet |
| `conn` | the TCP connection of each handler |
| `expected`, `wasted` | history: the next frame of each channel that is due; frames drained since a satellite came |

Coroutines of one asyncio loop only switch when they await something that is not
there. While `running` names a task, no other one may step; it is `Nobody` after a
suspension. So `clear()` on entry and the following `acquire()` are one piece, and
so are `get()` and `write()`, but waiting for the lock, for a frame, for an event or
in `drain()` lets the others in. `asyncio.Lock` serves its waiters in order, and
is not taken past them (`Free`). A write to a satellite that has gone succeeds
and provokes a reset; only a later one fails, which is how the code learns of it
(`Write`, `ConnectionLost`, `EndHandler`). An old handler may thus linger while
a new one already serves, and sets `uplink_down` when it ends.

### Satellite

| Variable | Code |
|---|---|
| `uplink`, `read` | `serve_uplink`, and how many lines it has read |
| `resolved` | `PubSub`: the values of the resolved futures of a channel; the next future is pending |
| `server`, `cleanup_tasks`, `cancelled` | `serve_downlink` per channel; the tasks that `handle_fatal` cancels, and has cancelled |
| `at`, `port`, `waiter`, `conn` | `downlink` per TV: its line, channel, the future it awaits, its connection |
| `streams` | `self.streams` |
| `sent` | what the handler has written to an open connection |
| `process` | whether `main()` has exited |

`handle_fatal` is called by the uplink when it fails and by each port that
closes, and is part of those actions. An exception other than a JSON error
(`BadChannel`), and a port that is taken (`ListenFails`), reach the task group of
`serve()`, which cancels everything (`AbortServer`); a JSON error or the end of
the uplink does not, so that there the satellite ends only if `handle_fatal`
has cancelled every port. `PromptSpec` has the uplink fail only when all ports
are registered; `Spec` does not. A closed `asyncio` server is taken to return from
`wait_closed()` at once, as it does in Python 3.11, the version that
`pyproject.toml` asks for; later ones also wait for the connections.

### Wire

A body is a sequence of bytes, a byte one of `Byte` values. `P32` and `P64` are
the formats `I` and `Q` of `struct` (little-endian, no padding); `U32` and `U64`
read the same from memory, as the packed structures of the decoder do. `encode` is
`Encoder.encode`, `gen_subscription` the function of that name; `UpdateOf`,
`FrameChannel`, `frame_size` and `FrameData` are what the decoder reads,
`ListResponse` what it writes and `UnpackList` what the host makes of it.
`frame_size` keeps its 16 bits. TLC gives a byte two values, so that a channel has
4 bits and a timestamp 8 and all positions of the real formats remain; the proofs
hold for any number of values.

### TV and Delivery

| Variable | Code |
|---|---|
| `main` | the line of `run()`: `decode` and `downlink` name the thread that it is about to start |
| `rx`, `dec` | the lines of `downlink()` and `decode()` |
| `socket` | lines that have arrived and that `recv()` has not returned yet |
| `to_decode`, `crash` | the same |
| `hand` | the frame given to `DecoderIntf.decode()` |
| `shown` | frames printed |
| `port`, `call`, `listed` | the port chosen on the command line; the call on the serial line; what `tv.list` printed |
| `tuned`, `pending`, `sent` | the satellite, as in `Broadcast` |
| `subs`, `confirming`, `answer` | the decoder, as in `Subscriptions` |
| `late`, `wanted`, `since`, `garbled` | history: frames given to the decoder after the event; the requests accepted; the frames encoded since the TV listens; whether a cut call returned something |

`TV` holds the steps of the three threads. Each test of the event, of the queue and of
the other threads is a step of its own, so that a crash, ctrl-C or a frame may come
in between; `Receive` reads a line and queues its frame, which nothing else in the
process can tell apart. The thread in `downlink()` is a daemon, so the process ends
(`Ended`) when the main thread and the one in `decode()` have ended.

`Delivery` joins them with the rest. The satellite and the decoder are what
they promise to be, `Broadcast` and `Subscriptions`, which `Satellite` and `Decoder`
are shown to implement; a call on the serial line is that of `Exchange`: it is
asked (`Ask`), executed once (`Serve`) and answered (`Answered`). A loss of power
(`PowerLoss`) takes the call out of that promise: it may then never end, raise, or
return anything at all (`CutCall`), as the runs of `HostLink` show; no property
is claimed of frames behind such a return (`garbled`). The decoder then has the map it
had before. This is what `Subscriptions` promises, and only while no subscription is being
stored: the page is erased before its one copy is rewritten (decoder.c:243-244), and a
power loss in between loses any number of subscriptions (`decoder_persistent`). So
`PowerLoss` is enabled only outside of that time (`~confirming`): that power holds until
a subscription is confirmed is an assumption, on which `ChannelDecides` and `ListTells`
rest.

Whether a frame is decoded depends on its channel only, and `ChannelDecides` says so.
`gen_subscription.py:30-31` calls `start` and `end` the first and the last timestamp
that a subscription is valid for, and these are packed, stored and listed; but `decode()`
tests nothing but `is_subscribed(channel)`, so a frame outside of the window is shown
like any other. The code declares this: "The reference design doesn't use the
timestamp" (decoder.c:266). The instance has such frames: those of channel 13 have the
timestamp 0, and the window of that channel is 15 to 16.

The tools use the serial port before the TV does, because only one program can.
`Listen` is the accepted connection together with the start of its handler in the satellite: what was
published between them is not promised to the TV.

### Flash, Tester, Stability and Bench

| Variable | Code |
|---|---|
| `client`, `awaited` | the line of `update()`, and how many calls of `_verify_resp()` come before the next one |
| `image`, `padded`, `idx` | the file, and the locals of `update()` |
| `toBoard`, `toClient` | the serial line |
| `board`, `loaded`, `reports` | the bootloader (external) |
| `tester`, `args` | the line of `main()` in `tester.py`, and its arguments |
| `input`, `pos` | what the generator reads, and how far |
| `raw_frames`, `encoded_frames`, `decoded_frames` | the same |
| `files` | the dumps |
| `alarms`, `erred`, `clean` | history: frames reported as different, frames that the decoder got wrong, and whether no exception has stopped the loop |
| `stability` | the line of `run()` in `stability_test.py`, or how it ended |
| `subset`, `todo`, `dec_frames` | the subset of a round, what of it is left, and the list of results |
| `enc_times`, `dec_times`, `total_decodes`, `timing_fails` | the same |
| `rounds`, `wrong` | history: the times of all rounds, and whether the decoder erred |

`VerifyResponse` is `_verify_resp()` with its two exits; the bootloader is not in
the repository, and is any that gives the responses which the client tells apart:
two to the command, one to each block, any number of reports and one completion,
or, in place of any of these, the second one to the command included, an error or an
unknown byte. The inputs of the tester (`Args`,
`Inputs`) are the combinations that its parser admits, with entries that are good,
that are skipped with a warning, and that raise. Frames of the tester are compared as
the code does, also with one stage stubbed out; the decoder under test returns
the frame, another one or what is no frame, or ends the run with an error. The
comparison and the `append()` behind it are one step: ctrl-C comes before both or after
both. Times of the stability test
are half seconds, so that a rate can be met, met exactly and missed; frames of a
round are numbered, and a decode returns its frame, another one, or comes too
late (`None`).

## 3. Runs

| Run | Specification, instance | Shows |
|---|---|---|
| `decoder_stable` | `StableSpec`, 3 slots, 5 channels, 2 windows per channel | `TypeOK`, `NoDuplicateChannels`, `ConfirmedKept`, `FreshDecoderEmpty`, `ConfirmedStored`, and that `Decoder` implements `Subscriptions` |
| `decoder_cut` | `CutSpec`, 2 slots, 3 channels | `NoMixedWindow`: a torn page holds old or erased halves, never a mix of two windows; `OthersUntouched`: an update disturbs no other subscription |
| `decoder_persistent` | `CutSpec` | violated: confirmed subscriptions are lost when power fails between erase and write |
| `hostlink_calls` | `LinkSpec`, blocks of 2, bodies of 0 to 5 bytes | `HostLink` implements `Exchange`, liveness included; `OneBlock`: a body is never more than one block ahead of its ACKs; `BodyAfterAck`: no body is sent before its header is acknowledged |
| `hostlink_recovers` | `FaultSpec`, blocks of 2, bodies of 0, 1 and 3 bytes, 2 faults | `TypeOK`; `WithinHeader`: neither side reads more of a body than its header told, whatever it has taken for a header; `Recovers`: retries are answered in the end |
| `hostlink_ack` | `FaultSpec`, 1 fault | violated: after a fault a body is sent without an ACK |
| `uplink_serves` | `Spec`, 1 channel with 2 frames, 2 satellites, queue of 2 | `TypeOK`; `OneReader` and `InOrder`: each frame leaves the queue once, in order; `AtMostOneWasted`: the drain takes at most one frame that a satellite could have had, until a handler ends; `KeepsServing`: a satellite that stays goes on receiving; `DrainTakesOver`: when all stay away, the queue is emptied |
| `uplink_drain` | `Spec` | violated: the drain throws a frame away while a satellite is connected |
| `satellite_serves` | `PromptSpec`, 2 channels, 2 TVs, 2 frames | `Satellite` implements `Broadcast`, liveness included; `FailureEnds`: a fatal error ends the process |
| `satellite_hangs` | `Spec` | violated: a port that is opened after the uplink has failed is never closed |
| `delivery` | `Spec`, bytes of 2 values, 2 ports, 3 frames, 4 requests, 2 slots; 2 frames while the TV listens | `Delivered`: what is shown, in hand, queued and on the way is what was encoded for the port, in order; `ChannelDecides`: a frame is decoded if the port was subscribed, and otherwise only if it is for everybody; `ListTells`: `tv.list` prints what was requested (both while power holds until a subscription is confirmed); `AtMostOneLate`: one frame at most is decoded after the event; `Ends`: the process ends once the event is set; `ShowsAll`: every frame is shown in the end |
| `bench` | `Spec`, images up to 6 bytes in blocks of 2; 2 entries, 3 frames; windows of 2 out of 3 rounds, 2 of 3 frames decoded | `InStep`, `Installed`: the client sends a block at a time and completes only what is installed; `DumpsAligned`, `AllTested`: the tester's dumps line up and miss no usable frame; `RightAlarms`: it reports the frames that the decoder got wrong and no others, and every frame if one stage is stubbed out; `RatesEnforced`, `RightComparison`: a successful stability test has met both rates in every window, blames the decoder only if it erred, and passes none that did; `UtilitiesEnd`: an update and a tester that does not loop come to an end |

`bench` runs with `CHECK_DEADLOCK FALSE`, as the programs end. Three of the
invariants of `decoder_stable` (`ConfirmedKept`, `FreshDecoderEmpty`,
`ConfirmedStored`) hold only while power lasts through rewrites and the
flash does not refuse: `decoder_persistent` shows what becomes of the first.
`EraseFails` and `WriteFails` belong to `FaultSpec`, of which `TypeCorrect` and
`OnlyTheRequested` are proved; no run uses it.

Why the bounds are enough. Three slots let a hole, a renewed slot and a third
channel coexist, and five channels overflow the table; the two windows differ in
both halves, and one has the all-ones end that an erased word also has. For torn
pages two slots give a complete and an incomplete one, and a word of each kind on
either side of the cut. Block length 2 with bodies 0 to 5 has the empty body, one
byte, one and two full blocks, and both with a rest; the real length (256) adds
nothing, as both sides only compare positions with it. `MaxLen` caps the length that a
misread header may announce: a longer one is read as this one, and only keeps the
decoder waiting for more retries. `MaxFaults` caps kills and power losses;
`GiveUp` and `Retry` are not capped.
`MaxQueue` stops the frame streams when the queue is that long: with 3 tasks that
take frames, a queue of 2 already lets them contend for more than one frame. Two
frames in a file tell a repeated or skipped frame from the next one. Channels share
nothing but the queue, so one is enough. `wasted` counts to 2, which is one too many. Two TVs on one or on two
channels, with two frames, let a handler lag behind by the whole chain while the
other one is up to date; `MaxMessages` caps the frames. A port is opened in three
steps, so two ports suffice for one that is registered and one that is not.
In `delivery` one TV is enough, as TVs share only the satellite, whose promise
holds for each of them; two frames stand in different places of the way at once, and
their order shows in each. The channels 2 and 13 differ from 0 and from each other in
each half of their four bits, the timestamps include 0, the largest, and equal and
falling ones, and one frame is empty. The four requests overflow two slots, renew a channel and name the
channel of emergencies, which is refused. `MaxFrames` counts only frames that a
listening TV is to get. In `bench` the images have no byte, part of a block,
whole blocks, a rest, and the full size; `MaxReports` caps the reports. Windows of two
rounds out of three move once; with three durations a sum is below, at and above
the limit. `MaxRaw` stops an endless input. The three utilities
have no state in common and are not used together, so one run covers them.

Fairness. `HostStep` and `DecoderStep` are weakly fair: each side is a loop that
blocks only when there is no byte to read. `Recovers` also assumes a user who
gives up a call that is stuck and tries again (weak fairness of `GiveUp` and
`Retry`). The retry waits until the decoder is reading and has read everything;
without that patience two ACKs that are one message late can follow every later
call, and none is ever answered. This is a property of the protocol, which has
neither message numbers nor timeouts. For the same reason nothing is claimed of
the response of a single call after a fault: a torn LIST body can be completed by
the boot messages, and the header of a retried SUBSCRIBE can complete the body of
the killed one, be acknowledged for it, and be executed.

In `Uplink`, every task is strongly fair: the loop keeps the tasks that are ready
in one queue and runs them in turn, so a task that becomes ready again and again
is run again and again, even if the lock was taken by others in between.
Strong fairness of a handler includes `Resume`: a satellite that is connected
reads. `frame_clock` never stops. `Connect` and `Disconnect` are not fair. In
`Satellite` weak fairness of each task is enough, as nothing that a task waits
for is taken away from it; the end of a write again assumes a TV that reads.

In `Delivery` the threads of the TV, the handler of the satellite and a decoder
that has power are weakly fair: each is scheduled, and what it waits for stays.
`CutCall`, `PowerLoss`, ctrl-C, `Close` and the tools are not. So `Ends` and
`ShowsAll` except a TV whose call was cut by a power loss: the serial port has no
timeout, and the process then stays. `Ends` shows that nothing but this read keeps the
process, and not that it ends. In `Bench`, programs that have begun go on, and
the board answers; nobody needs to start one. `UtilitiesEnd` therefore says nothing of
a board that falls silent: the client reads with no timeout either (flash.py:50), and
waits for ever.

## 4. Proofs

`DecoderProofs` proves, for any number of slots, channels and timestamps:

| Theorem | Statement |
|---|---|
| `TypeCorrect` | `FaultSpec => []TypeOK` |
| `NoDuplicates`, `ConfirmedSurvives`, `FreshIsEmpty`, `StoredWhenConfirmed` | `StableSpec => []` each of the four invariants |
| `WindowsNeverMix` | `CutSpec => []NoMixedWindow` |
| `OnlyTheRequested` | `FaultSpec => OthersUntouched` |

`DecoderRefinement` proves `Refinement`: `StableSpec => ImplementsSubscriptions`.

They rest on `DecoderAssumption` (the constants are distinct where the code's
values are). The four invariants of `StableSpec` are not inductive: that a
subscription survives a reboot depends on what the flash holds when power fails.
`StableInv` is `TypeInv`, `FlashInv` and `RamInv`. `FlashInv` says that at quiet
moments the page is the image of the table, that during a write it is this image
up to `wp` and erased from there on, and that with the power off it is either
without canary, and then nothing was ever accepted, or the image of a good
table. A table is good (`Good`) if its used slots come first, no two of them hold
the same channel, each confirmed update is among them, and it is empty when
nothing was accepted; the first two make the first usable slot the right one for
any channel. `RamInv` says the same of the table in RAM, once it is loaded.
`CutInv` cannot relate the page to the table once power may fail anywhere. It says
that both are sane, that is, that every word is erased or stems from an accepted
update whose other words stand beside it (`SaneTable`, `SanePage`), and that the
page is the image up to `wp` while it is written (`Programmed`). The refinement needs that a map built from slots has at
most as many channels as slots, and fewer when one is free (finite-set theorems
of the library).

`UplinkProofs` proves, for any number of channels, frames and satellites (of
`Spec`, from `UplinkAssumption`):

| Theorem | Statement |
|---|---|
| `TypeCorrect` | `Spec => []TypeOK` |
| `LockExclusive` | `Spec => []OneReader` |
| `WasteBounded` | `Spec => []AtMostOneWasted` |
| `OrderKept` | `Spec => InOrder` |

Nothing bounds the queue in these proofs but the guard on `MaxQueue`, whose
value is arbitrary. `Hands` says that a task that holds a frame is the running one:
between `get()` and `write()` the handler does not await. `Waste` says that if the
drain has thrown a frame away while a satellite is there, it is past its read
and comes to the wait for `uplink_down` before it can read again. `Order` lines
up, for each channel, the frame that a task holds, the frames in the queue and the
next one to encode, and says that each is the successor of the one before; so the
frame that is taken is always the one `expected`.

`SatelliteProofs` proves `Spec => []TypeOK` and `Spec => Promise!SafeSpec`
(`SafeBroadcast`), for any number of channels, TVs and messages, and even if the
uplink fails while ports are being opened. The mapping gives a TV whose handler
runs on an open connection the futures from `waiter` to the end of the chain as its
backlog. Publishing adds to the end of each such backlog; writing takes its head;
`downlink` begins with an empty one. The other steps change no backlog, or end the
listening of some TVs (`Leaving`). `TypeInv` adds that a handler that has not
started has written nothing.

`WireProofs` proves, for any number of values of a byte above one
(`WireAssumption`):

| Theorem | Statement |
|---|---|
| `FrameCarried` | the decoder reads the channel and the frame of `encode(c, f, t)` |
| `WindowCarried` | the decoder reads the channel and the window of `gen_subscription(r)` |
| `ListCarried` | the host accepts and unpacks `ListResponse(infos)`, however long it is |

Their core is that a number below `Word32` is the one that its four bytes make
(`U32P32`, by division with remainder, byte by byte), that a timestamp is two such
numbers (`U64P64`), and where the bytes of a concatenation stand (`Concat3`,
`Concat4`).

`DeliveryProofs` proves, for any channels, frames, requests, slots and values of a
byte (`DeliveryAssumption`: the numbers fit their fields, a frame has at most 64
bytes, as `FRAME_SIZE` in decoder.c, and the slots can be counted):

| Theorem | Statement |
|---|---|
| `TypeCorrect` | `Spec => []TypeOK` |
| `OneLate` | `Spec => []AtMostOneLate` |
| `AllDelivered` | `Spec => []Delivered` |
| `ListsTell` | `Spec => []ListTells` |
| `OnlyTheChannel` | `Spec => []ChannelDecides` |

`ControlInv` relates the threads to each other: a frame taken after the event
leads back to the test of the event, which is why there is no second one.
`SeqInv` says that only packets of the port, or emergencies, are anywhere on the way,
and that at most one is in hand. `FlowInv` is `Delivered` by positions: with
`P1` to `P5` the sums of the lengths of `shown`, `hand`, `to_decode`, `socket` and
the backlog, the k-th frame of each is the one of `since` at its sum and k. A step
moves a frame over one of these borders, or adds one at the end, so each step
touches two of the five parts; the concatenation is put together only once, from the
invariant. `MapInv` says that the decoder's map is the one that the accepted
requests make, with numbers that fit their fields, so that `ListCarried` applies to
its list. `ChannelNext` needs all of these: the channel of the packet in hand, the
map, and that tools and calls do not run together. `ListsTell` and `OnlyTheChannel` rest
on the guard of `PowerLoss`: they hold if power holds until a subscription is confirmed.

`HostLinkProofs` proves, for any requests, answers, printed text and block length
(of `LinkSpec`, in which nothing fails, and the last two of `FaultSpec`, with any
number of kills and power losses at any byte):

| Theorem | Statement |
|---|---|
| `LinkInvariant` | `LinkSpec => []LinkInv` |
| `SafeExchange` | `LinkSpec => Calls!SafeSpec`: `HostLink` implements the safety part of `Exchange` |
| `BlockByBlock` | `LinkSpec => []OneBlock` |
| `NoBodyUnasked` | `LinkSpec => BodyAfterAck` |
| `TypeCorrect` | `FaultSpec => []TypeOK` |
| `InBounds` | `FaultSpec => []WithinHeader` |

Besides `HostLinkAssumption` they assume `BodiesFit`, that the 16 bits of a header
hold the length of any body, and `PrintsNoMagic`, that neither the text of a
DEBUG message nor its length holds the magic byte, `%`. Of the last: `decoder.c`
prints into the 128 bytes of `output_buf`, none of its texts, the boot flag included,
sends a `%`, and none is 37 characters long. It is needed: the host acknowledges no DEBUG
message, so a tool that opens the port in the middle of one looks for a header in
what is left of it.

`LinkInv` is `TypeOK` and the four phases of a call. `Idle`: between calls the
decoder has at most DEBUG messages to finish (`Settled`), which may be on the wire
(`Chatter`). `Called`: the header is sent, and what the decoder has read of it with
what is to come is that header (`Pending`). `Receiving`: the bytes read, on the wire
and unsent make the body of the request; with the wire empty the decoder stands at
the boundary of a block and its ACK is on the way (`AckHeld` when the host already
reads it), otherwise it is inside of a block that the host waits for. `Answering`:
the same for the answer, with the sides swapped, and an ACK for each block. In each
phase `Hears` says what the host will make of the bytes that it has and gets: the
rest of a text without a header, the pieces of a header, or the body of a DEBUG
message, and then exactly the message that the phase names. This is the strengthening
that makes the invariant inductive: the answer is found wherever in a printed text
the tool began to read. A step then either moves bytes within one of these equations or
begins the next phase; `Called`, `Receiving` and the end of `Answering` map to
`Call`, `Serve` and `Return` of `Exchange`, all other steps to stuttering.

After a fault no phase is left to speak of. `Bounds` is what of `WithinHeader` is
inductive: the bytes of a message that were written, followed by `untold`, are its
body; blocks are moved from the one to the other.

`BenchProofs` proves, of `Spec`, for any images and sizes of blocks, inputs, windows,
times and numbers of rounds:

| Theorem | Statement |
|---|---|
| `OneBlockAhead`, `ImageInstalled` | `Spec => []InStep`, `Spec => []Installed` |
| `DumpsMatch`, `NothingLeftOut`, `AlarmsRight` | `Spec => []DumpsAligned`, `[]AllTested`, `[]RightAlarms` |
| `RatesAreKept`, `FairComparison` | `Spec => []RatesEnforced`, `Spec => []RightComparison` |

They rest on `BenchAssumption` (sizes and windows are positive, and no more frames are
decoded than encoded), `ImagesFit` and `EntriesDiffer`. `ImagesFit`: the linker script
gives an image 0x38000 bytes (firmware.ld:5), which is `TOTAL_SIZE`, 28 pages of
8192; a longer image would not be linked. `EntriesDiffer`: an entry that a generator
yields is neither skipped nor the one that raises.

`FlashInv` adds, for each state of the board, which responses are on the way and how
many the client still awaits: two before the first block, one after each, and none more
when the board has refused (at the command, between its two responses, at a block or
during the installation), so that the
block on the wire continues what is loaded; nothing completes before the board holds
the padded image. `TesterInv` says that the lists of frames differ in length by at most
the stages that the current frame has passed (`Stages`), that their entries at each
position come from the same yielded one, but for decoded frames at the positions in
`erred` (`Aligned`), that `alarms` are as `RightAlarms` says, and that these are the usable
entries before `pos` (`Counted`), for each lap of a loop. `RatesInv` says that the
rolling lists are the last rounds, all of them until a window is full (`Recent`), and
that each window so far was fast enough (`Fast`). `CompareInv` pairs the k-th result
with the k-th of the sorted subset, and says that the rest of it is still to be decoded.
Each part is kept by the steps of its own utility and by those of the others, which do
not touch its variables.

## 5. Only model-checked, and not modelled

Every safety property of a run that passes is proved, that of the refinements as
`SafeSpec`. What only TLC checks is liveness
(`Recovers`, `KeepsServing`, `DrainTakesOver`, `FailureEnds`, `Ends`, `ShowsAll`,
`UtilitiesEnd` and the fairness of `Exchange` and `Broadcast`): the prover does not
reason about fairness or `ENABLED`. Of single calls
after a fault nothing is claimed but `Recovers`: no message carries an identity (section
3).

Power that fails while a subscription is stored is in `decoder_cut` and
`decoder_persistent`, not in `Delivery`. `Recovers` takes any answer for one, an error
message as well. In `Delivery` only the frames behind a `garbled` call are given up; a call
that comes after it is taken to be answered again. `RatesEnforced` is silent where there is no full
window: a stability test of fewer rounds than a window checks no rate, and one of no rounds
divides by zero (stability_test.py:258); `Finish` takes both ways.

`ErasePage` is one step: a power loss during the erase itself, which could leave
words in any state, is not modelled.

Not modelled:

* an exception in a frame stream and reading the frame file, which end the uplink;
* a decode packet shorter than its 12 bytes, which no encoder makes, and the size
  of `uart_buf`;
* an image above `TOTAL_SIZE`, and the bootloader beyond what its client expects;
* a tester that is told to loop over a file without a usable entry: it spins until
  the user ends it;
* how long a stage takes, and the figures that the tester and the stability test
  print;
* the stress test: one call of the encoder or the decoder per frame, and a division;
* `gen_secrets`, whose constant no other part reads, and the fallback encoder in
  `utils/__init__.py`, used when the design is not installed;
* `write_hex` and the crypto example (compiled out), LEDs and the boot flag, the
  UART registers, build, linker and startup files, of which only the zeroing of RAM
  matters.

The wires are reliable and in order: the repository uses a USB serial port and TCP.

## 6. Plan

1. `Wire`: that `encode` and `gen_subscription` tell different inputs apart, from the
   lemmas on `P32` and `P64`.
2. The safety half of `FailureEnds` as an invariant of `Satellite`: the ports that are
   open after the uplink has failed are those that were not registered.
3. `Uplink` with an exception in a frame stream, which ends all tasks.
4. The stress test, if it gains state.
