# A verification project for arduino-cf

The repository is a set of libraries for small controllers: the author's own
(`cf_internet`, `cf_data_collector`, `cf_control`, `cf_adxl357`,
`cf_debug_utils`) and the Arduino libraries they are built on (`Ethernet`, `SD`,
`OneWire`, `DallasTemperature`, `Firmata`, `Servo`, `LiquidCrystal`, `TFT`, ...).
A typical sketch measures, collects the measurements, posts them to a server
over Ethernet, fetches set points from it, switches an output, and keeps a log on
a card.

There is one thread. What makes the code hard is everything that moves while it
runs: the WIZnet chip receives, transmits and closes between any two register
accesses; servers answer late, in part, or not at all; `millis()` wraps; the
timer interrupt of the servos comes between two statements; sensors are plugged
in and out; the power goes; a socket, a block or a handle is used after what it
stood for has gone.

## Inventory

| component | state | operations | interacts with | hard behaviour |
|---|---|---|---|---|
| counter reads (`socket.cpp`) | none | `getSnRX_RSR`, `getSnTX_FSR` | chip | torn 16-bit reads |
| TCP receive (`socket.cpp`, `EthernetClient.cpp`) | `RX_RSR`, `RX_RD`, `RX_inc` | `read`, `available`, `peek` | chip, peer | private counters against a moving chip, deferred window updates, end of stream |
| TCP send | write in progress | `write` | chip, peer | room, ring wrap, stale `SEND_OK`, connection lost in any step |
| socket table (`EthernetClient`, `EthernetServer`) | `server_port`, `_sockindex` of every variable | `connect`, `stop`, `read`, `connected`, `accept`, `available`, `begin` | chip, peers, sketch | few sockets, handles that outlive connections, polling against incoming peers |
| DHCP (`Dhcp.cpp`, `Ethernet.cpp`) | state, lease, T1, T2, two counters | `begin`, `maintain` | servers, clock, UDP | late and foreign answers, time-outs, clock wrap |
| UDP (`EthernetUdp.cpp`) | `_remaining`, `_offset` | `begin`, `parsePacket`, `read`, `beginPacket`, `write`, `endPacket` | chip, peers | datagrams back to back in one memory, partial reads |
| DNS (`Dns.cpp`) | request id, socket | `getHostByName` | UDP, server | late and doubled answers, retries, results of several widths |
| `cf_internet` | one global client, a stack buffer, the caller's settings | `askServerJson`, `askServerJsonGet`, `jsonSendData`, `jsonSendDataGET` | server, Ethernet, clock | silent and half answers, connections left over, stale buffer |
| `cf_data_collector` | ring of samples | `init`, `reset`, `addData`, `calc` | sketch | write pointer against changing sizes |
| `cf_control` | set point, width, state, output | `init`, `run`, `set`, `seth` | sketch | settings changed in any state |
| `cf_adxl357` | scan of the FIFO, averages | `readAllFromFifo`, `measureOffset` | sensor, clock | a FIFO that fills and overflows while it is read |
| SD (`SdVolume`, `SdFile`, `SD`, `File`) | block cache, FAT, open files | open, read, write, seek, truncate, flush, close, mkdir, rmdir, remove, exists | card, power | one dirty block for all files, full card, power cut between two writes |
| SD card driver (`Sd2Card`) | block in transfer, place in it | `readData`, `readBlock`, `readEnd`, `writeBlock`, `isBusy` | card | partial reads, refused commands, busy card |
| OneWire, alarm search | discrepancies of the last search | `search`, `target_search`, `alarmSearch` | bus | devices that leave in the middle of a search |
| DallasTemperature | one resolution for the bus | `begin`, `setResolution`, requests, reads, `saveScratchPad`, `recallScratchPad` | sensors | waiting for sensors that were set, replugged or restored since |
| Firmata: wire | parser buffer, callbacks | marshal, `parse` | host, stream | connection replaced in the middle of a message |
| Firmata: `StandardFirmata` | modes, masks, servos, queries | callbacks and `loop` | host, pins | messages in any order, resets |
| Firmata: `SerialFirmata` | pointers of ports, list of polled ports | `handleSysex`, `reset`, `update` | serial lines | lifetime of software ports |
| Servo | channel table | `attach`, `detach`, `write`, `read` | timer interrupt | interrupt against sketch |
| LiquidCrystal | modes | `begin`, display control, `write` | controller of the display | board reset between two half bytes |
| TFT shapes | pixels | lines, circles, triangles, rectangles | | integer algorithms at corners and edges |
| Stepper, Keyboard, Mouse, Seeed_ADXL357B, cf_debug_utils, Arduino_BuiltIn | counters, reports, none | | | see "Not modelled" |

What makes each of them correct: a stream of bytes arrives complete, once and in
order, and is what was written; every wait ends; no socket is lost and no handle
serves a connection it was not made for; the chip uses an address while a server
has granted it and the lease is renewed in time; datagrams are neither mixed nor
cut; a name resolves to its own address; a call of `cf_internet` reads its own
answer; a file holds what was written, in clusters of its own, and a saved file
survives; every device is found once; a measurement is read when it is done and whole; what the host
believes of a Firmata board is so; servos get the pulses that were set; the
display is in step with its library; an area fills its outline. `PROJECT.json`
lists the hazards by line, with the properties that watch them.

## Modules

### Ethernet

`StableRead` reads a counter of two bytes (`hi`, `lo`) while the chip lets it
grow: the loop of `getSnRX_RSR`. It is the reason why the other modules may read
a counter in one step. The chip never shrinks a counter during a call because
only the library's own commands do that.

`RingPtr` has the free-running pointers, `read_data` (`Load`) and `write_data`
(`Store`). `ByteStream` is what a TCP direction promises: a queue.

`SocketRecv` is one step per access to the chip: `Recv`, `ReadRsr`, then
`ReadStatus` or `CopyOut` and `Commit`; `Available` and `Peek`; and the chip
and peer between any two of them (`Receive`, `PeerFin`, `Abort`). `rxRD` is the
read pointer the chip has latched at the last `Sock_RECV`; `RX_RD`, `RX_RSR`
and `RX_inc` are the fields of `state[s]`. It implements `ByteStream`: the
queue is what lies between `RX_RD` and the chip's write pointer.

`SocketSend` is the same for `write`: `ReadFsr`/`ReadStatus` wait for room,
`CopyIn`, `SendCommand`, then `ReadIr`/`ReadClosed` wait for `SEND_OK`. The
queue of `ByteStream` is the data latched and not yet acknowledged.

`EthernetSockets` is the socket table: the status registers, `server_port`, the
index every client variable holds, and the loops of `accept` and `available`,
one step per socket they look at. `conn`, `own`, `incoming`, `given` and `via`
are history: they name connections, so that a handle and its socket can be
compared. Variables that come from `available()` are temporaries and go out of
scope (`Leave`); those from `accept()` and `connect()` are kept by the sketch
until `stop()`.

`DhcpLease` is `request_DHCP_lease` as a loop of rounds (`Send`, `NoAnswer`,
`Ignored`, `Answer`, `Ack`, `Again`, `GiveUp`) with `checkLease` (`Maintain`,
`CheckRebind`) and the clock (`Tick`) around it. An address is named by the
server that gives it.

`EthernetUdp` is the datagram half of the socket code: the chip's receive memory
with datagrams back to back, each behind a header that is one cell, and its
transmit memory that `write` fills from `_offset` on. A byte is known by its
datagram and its place. `DnsClient` is one lookup: question, three waits, the
checks of `ProcessResponse` in their order; the network may deliver late, twice,
not at all, or somebody else's datagram to the same port.

### cf libraries

`CfInternet` is a call after another on the one global client. Bytes carry the
number of the call whose request they answer. `HttpAnswer` is the stack buffer
in detail: what `readBytes`, the terminator and `removeHeaders` do to an array
nobody has cleared. `DataCollector` and `Hysteresis` are the two small classes,
with history variables for the samples and switches. `Adxl357` reads the FIFO
entry by entry (`readAllFromFifo`) while the sensor puts whole measurements in and
drops the oldest; `measureOffset` averages over such reads against a clock that
wraps.

### SD

`SdVolume`, `SdFile` and `SdLib` follow the three layers. The library is
single threaded and a call is a chain of block accesses, so every C++ function is
an operator from a state (`s`: the card, the cache, the file objects, and the
number of accesses left before the power is cut) to the next one. A call of a
sketch is one step; with `left` chosen in advance the card of a cut call is what
it was after exactly that many accesses, and the board starts again with an empty
cache (`Restarted`). `Effect`, `Expected`, `Kept` and `Saves` of `SdLib` are the
abstract tree of files the answers are compared with: the content of each path,
and the part of it that a `close`, `flush` or `O_SYNC` write has saved.
`Sd2Card` is the driver below: bytes and commands over SPI, with `inBlock_`,
`offset_` and `partialBlockRead_` against a card that may refuse, be silent, be
busy, or report an error after a write. `deselected` is history: some calls fail, or
return, with the card deselected and the driver still in the middle of a block
(`Refuse`, `IsBusy`), and what is read on after them is not the block.

### Sensors and actuators

`OneWire` takes one step per bit of a search (`SearchBit`, and the alarm search
of `DallasTemperature.cpp`), so a device can leave in the middle of it.
`DallasTemperature` has a step per call of the library, and sensors that are
plugged, unplugged and lose power between calls; what is remembered in the
library, the scratchpad and the EEPROM are three variables. `Servo` has a step
per access to what the sketch and the interrupt share. `LiquidCrystal` has the
transfers a call makes and, at the other end, the controller, which reads them
with the interface and the half byte it happens to be in. `TftShapes` are pure
algorithms: the set of pixels a shape sets, compared with geometry. `Rows` and
`Steps` are the loops of `drawLine` and of the circles with their error terms, round
after round; the crossings of a row of `fillTriangle` are the quotients of its running
sums.

### Firmata

`FirmataWire` is marshaller and parser with a stream between them. A message is
the callback it is meant to cause; `AtEnd` is where the parser is, and what it has
called, once it has read a stream to its end. `StandardFirmata` is the sketch: one action
per message, one for each part of `loop()`; the host's picture (`told`, `asked`)
is kept beside the board's state. `SerialFirmata` is the feature module for
serial ports. `adrift` and `serialAdrift` are history: a stop of a read that was
never accepted takes out another one, and the lists then differ from what the host
has asked for until everything is stopped.

### Instances

The `MC...` modules give values to the constants and bring the proofs'
assumptions into the runs. `MCInternet`, `MCFirmata` and `MCDevices` put
components side by side that share no state: the variable `part` says which one a
behaviour is about, and the others stay as they began. The definitions preceded
by a comment "Mutant:" are variants of the one that follows, each a plausible
slip in that code; no specification uses them.

## Runs

| run | shows | bounds, and why they suffice |
|---|---|---|
| `SocketRecv` | counters, window, refinement of `ByteStream`, a full buffer drains | memory 4, pointers modulo 8, commit at 3, two byte values: the ring wraps, the pointer wraps, and the commit limit lies inside the memory |
| `SocketSend` | no overwrite, own `SEND_OK`, refinement, a write returns | memory 3, writes up to 3, pointers modulo 6 |
| `Sockets` | one listener, the table, leaks, accept once, half-closed sockets reclaimed | two sockets, two variables, three connections; sketches that accept and connect, poll `available` and connect, or only poll. More callers than sockets, and connections enough to take a socket over |
| `Dhcp` | acknowledged addresses only, no drift, renewal by T1 | two servers, any message at any time; two ticks a second, a clock that wraps every six ticks, up to four between two calls |
| `Internet` | `StableRead`, `HttpAnswer`, `CfInternet`, `EthernetUdp`, `DnsClient` | bytes of three values (a carry needs two); every response up to the length of a buffer of 5; three calls numbered round and round; three datagrams of up to 3 bytes in a memory of 6; two lookups of three kinds of names from two ports |
| `SdCard` | what calls answer, disjoint chains, saved files survive, equal FATs | FAT16, blocks of 2 units, 4 clusters, two files, a directory; an empty card and one with a fragmented file and a full directory; four calls, a power cut after any of up to 12 accesses. Two units make partial and whole writes differ, four clusters run out within one write |
| `Firmata` | messages arrive whole; the host's picture of inputs, modes, servos, queries | 3 pins in 2 ports, 2 servos, 2 queries, 4 messages with one lost connection; two software ports and one hardware port. One servo and one query fewer than askers |
| `Devices` | the nine small components, see below | each its own |
| `SocketRecvEof`, `DhcpRetry`, `SdClose`, `AlarmsEnd` | a counterexample each | as above, smaller |

`Devices` holds `DataCollector` (arrays of 4, rings of 1 and 3), `Hysteresis`
(all values from 0 to 6, widths 0 to 2), `OneWire` (four codes of five bits that
fork at the first, a middle and the last bit, of two families, two devices
lost), `DallasTemperature` (three sensors: one DS18S20, one parasite powered),
`Adxl357` (a FIFO of two measurements, four taken, numbers and a clock of 3 bits), `Servo`
(two channels for three pins, two sets of limits), `Sd2Card` (three blocks of 3
bytes, one of them the protected block 0), `LiquidCrystal` (one and two lines, four and eight wires, two resets of
the board) and `TftShapes` (a screen of 6 by 5, corners on and beyond its edges,
radii from 0 to 3; no product beyond 25, so lines of slopes 0 to 6 and triangles of
any order of corners, and areas that are a column, a row, or nothing).

`StreamSpec` in `SocketRecv` and `SocketSend` is the refinement of `ByteStream`;
TLC checks it on the instances and `StreamHolds` proves it for all of them.
`KeepsTheArray` speaks of responses that leave room for the terminator,
`DataCollector` takes sizes below the length of the array. `StatisticsOfWindow`
allows one sample to be missing, because the ring has one slot more than `calc()`
looks at. `ServosAsSet` speaks of limits more than 180 us apart: nearer ones have
fewer positions than degrees. `SavedSurvives` holds through one power cut; a cut
while clusters are released leaves an entry of freed clusters (below), after
which nothing is claimed of the chains. `WaitsLongEnough` speaks of buses whose
sensors are those `begin()` has seen or some of them. `BlocksHold` speaks of
blocks in the middle of which no call has deselected the card. `QueriesAsAsked` and
`PolledAsAsked` hold until a stop names a read or a port that is not in the list, or a
reset comes while the bus is off, and again once all are stopped. `DeliversWhole`
holds of a message after any cut one but a sysex message, whose end the parser waits for,
and of a version report only where it waits for no data: `REPORT_VERSION` is the one
command that does not end a wait. A property among the disagreements below shows what
happens outside of each of these three scopes.

## Known disagreements

Where a comment or the documentation and the code disagree, the module states
what is promised and TLC finds a counterexample. Four of them are runs, with
the sentence quoted under `findings` in `PROJECT.json`:

* `EofMeansDrained` (`SocketRecvEof`): in a read of at least one byte, data and FIN
  that arrive between the two register reads of `socketRecv` are reported as end of
  stream. (A read of no bytes goes to the status alone; its 0 says nothing.)
* `RetriesAfterFailure` (`DhcpRetry`): a request that times out in
  mid-exchange leaves a state no later `maintain()` acts on.
* `CloseSaves` (`SdClose`): a write of a whole block that sits dirty in the cache
  takes it out and leaves it dirty; the next flush writes to block 0xFFFFFFFF,
  and `close()` fails without saving the entry (`SdFile.cpp` line 1393).
* `AlarmsEnd` (`AlarmsEnd`): a device that leaves behind a stored junction makes
  `alarmSearch` return another one for ever (`DallasTemperature.cpp` line 907).

The others are stated in the modules and can be put into a configuration:

| property | module | what the code does |
|---|---|---|
| `ReadsOwnData` | `EthernetSockets` | a client variable whose connection ended (also one that was refused, `EthernetClient.cpp` line 63) reads from the connection that gets its socket next |
| `ConnectedWhileUnread` | `EthernetSockets` | on a reset connection `connected()` is false whatever is unread; `docs/api.md` line 1398 says otherwise |
| `T1WithinLease` | `DhcpLease` | T1 and T2 of a former lease outlive it (`Dhcp.cpp` lines 83-90) |
| `LongWritesRefused` | `EthernetUdp` | every piece is compared with the room before the datagram began: pieces that do not fit together are taken and lie over its beginning (`socket.cpp` line 490) |
| `ConnectsToHost` | `DnsClient` | results of `getHostByName` other than 0 count as success (`EthernetClient.cpp` line 39): a failed lookup connects to whatever the address holds |
| `WaitsThreeTimes` | `DnsClient` | `ProcessResponse` returns -1 as a `uint16_t`, which is not `TIMED_OUT` where an `int` has 32 bits: one wait only (`Dns.cpp` line 120; `IntBits` = 32) |
| `AnswerOnly` | `HttpAnswer` | `removeHeaders` finds the brackets of an earlier response behind the terminator of this one |
| `NoOverrun` | `HttpAnswer` | a response of `HTTP_MAX_CONTENT_SIZE` bytes has its terminator written behind the array (`cf_internet.cpp` line 545) |
| `RequestOnlyWhenConnected` | `CfInternet` | `connect` fails with 0, which the switch of `jsonSendData` does not know (line 339) |
| `GetClosesConnection` | `CfInternet` | `jsonSendDataGET` returns before it stops the client |
| `MaximumSizeFits` | `DataCollector` | a ring of `RINGBUFFER_SIZE` writes one element behind its arrays (line 41) |
| `OffsetEnds` | `Adxl357` | a signed copy of `micros()` may stop the sampling when it wraps (lines 162-165) |
| `EveryModelIsDone` | `DallasTemperature` | a DS18S20 needs 750 ms whatever resolution the bus is set to (line 456) |
| `DetachEndsPulse` | `Servo` | a servo detached in its pulse leaves its pin HIGH (`Servo.h` line 45) |
| `LimitsKept` | `Servo` | limits are kept in quarters in an `int8_t`: those beyond 512 us from the defaults wrap (`Servo.h` line 37) |
| `ReadsThoughDeselected` | `Sd2Card` | three calls deselect the card and leave `inBlock_` set: `isBusy()`, which eats a byte as well (line 771), `readData` over the end of a block (lines 407-409, 469-471), and a write of block 0 (lines 616-622; `writeStart` 717-723). A block that is read on after them is wrong, and success is returned |
| `DirectionKept` | `LiquidCrystal` | `clear()` makes the controller count up again, and `_displaymode` keeps what was chosen (line 241) |
| `LineHasItsEnds` | `TftShapes` | horizontal and vertical lines through `line()` lack their last pixel, or, drawn backwards, lie beside their ends (lines 590-610) |
| `RemoveGivesBack` | `SdLib` | a write that failed half-way leaves clusters with a file of size 0, for which `truncate(0)` does nothing (`SdFile.cpp` line 898) |
| `ExistsIfThere` | `SdLib` | a FAT32 root directory that has grown is searched up to its old size: `exists()` is false, and an `open` makes a second entry (`SD.cpp` line 539; `FatType` = 32) |
| `ServosReused` | `StandardFirmata` | once `servoCount` has reached `MAX_SERVOS` no index that was given back is used again (line 126) |
| `ResetClearsOutputs` | `StandardFirmata` | only a pin that was PWM is written LOW; one that was an output HIGH stays HIGH (line 731) |
| `OnlyAskedReads` | `StandardFirmata` | a stop of an address that is not in the list takes out its first entry, or the only one (lines 557-579); reads asked for while the bus is off outlive a reset (lines 531-552, 714) |
| `OnlyAskedPorts` | `SerialFirmata` | a stop of a port that is not in the list does the same (lines 150-168), say one whose `SERIAL_READ` found the list full, which the host is not told (line 137) |
| `VersionIsWhole` | `FirmataWire` | `REPORT_VERSION` does not end a wait for data (`FirmataParser.cpp` lines 165-168): a version report behind the command byte of a cut `SET_PIN_MODE` is a version query, and then `pinMode(2, 5)` of the two numbers of the report |
| `NoUseAfterFree` | `SerialFirmata` | closing a software port deletes the object and leaves its pointer (lines 179-182) |

Further dangers seen while modelling, without a property of their own:

* Ethernet: `write` of more than `SSIZE` bytes reports the whole length and sends
  a part (`EthernetClient.cpp` line 86); a write on a socket in LISTEN or FIN_WAIT
  waits until that state ends; UDP `stop()` and a failed `begin()` leave `_remaining`.
* DallasTemperature: `recallScratchPad` and replugging change resolutions behind the
  library's back; functions that take an index ignore a failed `getAddress`.
* SD: a failed write leaks clusters and advances the position; `getParentDir`
  leaves `*index` unset; a power cut in `truncate` or `remove` leaves an entry of
  freed clusters; the 300 ms of `waitNotBusy` are ignored by `cardCommand`.
* Firmata: sampling intervals of 256 and more and values of 0x4000 and more are
  cut; `query[i + 1]` and `reportSerial[i + 1]` read one element past the array.
* LiquidCrystal never takes `LCD_2LINE` back; TFT shapes over the left or upper
  edge wrap, negative lengths loop 65535 times, and the products of a triangle wide
  and high do not fit 16 bits.
* TFT: the first and the last column of a filled rounded rectangle with radius 1 and
  height 2 stay empty, since `fillCircleHelper` draws them with length 0; found by the
  proof of `DrawsTheShape`, which speaks of higher ones.
* `cf_adxl357` lines 233-237 use entries that were not read when the FIFO holds no
  multiple of three values; the sensor of the data sheet never does that.

## Fairness

The processor executes the next step of a call (weak fairness of the steps of a
call). A sketch that polls does so again and again (strong fairness of `Recv`,
of the calls of a server and of `Maintain`, since a call is possible between
other calls only). The chip completes a command; TCP gets acknowledgements or
gives the connection up. The clock runs. In `Internet` the reads of a counter,
the sketch, the clock (`TimePasses`) and a lookup under way (`Resolving`) are
weakly fair, each for the behaviours about its part. In `AlarmsEnd` a search under
way goes on, and so does the loop around it (`Working`). No fairness is assumed of
a peer, of a server, of a DHCP message or of an answer to a lookup: where an
answer is waited for, the property holds because of the time-out. The other runs
check safety only.

## Proofs

A component's proofs extend its module; small components that a run also puts side
by side share one. Every theorem is about the specification of its own component
(`Spec`, `ReadSpec`, `RequestSpec`, `UdpInit /\ [][UdpNext]_udpVars`, ...), of which
`MCInternet`, `MCFirmata` and `MCDevices` take every step, and holds for every value of the
constants that the named assumptions admit.

| theorem | argument |
|---|---|
| `InternetProofs` | |
| `NoTornReadHolds` | `ReadInv` bounds the half-read value: the high byte read was the counter's at some moment since the call began, so a torn value is never smaller than a complete one before it (`Torn`); two equal reads then lie between start and now |
| `OwnBytesOnlyHolds` | `RequestInv`: bytes read, waiting and still to come answer the call that runs or ran last, which is true after a GET that leaves its connection only because the next `connect` drops it (`Released`) |
| `ResolvesAskedHolds` | `DnsInv`: while a lookup waits, the question with its id is the last one asked and was for its name, so an answer to an earlier question fails the check of the id |
| `KeepsTheArrayHolds` | `AnswerInv`: the response stands at the front of the buffer with its terminator (`Stored`) until it is cut; the first bracket from the left and the last from the right that the loops find are then those of the response (`FindFirst`, `FindHit`, `StringUpTo`) |
| `DatagramsWholeHolds` | `ReceiveInv`: every header in the memory has its whole datagram behind it (`Framed`), and in front of the first one lies the rest of the datagram in hand (`Rest`). Framing survives cutting off a front (`FramedDrop`) and appending a whole datagram (`FramedConcat`). `TransmitInv`: what was written stands in the memory from its start, up to the offset |
| `ChipUsesAckedHolds`, `NoDriftHolds`, `RenewsByT1Holds` | `LeaseInv`: a lease is held between calls only (`LeasedIdle`), so no message touches its counters; a `maintain()` counts whole seconds of the gap and leaves the remainder in it (`MaintainCounts`), whatever the tick rate and the width of the clock, as long as calls come within a clock's turn |
| `SocketRecvProofs` | |
| `AccountingHolds`, `WindowNeverStranded` | `IInv`: numeric types, `Accounting`, that the number `CopyOut` takes is the one last stored (`Accounting` says nothing of the local `ret` between `ReadRsr` and `CopyOut`), and that a count of zero means nothing is withheld |
| `TypeCorrect` | on top of it the data: `Load` yields bytes |
| `StreamHolds` | the refinement of `ByteStream`: `CopyOut` is `Pop`, `Receive` is `Push` of one byte, `Peek` is `Look`, `Open` is `Reset`, the rest leave the queue alone. It rests on `LoadParts` (what is read is what is read first and what is read after it) and `LoadAppend` |
| `SocketSendProofs` | |
| `NoOverwriteHolds`, `SendOkIsFreshHolds` | `IInv`: the free room read before can only have grown, and a command is outstanding exactly while its write waits |
| `StreamHolds` | the refinement of `ByteStream`: `CopyIn` leaves the bytes in flight as they are because it stores behind them (`LoadKept`, from `NoOverwrite`); `DataInv` says that what it stored is in the memory until the command, which is `Push` of all of it (`LoadJoins`); `Deliver` is `Pop`; `Abort` and `Open` are `Reset` |
| `EthernetSocketsProofs` | |
| `ServerTableSoundHolds` | `TableInv`: a scan that has seen no listening socket leaves none behind it (`OneListener`), a socket on its way to a connection of the sketch is in no server's table (`SynsentPrivate`), and the variable a call works for is free or in possession as the call needs it (`CallHandle`) |
| `AcceptOnceHolds` | `NumberInv` on top of it: connections are numbered as they are made, no two sockets had the same one, and what was given out has left the table |
| `NoLeakHolds` | `Kept` on top of both: whatever is open has a server, a lasting handle, or the `accept()` that is about to return it. `NoLeak` alone is not inductive: a handle of `available()` counts for it, and goes out of scope |
| `DeviceProofs` | |
| `WritesInsideHolds` | `PointerStep`: the pointer stays in the array because the sizes are below its length |
| `StatisticsOfWindowHolds` | `WindowInv`: the j-th sample of the window is in the slot that counting back from the pointer gives (`Placed`), and the slots that `calc()` looks at are those of the samples, but for the one that may be in the slot it leaves out (`SamplesPlaced`). A sample that is added takes the slot of the oldest and moves no other (`SlotMoves`), also when the pointer stood beyond a ring that `init()` has made smaller. The statistics are the same in slots as in the window since the two are related one to one (`StatisticsMapped`). No bound on sizes is needed: nothing is claimed after a write beyond the array |
| `OutputDemandedHolds`, `CrossesBandHolds` | `ControlInv`: the last switch was made beyond the threshold of the present state |
| `BlocksHoldAlways` | `CardInv`: a card in the middle of a block is where the driver believes it is and programs nothing, unless a call has deselected it in the middle of that block (`deselected`); a programming under way never overtakes what was answered last |
| `ServosAsSetAlways` | `ServoInv`: a pin that is HIGH is that of the channel whose turn it is, which is active (`Pulses`); a written angle is kept as the pulse width `map()` makes of it (`Angles`). That `map()` there and back gives the angle again needs more than 180 us of spread (`MapThere`, `MapBack`) |
| `ControllerAgreesAlways` | `LcdInv`: once `begin()` was called the controller is in the middle of it (`Beginning`), in the middle of the two halves of a byte after which it agrees (`Calling`), or agrees. `Syncing` is the reason for three knocks: it lists, for each knock still to come, the interfaces an unknown controller can be in by then |
| `WaitsLongEnoughHolds` | `SensorInv`: unless the bus was changed since `begin()`, no sensor on it is set to more than `lib.bits`, the library knows of every one without a supply, and has counted at least those that are there (`Counted`). The last is what makes the loop of `setResolution` reach all of them: every sensor has an index below the count (`Addressed`) |
| `SearchIsSoundHolds` | `SearchInv`. The codes are the leaves of a tree, and a call goes down to one. What a search leaves behind says where the last fork is at which it took the 0 (`LastFork`); `ToGo` are the devices behind it, and what was found are the others (`Found`). A bit on the way leaves `ToGo` as it is, because only the fork the call came back to turns to the other branch (`Turned`); the end of a call takes one device off it (`Arrived`). A search for a family keeps all its devices in play through the bits of the family (`Targeted`). A device that leaves in the middle spoils this until the call is over, and the next call starts from a code that some devices may follow again (`Answered`): the count may go round the bus once more for each device lost, which is the bound `SearchEnds` states |
| `MeasurementsKeptHolds` | `AdxlInv`: there is a growing sequence of numbers that lists what the FIFO has not dropped, of which the first were handed over, the next `q` have their entries read or left in the sensor, and the rest are the FIFO (`Numbered`). A measurement goes to its end, and one out of its middle if the FIFO was full (`Renumbered`); an entry that is read moves the borders at most (`MovedOn`); at the end of an array no part of a measurement is left in the sensor (`ReadsWhole`), and taking off the sign and putting it back gives the number that was measured (`SignBack`). `measureOffset()` has added what was handed over since it began (`OffsetInv`; `TotalGrows`, `TotalKept`) |
| `DrawsTheShapeHolds` | No induction over behaviours but over the rounds of the loops. Lines: `RowTrue`, that Bresenham's error is what the row is off by, which keeps every pixel within half a step (`RowBetween`) and ends the line at its end; lines that are steep or go left are lines turned (`TurnedLine`). Triangles: a division that truncates has, of the integers on either side of the quotient, none further in than its result (`TruncIs`), so a point on a side of an edge is on that side of its crossing, and one on a side of the crossing less than a pixel beyond the edge (`CrossingIs`) and a row reaches from one crossing to the other (`RowIs`); each point between two edges is between the crossings and each point between the crossings less than a step beside two edges, whichever corners share a row (`TriangleHolds`). Circles: `StepTrue`, that `f` is the circle's equation half a step further, and that the points so far are `OnRing`, within half a pixel of the radius. Areas: an outline that is mirrored in a row has as its hull the columns between its points and their mirrors (`MirroredHull`), and those are the columns the code fills (`CircleFilled`, `RoundFilled`) |
| `FirmataProofs` | |
| `DeliversWholeHolds` | `WireInv` gives the types of the stream and of the parser's state (`States`); the rest is about one message after any state. `AtEnd` of a longer stream is one more byte read at the end of the shorter (`AtEndAppend`), so what is on the way does not matter, only the state the parser will be in: a command byte outside of a sysex message starts afresh whatever data were missing (`TwoData`, `OneData`, `NoData`), and at the end of a sysex message the buffer holds all of it (`SysexWhole`, `SysexCarries`). Values in two halves of seven bits are put together again (`DecodedBack`). A version report is the exception: its command byte leaves the wait as it is (`VersionRead`), and its two numbers go by unread only if there is none (`StrayRead`, `VersionWhole`) |
| `HostKnowsInputsHolds`, `ConfigAgreesHolds`, `ServosExclusiveHolds` | `BoardInv`, that is `Sound` of the sketch's variables: of each pin the mode, the mask of inputs, the direction and the servo agree (`Config`), an index of a servo belongs to one pin or waits once among the free ones (`Exclusive`), the host was told what the sketch remembers of a port. A callback is about one pin: it makes that pin agree and leaves of the others what `Keeps` lists (`ModeSet`). `ConfigAgrees` alone is not inductive: a pin that loses its servo must be the only one that had it. The loops over pins in `enableI2CPins` and `systemResetCallback` have a state after each round (`EnablingRuns`, `ResettingRuns`, from `LoopExists`), and by induction on the rounds the pins behind the counter are what they should be and those ahead as they were |
| `QueriesAsAskedHolds`, `PolledAsAskedHolds`, `ReadsAsAskedHolds` | beside the same invariant: unless `adrift`, the list is what was asked for. All queries are dropped exactly when a bus that is on loses a pin (`StopsReads`); a stop that names none of them sets `adrift`; the entry the loops of a stop take out is the first with the address or port (`FirstPlace`, `StoppedPlace`), and cutting a list of one is removing its entry |

`RingPtrLemmas` holds what the socket proofs share: arithmetic of free-running
pointers, that a ring's places are distinct within its length (`PlacesDiffer`), and
what `Load` and `Store` do to a memory (`LoadIs`, `LoadParts`, `LoadAppend`,
`StoreIs`, `LoadStored`, `LoadKept`, `LoadJoins`). `NatLemmas` has the least element
of a set of naturals and induction on sets of naturals, both from the library's
theorem that finite sets are well-founded under inclusion. From them follows
`LoopExists`: a loop over a counter, each round of which is a function on a set of
states, has a state after every round. A loop that the model writes as a recursive
function `done[n]` is unfolded with it, and so is the sum of the library: with the
operator that it folds given, `MapThenSumSet` is the value of a function of all subsets
(`SummingExists`, `SumIs`), from which any element may be taken first (`SumTakes`), so
that two sets related by a bijection have the same sum (`SumMapped`), and a sum may be
taken in two parts (`SumSplit`).

### Assumptions

The assumptions on constants are named in the modules, and TLC evaluates them:

* `RingAssumption`, `WholeRings`: a memory is smaller than the range of its pointers,
  and that range is a multiple of it (2^16 and a power of two in the chips). The
  counters need the first only; that two pointers within a ring's length have two
  places, and with it both refinements, needs the second.
* `SocketAssumption`: sockets are numbered from 1, as the loops of the library count
  them. `DhcpAssumption`: a second has ticks, and the clock is wider than the gap
  between two calls of `maintain()`; without that no library could count it.
* `CallsAssumption`: calls are numbered; `CharAssumption`: the characters beside the
  brackets are no brackets and not NUL; `UdpAssumption`: lengths and memories are
  naturals.
* `SizesAssumption`, `WidthAssumption`, `CardAssumption`, `ServoAssumption`,
  `LinesAssumption`: sizes and settings are numbers, and there is at least one; so are the
  numbers of blocks, of which 0 is the protected one.
* `CodeAssumption`: there are finitely many devices, the families differ from 0, and the
  last bit of a code is a function of the others, as its checksum is.
* `SensorAssumption`: sensors are numbered from 1 and finitely many, as a bus has them;
  resolutions asked for are naturals, as the parameter is a `uint8_t`.
* `AdxlAssumption`: a measurement fits the width of an entry with its sign (20 bits: half
  of the range is 2^19), and FIFO and number of samples are not 0.
* `WireAssumption`: the parser's buffer holds the four bytes of an extended analog message
  (`MAX_DATA_BYTES` is 64). `MessagesAssumption`: what is sent are the messages of
  `FirmataMarshaller`, the version report and the pin-state query among them, with values of
  14 bits and no more data than the buffer holds (`WellFormed`); its capability, mapping and
  sampling messages are `sysex` messages of the model.
* `TftAssumption`: coordinates and radii are naturals so small that no sum of two and no
  error term leaves its 16 bits (`SHORT` is 2^15). Triangles with larger products are left
  out where they are drawn (`Fits`), since the code computes them modulo 2^16.
* `PinAssumption`: the kinds of pins are sets of pins, the numbers of pins, servos and
  pins in a port are not 0, and the value for "no servo" (255) is no index and no pin.
  `RequestsAssumption`: a host asks for modes a pin has, which the answer to its
  capability query lists; the sketch does not check all of them.

### Only model-checked

* Liveness (`FullBufferDrains`, `WriteReturns`, `HalfClosedReclaimed`,
  `CallsReturn`): the prover does not handle fairness.
* `AnswersRight`, `ChainsSound`, `SavedSurvives`, `FatCopiesAgree`: `SdVolume`,
  `SdFile` and `SdLib` are built from recursive operators (chains of clusters, the
  loops of a method), which the prover's arithmetic back end does not take.

`TypeCorrect`, `WritesInsideHolds` and `OutputDemandedHolds` are proved and no run
repeats them. The inductive invariants were checked by TLC on the instances of the
runs before they were proved.

## Not modelled

* The SPI protocol of the Ethernet driver and its chip detection: framing of
  single register accesses, without state of its own.
* The WiFi and GSM branches of `cf_internet` and their start-up loops; the layout
  of DHCP, DNS and HTTP messages; JSON; floating point rounding. The id of a lookup
  is the number of the question: the code takes `(uint16_t) millis()` (`Dns.cpp` line
  157), so that two lookups some turns of 65.5 seconds apart may share one.
* `server.write`, `flush`, and UDP sockets in the same table (`EthernetSockets`);
  multicast.
* SD: names, dates and attributes, listing to a serial port, `contiguousRange`,
  `SD.begin()` a second time, the initialisation of a card, multi-block writes
  and erasing. FAT32 is in the modules; the run has FAT16.
* `LiquidCrystal` with characters of ten lines (`LCD_5x10DOTS`), one more bit of the
  function set.
* Sequences of register accesses without anything beside them: `Seeed_ADXL357B`,
  the single registers of `cf_adxl357`, the initialisation of TFT displays, their
  text and images.
* `Stepper` (a counter modulo the steps of a turn), `Keyboard` and `Mouse` (a report
  of six keys): one call changes one record and nothing runs beside it. Tables of
  keyboard layouts, boards and fonts are data.
* The variants of `StandardFirmata` for other connections share the code of the
  sketch that is modelled and differ in their set-up.
* `cf_debug_utils` has no state, `Arduino_BuiltIn` no code.

## What is left to prove

The four properties of the SD library, all other safety properties that the runs check
being proved. It would take recursive functions for the loops of `SdVolume` and `SdFile`,
with the number of rounds as a parameter, since a chain of clusters ends only as long as
the FAT is sound; and then `Sound` of the state between any two accesses to the card, with
the clusters that are allocated and not yet linked, or unlinked and not yet free.
`FatCopiesAgree` needs it as much as the others: a write through a handle whose cluster is
not one of the data area would go to the FAT.
