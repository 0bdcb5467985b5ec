# A verification of the TV-box bring-up tools

The repository ports mainline Linux to a Hi3798MV300 TV box. Most of it is
documentation, device trees and logs; its own program logic is in `scripts/`
(a browser panel with a privileged GPIO helper, a TFTP server, serial console
tools, an installer and an initramfs) and in two kernel patches (the CPU PLL
clock and the temperature sensor). This directory models that logic in TLA+,
checks it with TLC and proves most of its safety properties with TLAPS.

All line numbers below are those of the files under `src/`.

1. [The system](#1-the-system)
2. [Modules](#2-modules)
3. [Runs: what each checks, with which bounds](#3-runs)
4. [Fairness](#4-fairness)
5. [Proofs](#5-proofs)
6. [Where the code and its comments disagree](#6-where-the-code-and-its-comments-disagree)
7. [What is not modelled, and why](#7-what-is-not-modelled-and-why)
8. [Plan](#8-plan)
9. [Running the checks](#9-running-the-checks)

## 1. The system

### Components

| component | source | state it keeps | operations | talks to |
|---|---|---|---|---|
| event bus and streams | `scripts/tvbox-panel.py` 82-114, 958-987 | the set of subscriber queues, under a lock; a bounded `queue.Queue` per browser; `.error` of each reader | `subscribe`, `unsubscribe`, `publish`, one `_stream` per connected browser | reader threads publish, handler threads take |
| IR readers and NEC decoder | `tvbox-panel.py` 117-320 | the edges of the burst being collected; the pending scancode; a sequence number | `run`, `_flush`, `_emit`, `decode_nec` | `/dev/lirc0`, `/dev/input/event*`; publish on the bus |
| LED control | `tvbox-panel.py` 43-53, 332-366, 895-923 | none of its own: two sysfs files per LED | `set_led`, `all_leds` | the kernel's LED class |
| GPIO explorer | `tvbox-panel.py` 371-457, 926-956 | `GpioBaseline.masks`; the locals of the requests under way | `_handle_gpio`, `gpio_pulse`, `GpioBaseline.restore` | runs the helper through `sudo` for every register access |
| privileged helper | `scripts/tvbox-gpio-helper.py` | the PL061 registers, by `/dev/mem` | `dump`, `dir`, `set`, `restore` | the GPIO banks, which the kernel's LED driver shares |
| page | `tvbox-panel.py` 460-860 | the browser's view | polls and posts | the HTTP handlers |
| TFTP server | `scripts/tftpd.py` | the transfer under way: block, attempt, transfer socket | `main`, `handle` | the boot loader's `tftp`, over UDP |
| CPU PLL | `patches/kernel/0010-*`, rates of `0011-*` | the tune registers of the PLL; the rate the clock core believes in | `recalc_rate`, `determine_rate`, `set_rate` | the clock framework; cpufreq asks for the rates of `0011` |
| temperature sensor | `patches/kernel/0008-*`, zone of `0009-*` | the sensor's enable register, under a mutex | `probe`, `get_temp` | the thermal framework |
| installer and initramfs | `scripts/install-to-emmc.sh`, `mk-initramfs.sh`, `write-usb-rootfs.sh` | the eMMC's root partition and image partitions; `bootcmd` in the boot loader's environment | copy root, write and verify boot images, choose a root to switch to | the boot loader, the kernel's probing order |
| serial tools | `scripts/uart-term.py`, `uart-cmd.py` | the text read so far, whether it hammers; the time of the last output | catch the boot prompt, run a command | the box's UART |
| dumps | `scripts/extract-dtb.py`, `dump-partitions.sh` | the offset in the image | search an image for device trees | files |

### What is hard about each, and what makes it right

**Event bus.** `publish()` copies the subscribers under the lock and then works
on their queues without it: a put, the get that evicts, and the second put are
three atomic operations with other threads in between. Two reader threads and
any number of handler threads share a queue. Right means: a slow client loses
events only from the old end of its stream and only its own; a client that
keeps up loses, repeats and reorders nothing; no client holds up or stops a
reader; a reader's failure reaches every client, whenever it connects.

**GPIO explorer.** Each request is a thread and each helper call a process. The
helper changes a direction by reading the whole register and writing it back;
a pulse writes back, up to ten seconds later, the copy of the whole register it
has taken first; every call may fail or time out, perhaps after it has had its
effect. Right means: lines that nobody named stay as they were; the kernel's
lines stay outputs with the kernel's level; a pulse that had its bank to itself
puts the directions back whatever failed; a request that had its bank to itself
has the effect it asks for.

**TFTP server.** A stop-and-wait protocol over UDP with block numbers that wrap,
duplicates that cause further duplicates, and one thread for all clients. Right
means: what the client stores is always a beginning of the file; "done" is said
only of a client that has the whole file; a transfer always comes to an end;
on a good network every client gets its file. The server takes the packets of
whoever sends to its sockets, so strangers are part of it: with their
acknowledgements "done" may be false (section 6), but a copy may never be.

**IR readers.** A burst ends by silence, by a long space or at a length limit,
and edges keep arriving. Right means: no edge is lost, duplicated or put in
another burst than the one it came in, and bursts the decoder names are those
the NEC frame layout gives. A scancode and the key it is mapped to come in separate
events, a scancode without a key is known to be one only at the end of its packet,
and the device drops events when the reader is late. Right means: each scancode is
published once, at once, and never with the key of another.

**LED control.** The trigger and the brightness of an LED are two files of one
state, each write of which changes the other's; requests interleave between the
two, and the page loads the state while requests and other loads are under way,
with replies in any order. Right means: a request that nobody disturbs leaves the
LED as it asked, and the page comes to show the LED as it is.

**CPU PLL.** The PLL walks to a rate while the CPU runs from it; a walk is started
by a rising edge of a bit that may be high already, its busy bit drops too early,
and the driver may give up waiting. Right means: the cores never run above
1.2 GHz, for which the voltage was chosen; a rate that `set_rate` has reported is
the real one; a walk that was asked for arrives.

**Temperature sensor.** Callers share a sensor that has to be switched on and to
settle; the zone's critical trip powers the board off. Right means, by the driver's
own comment: one spurious sample does not power the board off. That is not so
(section 6, item 6); what holds is that neither one spurious sample of the eight nor
another caller takes a board from below 99 degrees to the trip at 105.

**Installer and initramfs.** Power may fail between any two steps, and the
initramfs takes the first root it sees while devices are still being probed.
Right means: an installation that has reported success boots whole; the initramfs
comes to an end; the root that runs is the one the documents say.

**Serial tools.** The key that stops the boot loader must arrive after it has
drained its input and before its countdown ends, in each boot and only there. The
end of a command is known from its output alone, which begins with whatever the
shell was doing. Right means: a boot that is watched ends at the prompt, the
hammering ends, and exit code 0 means that the command has finished.

**Dumps.** Bytes that look like the header of a tree stand before and inside real
ones. Right means: every tree is written, once, and nothing else.

## 2. Modules

| module | extends / instantiates | models |
|---|---|---|
| `EventBus` | | the event bus: reader threads, bus, `_stream` handlers |
| `EventBusProofs` | `EventBus` | theorems about it |
| `MCEventBus` | `EventBus` | its instances |
| `GpioPanel` | | the requests of the GPIO explorer, the helper's register accesses, the PL061 banks, the kernel's LED writes |
| `GpioPanelProofs` | `GpioPanel` | theorems about it |
| `MCGpioPanel` | `GpioPanel` | its instances |
| `FileTransfer` | | abstract: what a TFTP read promises |
| `Tftp` | `FileTransfer` by a refinement mapping | the TFTP server, an RFC 1350 client, the network |
| `TftpProofs` | `Tftp` | theorems about it, and that it implements `FileTransfer` |
| `MCTftp` | `Tftp` | its instances |
| `Nec` | | `decode_nec`, as operators |
| `LircReader` | `Nec` | the grouping of IR edges into bursts, with the remote and the driver |
| `LircReaderProofs` | `LircReader` | theorems about it; induction, for these and `PartsProofs` |
| `Keymaps` | | scancodes, keys and the input device's buffer: constants and assumptions |
| `InputReader` | `Keymaps` | the pairing of scancodes and keys, with rc-core and the device's buffer |
| `Leds` | | LED requests and the page's loads, over the kernel's LED class |
| `PllRates` | | the arithmetic of the CPU PLL |
| `CpuPll` | `PllRates` | the retuning of the CPU PLL, under the clock core |
| `CpuPllProofs` | `CpuPll` | theorems about it |
| `Thermal` | | readings of the temperature sensor by several callers |
| `UartCmd` | | `uart-cmd.py` against a shell |
| `ExtractDtb` | | the search of an image for device trees |
| `ExtractDtbProofs` | `ExtractDtb` | theorems about it |
| `BoxParts` | `LircReader`, `Keymaps`, `PllRates`; instances of `InputReader`, `Leds`, `CpuPll`, `Thermal`, `UartCmd`, `ExtractDtb` | one specification for all of these, with their constants and what is assumed of them |
| `PartsProofs` | `BoxParts`, `LircReaderProofs`; instances of `CpuPllProofs`, `ExtractDtbProofs` | theorems about it |
| `MCParts` | `BoxParts` | its instance |
| `UartTerm` | | `uart-term.py --catch`: its state and its turn |
| `BootChain` | `UartTerm` | power-on to root file system, the installer, power failures; with the terminal on the serial port |
| `BootChainProofs` | `BootChain` | theorems about it |

`BootChain` is the composition of the boot chain: the boot loader, the initramfs and
the installer meet in the eMMC and in `bootcmd`, and the terminal meets the boot
loader on the serial line.
The other components run on different machines or share no state, so nothing
composes their models further: the panel's event bus and its GPIO explorer are served by
the same HTTP server with a thread per request, and touch nothing in common; and
`LircReader` and `InputReader` hand an event to the bus in one call, `EventBus`'s
`ReadEvent`, which does not look into it.
`BoxParts` does not compose its parts either: it is their disjoint union. `part` is
chosen in its initial state, and only that part takes steps; this lets TLC check
all of them in one run, each as if it were alone, and a theorem about a part's own
specification carries over to it.

Operators whose comment begins "Mutant:" are not part of a model: each is a
plausible mistake in the operator that follows it, and is used only to show that
a property would notice it (`mutants` in `PROJECT.json`).

### EventBus

| model | code |
|---|---|
| `pc[r]`, `error[r]`, `seq[r]` | where the thread of `LircReader`/`InputReader` r is, its `.error`, its `_sequence` |
| `event[r]`, `targets[r]`, `target[r]` | the locals of `publish()` |
| `subs`, `queue[c]` | `EventBus._subscribers`, a subscriber's `queue.Queue` |
| `stage[c]`, `checked[c]`, `hand[c]` | where `_stream` of connection c is, how many readers' errors it has looked at, the event it is writing |
| `OpenDevice`, `OpenFails`, `DeviceLost`, `ReadEvent` | `run()`: open, its `except OSError`, a read that raises, a completed burst or scancode |
| `Snapshot`, `Put`, `PutRaisesFull`, `Evict`, `EvictRaisesEmpty`, `PutAgain`, `PutAgainRaisesFull`, `Published` | `publish()`, one action per queue operation and outcome |
| `Subscribe`, `CheckError`, `EnterLoop`, `Take`, `Send`, `Disconnect`, `Unsubscribe` | `_stream()` |

`sent`, `crowded` and `joined` are history: what was written to a client,
whether its queue was ever full, and what each reader had already taken a
snapshot for when it subscribed. A client is a connection: it is used once, as
its queue is. An event is its reader and its number; the text of an event and
how a reader cuts its input into events do not matter here.

### GpioPanel

| model | code |
|---|---|
| `dir[b]`, `latch[b]` | the GPIODIR and output data registers of bank b, as sets of pins |
| `pc[h]`, `req[h]` | the helper call handler h is in, the request it serves |
| `original[h]`, `read[h]` | `gpio_pulse`'s copy of GPIODIR; the value `cmd_dir` has read |
| `raising[h]`, `status[h]` | the exception that waits for `finally` to end, the HTTP status |
| `Accept`, `Refuse`, `Restore` | `_handle_gpio` up to its first helper call; `/api/gpio/restore` |
| `Dump`, `ReadDir`, `WriteDir`, `SetLevel`, `UndoDir`, `CallFails` | the helper's commands; a call that fails without writing |
| `LevelRaises` | `int(payload["level"])` raises, after the direction has been changed if there was one: 400, or for an infinity no reply |
| `WakeUp`, `SleepRaises` | the end of the pulse's sleep; a negative length |
| `KernelSetsLed` | the kernel's LED class (external) |

`SetLevel` changes the level only of a pin that is an output, as a PL061 does.
A writing action either succeeds or, with `Failures`, fails after its write (the
10 s timeout of `subprocess.run`); `CallFails` is the failure before it. `led`,
`boot`, `before`, `disturbed` and `named` are history. Requests that
`_handle_gpio` turns down without touching anything (a bank or pin that is no number,
a malformed pulse length, no JSON) are left out. A pin number that only the helper refuses is in
(`BadPin`), and so is a level that is no number: it is looked at after the
helper call for the direction, which has had its effect then.

### Tftp

| model | code |
|---|---|
| `running` | the process: an exception that nobody catches ends it |
| `state`, `addr`, `xfer`, `block`, `sends` | what `handle()` waits in, its `addr` (the sender of the last packet), its socket, its block (before the wrap) and its attempt |
| `reader` | `main()`'s `addr`: the client whose request is served |
| `inbox[c]`, `down`, `up` | packets on their way to the main socket, to the clients, to the transfer socket |
| `client`, `kind`, `asks`, `tid`, `got` | the client: external, written from what `handle()` expects of it |
| `Received`, `Strays` | `recvfrom`: a packet from the network, or one of a stranger, who may send any acknowledgement, an ERROR, a packet of another type or one that is too short |
| `Serve`, `RefuseRequest` | `main()` and the first part of `handle()` |
| `BadSize`, `ShortRequest`, `ShortPacket` | `int()` of a `blksize` that is no number (61), `struct.unpack` of a packet that is too short (81, 97, 140): the server ends |
| `OackAnswered`, `OackTimeout` | the wait for ACK 0: it is not repeated, and any ACK of anybody will do |
| `BlockAcked`, `OtherAnswer`, `DataTimeout`, `ClientError` | the turns of `for attempt in range(5)`: whoever sends the packet gets the next one |
| `Disturb`, `Arriving` | loss, duplication and reordering |

The model's `block` does not wrap; `Wire` is the number that goes in a packet. A
packet carries its real block as well, which no action compares: it is what is
stored, so that a confusion of wrapped numbers shows in `got`. `network` is
chosen in `Init` and never changes, so that one run covers several kinds of
network. `FileTransfer` is the abstract specification: clients store blocks in
order, and a transfer is reported only when its client has all of them; `Tftp`
implements it with `stored` the length of `got` and `reported` the clients "done"
was printed for. `misled` is history: a stranger has acknowledged a block of the
transfer. Such transfers are not counted in `done`: the code prints "done" of them
although the client may have nothing (section 6).

### LircReader and Nec

| model | code |
|---|---|
| `edges` | `run()`'s local `edges` |
| `burst` | what `_flush` has published in the last step; `<<>>` if nothing |
| `ReadPulse`, `ReadSpace`, `ReadEnd`, `ReadNothing` | the branches of `run()`'s loop, each with the check of the length limit that follows it (`Keep`) and with `_flush` |
| `DecodeNec` and what it uses | `decode_nec` |
| `air`, `Transmit` | external: a transmission as the driver delivers it |

Durations are real microseconds and `Near` is exact: the products in `_near` are
integers for all five targets, so its floating point is exact too. A byte is the
sequence of its bits, so `raw` and the integer values are left out, and
`extended` is `~address_ok`. A transmission is sent at a `Scale`; some
consecutive pulses may not be seen (one long space then stands for them), the
driver may drop words and report an overflow, and the silence after it shows as a
long space or as a timeout. The next transmission may also come too soon, after
`ShortGapUs`.

### InputReader

| model | code |
|---|---|
| `pending_scan` | `run()`'s local of that name |
| `published` | what `_emit` has published in the last step; `None` if nothing |
| `ReadScan`, `ReadKey`, `ReadSyn` | the branches of `run()`'s loop, with `_emit` |
| `buffer`, `Send`, `Pass` | external: the buffer of an evdev client; one that is full is emptied, and `SYN_DROPPED` says so |
| `lastScan`, `held`, `ScanNew`, `ScanRepeat`, `KeyRepeat`, `KeyUp` | external: rc-core's packets for a scancode, a repeat of the remote, the input layer's own repeat, and the timer that lets the key go |

An event carries as history the scancode and the key of its packet, and `sent` is
those of the one that `run()` read last; no action compares either. A packet is put
in the buffer at once, as the kernel does it under a lock, but `run()` reads it one
event at a time, so the kernel may drop the rest of a packet whose scancode has been
read.

### Leds

| model | code |
|---|---|
| `led` | the LED's `trigger` and `brightness` files (maximum 1) |
| `post[c]` | the POST request of the page or of another client: its payload and the next sysfs write |
| `load[s]`, `view` | a GET request of the page and what it has read; the LED as the page shows it |
| `Request`, `SetLed`, `SetFails`, `Answer` | `do_POST` and `set_led`, a step per file; its `OSError` |
| `LoadLeds`, `LedState`, `Show`, `Poll` | `loadLeds`, `led_state`, the timer |
| `PageAnswered`, `Click` | the page's `post`, its button and its selector |
| `WithTrigger`, `WithBrightness`, `Blink` | external: the LED class: removing a trigger leaves the LED off, brightness 0 removes the trigger, a trigger changes the brightness |

### CpuPll and PllRates

| model | code |
|---|---|
| `pc`, `want`, `result` | where `cpu_pll_set_rate` is, its `fbdiv`, what it returned |
| `tuneInt`, `en`, `cfg1`, `div` | `TUNE_INT`, `TUNE_EN` in `TUNE_CTRL`, the fbdiv of `PLL_CFG1`, the other dividers |
| `live`, `busy`, `tuned` | `TUNE_STAT`: divider, busy bit, and whether it shows a divider at all |
| `cached` | the clock core's copy of the rate |
| `Pick`, `Rate`, `Recalc` | `cpu_pll_pick`, its quotient, `cpu_pll_recalc_rate` |
| `SetRate`, `WriteTarget`, `LowerEnable`, `RaiseEnable`, `Poll` | `determine_rate` and `set_rate`, a step per group of register writes |
| `CoreRecalcs`, `Walk`, `BusyDrops` | external: the clock core reads the rate back; the PLL, as the patch's comments describe it |

`Poll` may time out at any time: the 100 ms say nothing about the length of a walk.

### Thermal

`Lock`, `Enable`, `Sample`, `Disable`, `Unlock` are the steps of `get_temp`; `code` is
what a good sample shows, the board's temperature, which stays as it is during a
run. A reading has at most one sample that is 0 or 1023 instead, and a sensor that
is off returns anything. `Celsius` is the driver's fit with C's division. Of the two
properties, `NoSpuriousShutdown` is what the driver's comment says and is false;
`OneSampleIsDiluted` is what the mean and the mutex achieve.

### UartCmd

Time is counted in reads of half a second. `ReadChunk` and `ReadNothing` are the two
branches of `run()`'s loop, `MaxTimeout` its end; `box` is the shell, which may still
be running a command that an earlier call gave up on.

### ExtractDtb

An image is a sequence of cells of four bytes; a cell is 0 or a magic with the size
its header claims. `Scan` is one turn of `extract_appended`, `Entry` one of
`extract_dtbo`.

### UartTerm and BootChain

| model | code |
|---|---|
| `term`, `armed`, `window` | `uart-term.py` has the port open, its `armed`, the marks in its `window` |
| `unread`, `heard` | the serial line: marks printed and not read; a Ctrl-C that waits at the box |
| `Open`, `Turn`, `Quit` | the tool: opening the port discards its input; one turn of the loop; Ctrl-] |
| `phase`, `bootcmd`, `stick`, `ready` | external: what the box does, what its boot loader loads (from USB, from the eMMC, or, with the printed double quotes typed in, nothing), the USB stick and whether it has been probed |
| `SetBootcmd` | the instructions that `install-to-emmc.sh` prints (122-148), as a person follows them: with the quotes of line 131 or, as line 137 asks, without |
| `Start`, `Fastboot`, `OpenWindow`, `CloseWindow`, `Load` | external: the vendor boot loader, with the Ctrl-C window of `docs/uart-access.md` |
| `try`, `Look` | `/init` of the initramfs: one pass over the devices, and what follows a find |
| `root`, `synced`, `good` | the eMMC: how much of a root it shows, how much would survive, which images are whole |
| `Checks`, `Mkfs`, `Copy`, `Sync`, `Write`, `Verify`, `Finish`, `Fails` | `install-to-emmc.sh`, step by step, and `set -e` |
| `PowerFails` | what was written and not synced is kept in part |

`turned` and `catching` are history: whether the tool has had a turn in the window
(its turns take 20 ms, the window seconds), and whether it has been there since
the box was switched on. A person at the plug is slower than a turn of the tool.
`root` has four values: what the initramfs would not take, a part without
`/sbin/init`, a part with it, the whole.

## 3. Runs

| run | instance | checks | shows |
|---|---|---|---|
| `EventBus` | both readers and one client, or one reader and two clients; queue of 2, 3 events of one reader and 2 of the other | `TypeOK` `LosesOnlyOldest` `NeverRepeats` `KeepsUpGetsAll` `ErrorIsInStream` `NeverStalls` `QueuedIsWritten` | in every interleaving of puts and gets: the queue has no holes, nothing is repeated or overtaken, a client that keeps up gets all, whatever the other one does, a failed reader is shown as failed, `publish()` ends whatever the clients do; a queued event is written to a browser that reads, or evicted |
| `EventBus_killed` | both readers, one client | `ReaderSurvivesClients` | *violated*: see section 6 |
| `EventBus_newest` | one reader, one client | `NewestIsKept` | *violated*: see section 6 |
| `GpioPanel_bank` | one bank of three pins, one of them the kernel's; two requests at a time of five that race; calls fail | `TypeOK` `OnlyNamedLinesChange` `ReservedLinesKept` | no interleaving and no failure changes a line that no request has named, or takes a line from the kernel |
| `GpioPanel_banks` | two banks, two requests at a time; calls fail | `PulsePutsDirectionsBack` `DirectTakesEffect` | a request that has its bank to itself does what it says, while another bank is in use, and a pulse undoes itself whichever call fails |
| `GpioPanel_overlap` | two pulses on one bank, no failures | `PulsesLeaveNoOutput` | *violated*: see section 6 |
| `GpioPanel_baseline` | one request at a time, no failures | `RestoreUndoes` | *violated*: see section 6 |
| `Tftp` | three blocks, three sends; one client on a network that loses, duplicates and reorders, on one that loses and duplicates with numbers that wrap at once, and on one where strangers send as well; two clients that repeat their requests on networks that do none of this | `TypeOK` `CopyIsPrefix` `OneBlockAhead` `ImplementsFileTransfer` `ServerReturns` `EveryReadCompletes` | the copy is the file, also with strangers; "done" means stored unless a stranger has acknowledged a block; every transfer ends, in the main loop or with the server; on a good network every client that asks gets its file |
| `Parts`, IR bursts | standard and extended frames and repeats at 70 % and 130 % speed, every run of lost pulses, every overflow of up to two words | `BurstsAlternate` `ShownWasSent` `WholeMessageIsShown` `NoPulseIsLost` (and `PartsTypeOK`, for all parts) | no pulse is lost or repeated; a message that arrives whole is shown as it was sent; nothing is shown that was not sent |
| `Parts`, scancodes | four scancodes, two of them with the same key and one with none; a device buffer of 8 events | `NothingWaits` `ScansArePublishedOnce` `KeyGoesWithItsScan` | however late the reader is: a scancode that the device still has is published once, in order, at the end of its packet at the latest, and never with another's key |
| `Parts`, CPU PLL | the real limits, requests below, above and between; a boot loader that has tuned the PLL or not, with the enable bit high or low | `NeverOverclocks` `BelievedIsReal` `Arrives` | never above 1.2 GHz on the way to any rate; success means that the reported rate is real and stays; a tune always starts and arrives |
| `Parts`, temperature | two callers; both sides of the trip and of the range | `OneSampleIsDiluted` | a board below 99 degrees is not powered off by one bad sample or by another caller |
| `Thermal_spurious` | one caller; both sides of 99 and of 105 degrees | `NoSpuriousShutdown` | *violated*: see section 6 |
| `Parts`, `uart-cmd.py` | one minute, twenty seconds, the defaults | `ZeroMeansFinished` | exit code 0 only after the command has ended, also behind an earlier command's prompt |
| `Parts`, device trees | every image of up to five cells, every container of up to three entries | `FindsEveryTree` | every tree once and in order, nothing else |
| `Parts`, LED | two posters, two loads under way, a request for both files | `LoneRequestTakesEffect` `ViewSettles` | trigger before brightness has the effect it is for; the page ends up showing the LED as it is |
| `BootChain` | thirty passes of the initramfs, three images, any order of boots, resets, installations, power failures and uses of the tool | `TypeOK` `DoneBootsWhole` `CatchWins` `HammeringEnds` `BootSettles` | after a reported success the eMMC boots whole, wherever power fails; a watched boot is always caught; the hammering stops; the initramfs ends |
| `BootChain_usb` | three passes | `UsbBootcmdRunsUsb` | *violated*: see section 6 |

**Why the bounds are enough.** *EventBus*: the races need two readers (there are
two in the program) and one queue that is full, drained and full again; three
events of one reader and two of the other fill a queue of two and evict from it more
than once. Clients meet only through a reader's
`targets`, for which one reader and two clients suffice; `EitherSpec` joins the two
instances (the second reader starts, or the second browser connects). `maxsize` is 256 in the program; nothing depends on
it but whether a queue is full, and the theorems hold for any size.
*GpioPanel*: requests disturb each other through one bank's GPIODIR, of which a
request holds one copy; two requests make each other's copy stale in both
directions, and three pins give each of them one and leave one for the kernel.
The program allows any number of threads; more than two at a time and other
mixes of requests were not run. *Tftp*: three blocks give a first, a middle and
a last one, and with a modulus of 2 the numbers wrap twice in that; three packets
in flight each way let an original and a duplicate pass a third; three sends
stand for five (first, repeated, last). Requests are bounded by `MaxAsks`,
transfers by the network's `transfers`: two let a second transfer meet packets of
the first, and four give each of two clients two requests. Strangers are not
bounded: at any moment one may send any packet the server tells from another; there the
server reads one request, which is enough for it to run ahead of its client, to send blocks
astray and to end.

*LircReader*: a byte has one bit instead of eight, so a frame has 4 bits and 11
edges instead of 32 and 67: the decoder's loop and its indices are written in
`ByteBits`, and each of the four bytes is still there. The limit of a burst is 12
edges instead of 2048, so that a frame fits and two that run together are cut. The
two speeds are the limits of the decoder's tolerance; `ShortGapUs` is 5000 because
that is a space the decoder could take for that of a leader (it does: the leader
of one transmission followed by a headless frame is shown as that frame, which
was sent). At most two transmissions run together.

*InputReader*: the longest packet has four events, so a buffer of 8 holds two whole
packets and overflows at every position of a third; the kernel's has 64 or more.
Four scancodes give a mapped, an unmapped and two that share a key, and
`ScanSize` is 4, so that half of the scancodes are negative as a value of the
event, which is signed (the program's is 2^32).

*Leds*: two loads under way are what it takes for one to overtake the other, and the
other client's requests include one for both files each way. *CpuPll*: with a
divider of 1 the highest rate has fbdiv 50 and the lowest 17, so the walks are short
and complete; the theorems are about any divider. *Thermal*: two
callers give every overlap of two cycles; the codes are the ends of the scale and
the values on both sides of 99 and of 105 degrees. *UartCmd*: not scaled. *ExtractDtb*: a header has two
cells instead of seven and a tree at least three instead of 257, so five cells
hold a tree inside another's claim, a magic at each distance from the end, and two
trees end to end or overlapping. *BootChain*: nothing is scaled but the copy of the root, which has four states;
there is no bound on the number of boots.

`NetworksAssumption` says that a network that reorders does so within fewer
packets than there are block numbers, and that strangers do not acknowledge as many
blocks of a transfer. It is needed: with reordering and a modulus
of 2, a block can be overtaken by the one that has the same number, the client
stores it in its place, and `CopyIsPrefix` fails. In the program that takes a
packet that is late by 65536 blocks, or a stranger who acknowledges 65536.

`CHECK_DEADLOCK FALSE` in `Tftp`, `Parts` and the EventBus runs: there the system
stops when the bounded requests or events are used up, and in `Parts` when a command
or an image comes to its end. Deadlock is checked in the GpioPanel and BootChain runs.

## 4. Fairness

*EventBus*: `PublisherFairness` is weak fairness of the steps of each
`publish()` call: they are queue operations that do not block, so a runnable
thread takes them. Devices need not deliver events and browsers need neither
connect, read nor leave. `NeverStalls` needs only that. `QueuedIsWritten` has a premise
of its own, `BrowsersRead`, weak fairness of `StreamStep(c)`: the browser reads its socket so
that `_send_event` returns. Nothing is fair to `Disconnect`.
*Tftp*: `WF_vars(HandleStep)`: `recvfrom` on the transfer socket returns, with a
packet or with `socket.timeout` after 5 s, whatever the clients, strangers and the network do;
`ServerReturns` needs only that. It says that `handle()` ends: back in the main loop, or,
where strangers may send packets that are too short, perhaps with the whole server. For `EveryReadCompletes`, and only on a network
without loss, packets arrive, clients
ask at least once, none of them with a `blksize` that is no number, and the main socket's queue is served in the end: strong
fairness of `Serve(c)`, because the server is not always idle but comes back
again and again, and a UDP socket's queue is first in, first out.
*GpioPanel* has no liveness property: every call of the helper has a timeout.
*LircReader*, *InputReader*: none either; that nothing is held back is the invariant
`NothingWaits`, which needs no fairness.
*CpuPll*: the driver's code runs to its end, the clock core reads the rate back, the
PLL walks (its step is one) and drops its busy bit: each is weakly fair. Requests are
not, and nothing makes `Poll` wait for the walk.
*Leds*: the page's timer fires (weak fairness of `Poll`) and its loads are served and shown.
`ViewSettles` is about behaviours in which requests come to an end by themselves.
*BootChain*: weak fairness of the box's steps, from the boot loader to the initramfs,
and of the tool's turns, whose `select` waits 20 ms at most. Not of `Enumerate`: the
stick may never be probed, and the initramfs must end all the same. Nobody need
switch on, type or install.
*Thermal*, *UartCmd*, *ExtractDtb* have no liveness property: each is a straight line
or a loop with a bound of its own.

## 5. Proofs

A theorem holds for every value of the constants that the named `ASSUME`s of the
modules allow. Each safety property follows from an inductive invariant, which is
the property and what it needs of the rest of the state. A module has a lemma per action where that is worth it, one
that puts the actions together, and the theorems at its end.

| module | theorem | states |
|---|---|---|
| `EventBusProofs` | `TypeCorrect`, `LossIsOldest`, `StreamsNeverRepeat`, `FastClientsGetAll`, `ErrorIsShown` | `TypeOK` `LosesOnlyOldest` `NeverRepeats` `KeepsUpGetsAll` `ErrorIsInStream` |
| `GpioPanelProofs` | `TypeCorrect`, `UnnamedLinesStay`, `KernelKeepsLines`, `PulsesUndoThemselves`, `DirectRequestsTakeEffect` | `TypeOK` `OnlyNamedLinesChange` `ReservedLinesKept` `PulsePutsDirectionsBack` `DirectTakesEffect` |
| `TftpProofs` | `TypeCorrect`, `CopiesArePrefixes`, `ServerIsOneBlockAhead`, `ImplementsTransfer` | `TypeOK` `CopyIsPrefix` `OneBlockAhead` `ImplementsFileTransfer` |
| `LircReaderProofs` | `ReaderTypeCorrect`, `BurstsAreWellFormed`, `EveryPulseIsPublished`, `WholeMessagesAreShown`, `NothingIsInvented` | `TypeOK` `BurstsAlternate` `NoPulseIsLost` `WholeMessageIsShown` `ShownWasSent` |
| `BootChainProofs` | `TypeCorrect`, `InstalledBootsWhole`, `TheWindowIsCaught` | `TypeOK` `DoneBootsWhole` `CatchWins` |
| `CpuPllProofs` | `TypeCorrect`, `CoresStayInBounds`, `ReportedRateIsReal` | `TypeOK` `NeverOverclocks` `BelievedIsReal` of `CpuPll` |
| `ExtractDtbProofs` | `TypeCorrect`, `EveryTreeIsFound` | `TypeOK` `FindsEveryTree` of `ExtractDtb` |
| `PartsProofs` | `PartsTypeCorrect`, `NoScanIsHeldBack`, `NoScanIsLostByTheReader`, `ScanHasItsOwnKey`, `CoresStayInBounds`, `ReportedRateIsReal`, `OneSampleAddsLittle`, `ExitZeroIsTrue`, `EveryTreeIsFound`, `LoneRequestIsObeyed` | the same of `BoxParts`: `PartsTypeOK` `NothingWaits` `ScansArePublishedOnce` `KeyGoesWithItsScan` `NeverOverclocks` `BelievedIsReal` `OneSampleIsDiluted` `ZeroMeansFinished` `FindsEveryTree` `LoneRequestTakesEffect` |

**Event bus**, for any number of readers and clients, any capacity and any number
of events. Assumed: reader names are distinct, sizes are naturals, the null values are
not events or clients. `LosesOnlyOldest` is not inductive: it does not say that the
event a thread is about to put is the successor of the last one offered, nor that a
queue nobody offers to is empty. `IInv == TypeOK /\ Control /\ LosesOnlyOldest` is:
`Control` says what each value of `pc[r]` says about `event[r]`, `targets[r]` and
`target[r]` (in `put`, `evict` and `putAgain` the event is the one numbered `seq[r]`,
or 0 after an error), and that a client which has not subscribed has an empty queue
and is nobody's target. Two lemmas about `Unholed` carry the argument: the tail of a
queue without holes has none (`UnholedTail`: an eviction or a take), and appending the
next event makes none (`UnholedAppend`: a put). A put that is skipped, because
get_nowait raised Empty, advances what was offered while the queue is empty, and a
queue that is empty has no hole; that case, and a reader that died in a put, are why
`Offered` is defined by `targets` and not by what was put.
The other three are about a client's whole stream: what it was sent, what it is being
sent, its queue. `StreamInv` adds to `IInv` that the stream is in order and ends with
what was last offered (`StreamOrder`), that the stream of a client whose queue was
never full has every event in between (`Complete`), and, for the error of a
reader, that it has reached such a client, or `_stream` has still to look at this reader,
or its publish() has still to serve this client (`ErrorComes`): setting the error before
publishing it and subscribing before looking leave no gap between the three. What a step
does to one stream is one of `Quiet`, `Evicts`, `Gains`, `Takes` and the like; the
actions are shown to do one of these to each client, and these to keep the invariant.

**GPIO explorer**, for any number of handlers, banks, pins and reserved lines, any set of
requests, and with or without failures. Assumed: reserved lines are lines, the bad pin is
not a pin, there is a request. The properties speak of the registers, but a register is
overwritten from a copy that may be old, so the inductive invariant `IInv` speaks of the
copies: `Copies` says that each value of GPIODIR that a helper or `gpio_pulse` holds agrees
with the start on every line that nobody has named (`Agrees`), `Lines` says the
same of the registers, and `Handling` that a handler inside a call has named its
own line, that named lines are not reserved, and that a copy is held only inside
the calls that use it. `named` only grows, so a copy that agreed still does:
that is why stale copies do no harm to third lines, while they do to the named
ones (section 6, item 3). `CallEnds` collects what the end of a call does to the
handler, for the five actions that share it.
The two action properties are about a request that had its bank to itself.
`PInv` adds `Alone` (two requests on one bank have disturbed each other) and
`Courses`, what an undisturbed request may rely on at each of its calls: a pulse, that
the directions are those it found until it has its copy, and that the copy is those from
then on, whichever call fails; a direct request, that the direction is as asked once its
call is behind, and the level once it is answered.

**TFTP**, for files of any length, any clients, any number of retries, requests and
transfers and any networks, with strangers or without. Assumed: `NetworksAssumption`
(section 3). The invariant `TftpInv` is about the packets on their way. As long as no stranger
has acknowledged a block of the transfer (`~misled`), what its client may still take of it
is the last block it has stored or the next (`InStep`, in `ForClient`), what the server may
read from it tells no more than the client has (`ForServer`), and client and server are at
most one block apart (`Together`), which is why comparing numbers that wrap is enough:
`OneBlockAhead`. A stranger's other packets do no more than a loss does: they use up attempts and send
blocks astray. Once a stranger has acknowledged a block all of this is lost, and the server
may be any number of blocks ahead. What is left is that a packet carries its block's number and
that numbers do not wrap there, so a client still stores nothing but the block that is due
(`DueBlock`), and `CopyIsPrefix` holds. On a network that keeps the order, and has no strangers, the
packets of a transfer are also in the order of their blocks, and then a modulus of 2
suffices; on another the numbers must not wrap. A network that loses and duplicates has packets
it had before, in the order they had (`Drawn`). `ImplementsTransfer` shows `Spec => Transfer!Spec`: a
transfer that no stranger has acknowledged is reported only when its client has acknowledged
the last block, by `Together` the client has stored it, and the store of a block is
`FileTransfer`'s, because a client takes a block only as the next one.

**IR bursts**, for any width of a byte, any messages, any speeds from 70 to 130 %, any
limit of a burst in which a frame and a repeat fit, and any number of dropped words.
Assumed of the spaces between transmissions (`GapsAssumption`): the silence that ends a
burst is longer than any space `decode_nec` accepts (4500 us and 30 %), and transmissions
that run together are still further apart than the space of a bit or of a
repeat (2250 us and 30 %); NEC's are tens of milliseconds apart.
`LInv` adds to `BurstsAlternate` that the words ahead alternate wherever no overflow is
between them (`Fits`), whatever was not seen or dropped, that the edges collected do, and that edges
which end with a pulse are followed by something that is not one (`Control`).
`NoPulseIsLost` needs what `Pulses` computes, which is a recursive function:
`LeastNat` and `Climb` are induction over the numbers up to n, for membership of a set instead of a
predicate (from the library's `WFMin`), `Recurs`, `RecursionIsDefined` and `RecursionHasType`
say that a function defined by recursion exists and where its values lie, and
`PulsesOfAppend`, `PulsesOfPrefix` are then what the trimming in `_flush` needs: it drops
only spaces, and only from the ends.
`WholeMessageIsShown` has two parts. `SentIsShown` is about the decoder: of the edges of a
message at any speed from 70 to 130 % it makes what the message means; a mark or space at
that speed is near its own length and not near the one it is told apart from (`UsRange` and what follows it). `CleanInv` is about the
reader: while a transmission that nothing disturbed arrives, the edges collected and
those ahead are together those of the message, at one of the speeds.
`ShownWasSent` needs what can be shown of every piece of a transmission. `Honest(w, ms)` says
that words `w`, cut off anywhere, are not shown as anything but one of the messages `ms`; it
holds of what is left of one message, faded or overflowed (`HonestAlone`), because such a rest either is the message
up to some place (`CutOff`), or is too short for a frame, or has lost its leader
(`Headless`), and an end that is longer than any bit is no bit (`NoBit`). It holds
of two transmissions that run together, of the messages of both (`HonestTogether`). `Tale` is
the invariant: the edges that the reader has are the start of such words, and the words
ahead are the rest of them (`Ahead`), unless the edges do not begin with a leader (`Unled`).

**Scancodes**, for any scancodes, keymap and size of the buffer of at least 2. Assumed: a
scancode has a key or `NoKey`, and `None` is none of them. The three properties depend on
what the device's buffer can look like: `Chained` says that what follows a scancode in it is
what follows it in its packet, because an event that finds the buffer full takes
the place of all of them, behind `SYN_DROPPED`; the last event in a buffer is the end of a
packet. `InputControl` says the same across the read: after a scancode, the next
event is its own key, the end of its packet or `SYN_DROPPED`. `Pass` puts the events of a
packet in one at a time and may overflow at each; `PassKeepsOrder` is the induction
over them.

**CPU PLL**, for any parent rate, dividers, requests, and limits of which the upper one is a
multiple of the parent rate (1.2 GHz of 24 MHz). `Bounded` says that no register the PLL may
walk to is above the divider of the upper limit, whichever walk is under way, `Tuned` what
the driver knows at each step of the sequence: that a rising edge follows the low one, and that a
reported success was read when the busy bit was clear and the divider was the one wanted.

**The others.** *Temperature*: seven good samples and one of any value (`ReadingIsClose`
does the division), and the sensor is on while a caller samples, because
one that is not idle holds the mutex (`HeatControl`). *`uart-cmd.py`*: a prompt at the
end of the output is the command's, or an earlier one's whose shell is about to take up the
line, and that one is not followed by a second of silence. *LED*: between
its two writes, a request that is alone has its trigger in place. *Device trees*: those
written are those that begin before the offset, in order and once (`DtbInv`). *Boot chain*:
what the installer has synced, written and verified at each step (`Progress`), and that a
finished one stays whole until the next mkfs (`Finished`); `TheWindowIsCaught` needs
`Catch`: the banners are on their way from the moment of switching on, nothing older that could
end the hammering is in the tool's window, and a tool that has had its turn in the window
has been heard.
`PartsProofs` lifts what is proved of a part: a step of `BoxParts` is one of the
part's own specification or leaves its variables alone.

**Only model-checked**, at the sizes of section 3:

- liveness (`NeverStalls`, `QueuedIsWritten`, `ServerReturns`, `EveryReadCompletes`,
  `Arrives`, `ViewSettles`, `HammeringEnds`, `BootSettles`): it rests on fairness, and so on
  ENABLED, which the prover does not reason about.

Every other property of a passing run is stated by a theorem; those of the violation runs
are false of the program.

## 6. Where the code and its comments disagree

1. **A reader can be killed by its clients** (`tvbox-panel.py` 112;
   run `EventBus_killed`). "A client that stops reading loses its oldest events
   rather than stalling the reader threads" (84-85). Both readers find a queue
   full; one evicts; the other puts into the place; the second `put_nowait` of the
   first raises `queue.Full`, `except queue.Empty` does not catch it, and the
   exception ends the reader thread. `.error` stays `None`, so clients are not
   told. One key press makes both readers publish, so the two do meet.
2. **The newest event can be the one that is lost** (113; run `EventBus_newest`).
   If the client empties its queue between the failed put and the eviction,
   `get_nowait` raises `Empty`, which is swallowed, and the event is not put: into
   an empty queue.
3. **Overlapping pulses leave an output behind** (457; run `GpioPanel_overlap`). "an
   output left driven on an unidentified pin is exactly what this tool is trying
   to avoid leaving behind" (446-448). A pulse that begins during another one on
   the same bank has the other's output bit in its copy of GPIODIR and writes it
   back when it ends.
4. **Restore directions restores nothing** (436; run `GpioPanel_baseline`).
   `GpioBaseline` "Remembers each bank's GPIODIR as first seen, so the UI can undo
   itself" (414), but nothing calls `capture()`: `masks` is empty, `restore()`
   writes nothing and the request is answered 200.
5. **The box can run from the eMMC while it still boots over USB**
   (`mk-initramfs.sh` 48; run `BootChain_usb`). When it is done, the installer says
   "Nothing boots from it yet -- the stock bootloader still loads everything over
   USB" (122-123) and "To go back, restore the old bootcmd" (147-148). But the
   initramfs takes the first root it sees, whatever loaded it, and the eMMC's is
   there before the stick's (15-18): after the next power cycle the root is the
   eMMC's. The same happens with a root that was copied in part, if power fails
   once `/sbin/init` is there, and the installer then refuses to run again
   ("already running from eMMC", 36).
6. **One spurious sample can power the board off** (patch 0008, 134; run
   `Thermal_spurious`). Of the limits -40 and 150 degrees the comment above them says
   "the zone's critical trip powers the board off, and a single spurious sample
   should not do that" (130-131), and `docs/thermal.md` 72-74 "Readings outside −40…150 °C are
   rejected rather than reported. The zone's critical trip powers the board off, and one
   spurious sample should not be able to do that". But eight samples of 1023, the most that
   ten bits hold, read 143 degrees, so the upper limit never rejects anything; and one
   sample of 1023 lifts the mean of a board that has 99 to 104 degrees to the trip at
   105. Only a board below 99 is safe from one sample (`OneSampleIsDiluted`), by the mean and
   not by the limits.

Not runs of their own:

- *The installer prints `bootcmd` as it says not to type it.* The command of
  `install-to-emmc.sh` line 131 has its value in double quotes; lines 137-140 and
  `docs/emmc-install.md` 135-140 say that this boot loader then takes the opening quote for a part of the
  first word, and the kernel is not loaded. In the model such a `bootcmd` is `"quoted"`:
  it ends in `"dead"`, from which only the prompt of a later boot leads out, and
  `DoneBootsWhole` speaks of an unquoted one.
- *A repeat of a scancode with a key is shown as having none.* While a button is held, rc-core
  sends the scancode alone, since its key is down already (`ScanRepeat`). `run()` takes a scancode
  without a key for one without a keymap entry (`tvbox-panel.py` 300-305), publishes it with no
  key, and the page writes "no keymap entry" (713). `KeyGoesWithItsScan` says
  that a key is never the wrong one, not that it is there.
- A pulse puts back the directions but not the level, so an output that was high is low
  after it (456); and if the `set 0` in `finally` fails, the restore after it is skipped
  (456-457), so `PulsePutsDirectionsBack` asks that the two undoing calls work.
- The page has an "up" for a released key (711) that it cannot show: a release comes without a
  scancode, so `_emit` drops it (308), and every key that is published is a press
  (`KeyGoesWithItsScan`).

Seen while modelling, and contradicted by no document: after a `set_rate` that timed
out, the clock core keeps the rate the PLL was passing through, and a request for
exactly that rate is skipped (`Arrives` says that the walk itself still ends).
`tftpd.py` takes a packet at its transfer socket from whoever sends it, and goes on with
that sender (`data, addr = xfer.recvfrom(1024)`, 76 and 94): an acknowledgement that did
not come from the client passes a block it has not got, and "done" (113) may be printed
for a client that has nothing; the properties therefore except transfers that a stranger has
acknowledged. A `blksize` that is no number (61) and packets that are too short (81, 97, 140)
raise exceptions that nothing catches, and end the server with all that wait for it. A
direct GPIO request whose level is no number has changed the direction when it is
answered 400 (`tvbox-panel.py` 948-957); an infinite level gets no answer. `extract-dtb.py`
names its results after the base name of the image, so two images with the same one overwrite
each other's; and a DTBO table that is cut off raises `struct.error`, after which later
images are not looked at (`Entry`).

## 7. What is not modelled, and why

- *EventBus*: the text of events, HTTP headers and the keepalive's content. A device
  that goes away ends its reader without an error (`DeviceLost`); nothing in the
  repository promises a report, so no property asks for one.
- *GpioPanel*: reading GETs (they only dump); a helper process that goes on after
  its caller's timeout has expired and writes later (a model call either has written
  when it fails or never does); a bank number above 9, which
  makes `gpio_pulse` raise an `IndexError` that ends the connection before any
  register is touched; input levels of pins (they are the board's).
- *Tftp*: strangers' requests at the main socket, other than ones too short (they are those of
  further clients); path normalisation; the text of options but a `blksize` that is no
  number; an exception of `sendto`; a file that changes while it is sent.
- *Page*: what formats the data of the panel; its LED part is in `Leds`, and what its
  GPIO part can send are the requests of `GpioPanel`.
- *Leds*: names that do not exist (404); several LEDs (they share nothing); maximum
  brightness above 1.
- *CpuPll*: a divider of zero, with which nothing is set; registration of the clock.
- *Thermal*: `probe`; a temperature that changes during a reading; more than one bad
  sample of the eight, which the driver does not claim to survive.
- *UartTerm*: the text and the keys that pass through; `Uncompressing Linux`,
  which only the stock kernel prints (`logs/stock-boot-uart.log`); the limit of 4096
  bytes on the window, which a mark leaves only after it has been acted on. Once a boot goes past the vendor boot loader uncaught,
  mainline U-Boot's own countdown is hammered too until "Starting kernel": it is one
  step here.
- *UartCmd*: a command whose own output ends in "$ " or "# " and is followed by a
  second of silence; its docstring is silent about it, and nothing could tell.
- *BootChain*: `write-usb-rootfs.sh` and the copying of `mk-initramfs.sh`
  (straight-line scripts on another machine); an eMMC that fails later; a stick with no root file system on it.
- *Dumps*: `dump-partitions.sh` and `decompile`: a loop of copies, a call of `dtc`.
- *Device trees, the other patches*: declarative data; straight-line register writes
  and API changes without states that interleave.
- *LircReader*: short reads of the device (a LIRC device delivers whole words);
  spurious pulses inside a frame, which NEC can only reveal by `command_ok`.
- *InputReader*: opening the device, a read that raises and `_sequence` are in
  `EventBus`; short reads (evdev delivers whole events); a keymap that is changed
  while the panel runs.

## 8. Plan

In order of importance; a module is written before its proofs.

| step | modules | theorems proved | left |
|---|---|---|---|
| 1 | `EventBus`, `EventBusProofs` | type correctness, `LosesOnlyOldest`, `NeverRepeats`, `KeepsUpGetsAll`, `ErrorIsInStream` | |
| 2 | `GpioPanel`, `GpioPanelProofs` | type correctness, `OnlyNamedLinesChange`, `ReservedLinesKept`, `PulsePutsDirectionsBack`, `DirectTakesEffect` | |
| 3 | `Tftp`, `FileTransfer`, `TftpProofs` | type correctness, `OneBlockAhead`, `CopyIsPrefix`, the refinement of `FileTransfer` | |
| 4 | `Nec`, `LircReader`, `InputReader`, `LircReaderProofs` | type correctness, `BurstsAlternate`, `NoPulseIsLost`, `WholeMessageIsShown`, `ShownWasSent`; `NothingWaits`, `ScansArePublishedOnce`, `KeyGoesWithItsScan` | |
| 5 | `PllRates`, `CpuPll`, `Thermal`, `CpuPllProofs` | type correctness, `NeverOverclocks`, `BelievedIsReal`; `OneSampleIsDiluted` | |
| 6 | `UartTerm`, `BootChain`, `BootChainProofs` | type correctness, `DoneBootsWhole`, `CatchWins` | |
| 7 | `Leds`, `UartCmd`, `ExtractDtb`, `ExtractDtbProofs`, `BoxParts`, `PartsProofs` | type correctness, `LoneRequestTakesEffect`, `ZeroMeansFinished`, `FindsEveryTree` | |

Abstract specifications worth stating: `FileTransfer` (done); a lossy ordered log
per client for the event bus (each client's stream is the log with old entries
missing), which `EventBus` implements.

## 9. Running the checks

In this directory: `tlc -workers 2 -config <run>.cfg <module>` with the modules and
configurations that `PROJECT.json` lists under `runs`, and `tlapm <module>.tla` with
the eight modules whose names end in `Proofs`. `PartsProofs` takes the theorems of
`CpuPllProofs`, `ExtractDtbProofs` and `LircReaderProofs` as proved there. The longest
run (`Parts`) takes about two minutes, the longest proof (`TftpProofs`) a few.
