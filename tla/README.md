# Verification of the fanatec-wheel rim firmware

TLA+ modules, TLC configurations and TLAPS proofs for the wheel-rim firmware in
`src/`. The rim (an STM32 under Zephyr) is an SPI *slave* of the wheel base: in
every transaction of 33 bytes the base clocks a frame of inputs out of the rim
and a frame of outputs (LEDs, seven-segment digits) into it. Everything else in
the firmware hangs on that exchange: what is in the armed frame when the base
starts, and what becomes of the frame it sent.

Paths below are relative to `src/`. Line by line correspondence is in
`PROJECT.json` under `map`.

## 1. The system

### Execution contexts

| context | priority | runs |
|---|---|---|
| `link_thread` (`app/src/link_spi.c`) | cooperative -2 | re-arm, SPI transfer, `rimlink_rx_submit` |
| `input_thread` (`app/src/input_svc.c`) | cooperative -1 | the 1 ms tick: sample, debounce, compose, publish |
| system workqueue | cooperative -1 | RX callback, LED render and quiet works, rail stale work, health commit, deferred start-up |
| `main` | preemptible 0 | start-up |
| shell (`diag_svc.c`) | preemptible | `rim ...` commands |
| CS-sense interrupt, `tick_timer` | ISR | re-arm miss, tick semaphore |

A cooperative thread runs until it blocks; it can be interrupted by an ISR only.
Every module takes its atomicity from this table: a handler of a cooperative
context is one step against contexts that are cooperative or lower, split where
it blocks; what the shell does is split at every access to shared memory if the
context it races can preempt it.

### Components

| component | state | operations | talks to | what makes it correct |
|---|---|---|---|---|
| rimlink adapter, TX (`lib/rimlink/rimlink_link.c`, `rimlink_frame.c`) | two frame buffers, armed index, `fresh`, `stale_cleared`, last publish, identity | publish, acquire (with the stale-input rule), identity, stats reset | input service (publish), link thread (acquire), shell | the frame under transfer never changes; the base gets the newest snapshot; an old press is not repeated |
| rimlink adapter, RX | message queue of 4, work item, counters | submit, work handler | link thread, output service | order, newest kept, losses counted, no lost wake-up |
| SPI link thread, CS sense (`link_spi.c`) | armed flag, LINK_READY, counters | init, loop, ISR | driver, adapter, base | LINK_READY is honest, misses are real, silent input side ends quiet |
| capture ring (`rimlink_capture.c`) | ring, write index, armed/frozen flags | record, note anomaly, start, stop, freeze, auto, dump | adapter hooks, shell | post-mortem shows the anomaly, dumps are complete and in order |
| input service (`input_svc.c`, `debounce.c`, `funky.c`) | debounce state, map, overrides, previous buttons and axis signature, hold counter | tick, publish decision, map/override | adapter, shell, settings | buttons current, no phantom, keep-alive beats the stale rule |
| encoders (`encoder.c`) | gray state, accumulator, delta | feed, consume | input service | no detent lost or invented |
| D-pad ladder (`dpad.c`) | thresholds, hysteresis, position | decode, calibrate | input service, shell | right window at once, no chatter |
| Hall clutches (`clutch.c`) | median, IIR, output, flags; mode, master, launch | feed, combine, mode chord | input service, shell, settings | ends reached, spikes ignored, one mode for all |
| settings (`rim_settings.c`) | values in RAM, lock, flash | set, commit, lock, load | shell, input service | acknowledged is durable, lock freezes |
| output, LED, power services (`output_svc.c`, `led_svc.c`, `power_mgr.c`) | last frame, dirty/quiet, timers, rail | RX callback, render, quiet, stale | workqueue, TM1637, LED strip | dark when stale, rate limit, no change lost, rail steady |
| health (`health.c`) | 64-bit totals, remembered 32-bit counters, flash | fold, commit, get, boot | adapter statistics, workqueue, shell | exact totals |
| start-up, watchdog (`main.c`, `rim_wdt.c`) | init order, armed watchdog | init functions, feed | all | services ready before use, no undeserved reset |
| CRC-8 (`rimlink_crc8.c`) | none | checksum, validate | adapter | the table is the polynomial's |
| haptics (`lra_svc.c`) | per-channel gate | cue | none: no device, no source | not modelled |
| diagnostic shell (`diag_svc.c`) | none of its own | commands | all | its state-changing commands are actions of the others |
| segment decoder (`seg7.c`, `decode_text`) | the text and its lock | encode, decode, copy | simulator, output service, shell | the text tells the field; it is the current one |
| TM1637 (`tm1637.c`) | the wires, and the chip's message, pointer, digits | init, brightness, set segments | output service at boot and on RX | an undisturbed call shows its text |
| latency statistics (`input_svc.c`) | ring, index, maximum | note, get | input thread, shell | the percentile is one that was measured |
| base simulator (`app/sim/src/main.c`) | fault and period, frame, statistics | transaction, verify, pause, `sim` commands | the rim over SPI, its shell | both sides' statistics reconcile |
| host tools, templates, tests | - | - | - | not modelled |

### What is hard here

 * A frame is read by hardware while other threads publish, and is chosen at a
   re-arm point whose distance from the next transaction the base determines.
 * Timers count different things: the stale rule counts milliseconds since a
   publish, the keep-alive counts served ticks, the semaphore merges ticks.
 * The workqueue carries the RX handler, three timers and flash commits: work
   items run late and in an order that depends on who expired first.
 * The shell writes what cooperative threads read, store by store and unlocked.
 * Counters wrap, filters truncate, axis signatures collide.
 * Flash writes fail one at a time, and power fails between any two.
 * The display's wires are driven by the boot and by the workqueue without a
   lock, and the chip keeps what a garbled message told it.
 * Two boards count the same transactions, and the bench wants the counts equal.

`PROJECT.json` lists these as 39 hazards, each at its line with the properties
that would catch it.

## 2. Modules

```
SnapshotRegister <--refines-- TxBuffer --proofs--> TxBuffer_proofs
                                ^  ^ ^
       Bench --> LinkSpi -------+  | +---- InputPublish <--- EncoderPath --> Encoder
         |                     MCTxBuffer        |                |
     Bench_proofs                                    EncoderPath_proofs
RxQueue --> RxQueue_proofs      Outputs --> Outputs_proofs
Display <--refines-- Tm1637
Units      = Crc8 | Dpad | ClutchChannel | Clutch | Buttons | InputPublish
    \--> Units_proofs
MCServices = CaptureRing | Settings | Health | Boot | Tm1637 | DispText | Latency
                Settings --> Settings_proofs --> Services_proofs
```

**TxBuffer** -- one action per function of the TX half, each under `lnk.lock`:
`snapshot_publish`, `tx_acquire` (its three outcomes `swap_staging`,
`clear_stale`, `repeat_frame` are the branches of the function),
`identity_set`, `stats_reset`, and `elapse` for the clock. A frame is the record
of identity and snapshot it was sealed from. `silence` is
`uptime - last_publish`, saturated one above the stale limit, where the code
can no longer tell values apart. `wire` is the link thread's pointer to the
buffer it handed to the peripheral.

**SnapshotRegister** -- what TX promises, without buffers: a register whose
reads return the newest snapshot, or a neutral one in its place when it has been
silent for too long. `TxBuffer!LatestDelivered` is the refinement.

**RxQueue** -- `rimlink_rx_submit` by outcome (valid, CRC error, short), the
drop-oldest insertion, and the work handler split where the callback may block.
Frames are numbered in order of arrival.

**LinkSpi** -- the loop of `link_thread` as a program counter over the
TxBuffer: acquire, arm, start, transfer, disarm, submit, backoff. `cs_fall`,
`last_byte` and `cs_rise` are the base; `cs_sense_isr` runs with the rising
edge. Other threads act only while the link thread blocks or has been woken and
waits (`Blocked`). Two facts of the driver are not decided by the repository: a transfer
armed after CS fell ends short, and the constant `AtLastByte` says whether a
full transfer completes at byte 33 or at the edge.

**Bench** -- the simulator's thread over `LinkSpi`: `run_transaction` composes a
frame with or without its fault, `select`, `clock`, `clock_more` and `deselect`
are the edges its `spi_transceive` makes, `verify` and `pause` count. `sim fault`
may come at any step, also between the choice of a fault and the jittered pause,
which reads `sim.fault` again. The rim's driver may fail a transfer, and the
simulator's its own. The actions of the two boards interleave freely.

**CaptureRing** -- hooks and shell commands; a dump takes one step per entry
because the link thread preempts it. The write index has its modulus (`WrMod`),
and a dump is only judged if nothing was recorded meanwhile (`dump_total`).

**InputPublish** -- the end of the tick: `publish_changed` or `keep_alive`, with
the one-byte axis signature and the semaphore of one place. Composed with
TxBuffer: the stale rule and `prev_buttons` act on the same frame.

**Encoder**, **EncoderPath** -- the quadrature decoder as operators, and a
detent's way from knob to base: sampled and published in the same tick,
overwritten by the next publish, read by the base in whatever order its polls and
the ticks come. A poll that finds nothing new gets the armed frame again. History
counts the slips of the two clocks: `skips`, ticks without a poll since the tick
before, and `repeats`, polls without a tick since the poll before.

**Buttons** -- the button word from debounced buttons through the map, D-pad
bits, funky switch with opposite-chord fault, overrides. A word is the set of
its bits.

**Dpad**, **ClutchChannel**, **Clutch** -- the decoder with its calibration
racing the input thread store by store; the filter chain on scaled integers
with the code's truncations; `dual_clutch_combine`, the mode chord, and the
shell's four stores. `torn` marks a chord that fell between two of them.

**Settings** -- setters, `rim save` key by key with failing writes, the lock,
power failure at any step, and a boot that loads what it can: any key may turn
out unreadable, the lock too, and with `settings_subsys_init` failing all of them
(`loaded`); the services then run with the defaults, unlocked. `unread` marks a boot
that could not read the lock.

**Display**, **Tm1637** -- what the display promises, digit by digit, and the
driver level by level with the chip at the other end of the wires. A call is its
parts (start, bytes, stop), each a sequence of levels, and where it is in them; the
boot's call runs in the main thread
without `CONFIG_RIM_FASTBOOT`, so that the workqueue's call may come between any two
of its levels. `Tm1637!Shows` is the refinement: a call that had the wires to
itself writes its text from left to right, whatever an earlier one left in the
chip.

**DispText** -- the segment table, both conversions, the simulator's encoder and
the text of `output_svc.c`, which a frame before `output_svc_init` may lose.

**Latency** -- the ring of latencies: the input thread notes while the shell
copies entry by entry, sorts by insertion and takes the percentile.

**Outputs** -- the workqueue as a sequence of items, delayable works as timers
that enqueue when they expire. `rx_handler` is `output_svc_rx` with its
consumers; `render_handler`, `quiet_handler` and the rail's stale handler are
the others. Other items occupy the queue for up to `STALL` ms.

**Health** -- folds of wrapping counters, commit, the shell's fold access by
access, reboots with or without the watchdog's flag, loads that fail. The
history variables say what the properties excuse: `overlapped` (a commit folded
inside the shell's fold), and `adrift` (the counters in RAM do not go on from those
in flash, because the load failed or the statistics were reset after such a fold).

**Boot** -- both orders of `main()` (`CONFIG_RIM_FASTBOOT`), init functions that
fail, frames that arrive as soon as the link is up, the watchdog armed in the
middle and fed by input ticks. Initialisation and commit take any time up to a
bound that exceeds the timeout; `slow` marks that one of them has taken it whole.

**Crc8** -- the table of the source, validation of a frame byte by byte, and
`AcceptsExactly`: a frame is accepted exactly if its checksum is the remainder
of its bytes under the polynomial, computed bit by bit. The exclusive or is
written out as the sum of the bits in which two bytes differ, so that it can be
reasoned about.

The `MC*` modules give constants and sample sets. `Units` (the input side and
the checksum) and `MCServices` put components that share no state beside each
other and let every behaviour run one of them. Their assumptions are checked
there: a module that is only instantiated states them as an operator
`Assumptions`.

## 3. Runs

| run | module | question | properties |
|---|---|---|---|
| `tx_buffer` | MCTxBuffer | does the double buffer hold its promises? | ClearedIsNeutral, ArmedFrameImmutable, StaleNotRepeated, LatestDelivered (refinement) |
| `rx_queue` | RxQueue | order, loss, wake-ups, progress | InOrder, NewestKept, NoLostWakeup, EventuallyApplied (liveness) |
| `link_spi` | MCLinkSpi | threads, driver, ISR and base interleaved | TransferImmutable, FailQuiet (liveness) |
| `bench` | MCBench | do simulator and rim count the same? | Reconciles, CountedOnce |
| `encoder_path` | MCEncoderPath | base and tick on independent clocks | Accounting, DetentsDelivered |
| `outputs` | Outputs | services on the shared workqueue | LitIsRecent, ShownIsLatest, RateLimited, RailSteady |
| `units` | MCUnits | input side and checksum | AcceptsExactly, ClearIsDecoded, NoChatter, EndsReached, SpikesIgnored, ModeAgrees, HeldIsReported, NoPhantom, NeverStale, AdapterFollows |
| `services` | MCServices | capture, settings, health, start-up, display, text, latency | DumpIsTail, PostMortem, AckedIsDurable, LockFreezes, ExactTotals, CommittedSurvives, DeferredIsSafe, ResetIsDeserved, Shows (refinement), TextTells, PercentileIsReal |
| `tx_buffer_stale` | MCTxBuffer | *violation* of StaleCleared | finding 1 |
| `encoder_path_lost` | MCEncoderPath | *violation* of NoDetentLost | finding 2 |
| `health_reset` | Health | *violation* of TotalsAreReal | finding 3 |
| `clutch_bite` | MCUnits | *violation* of BitePointHeld | finding 4 |

Each property of a passing run has a mutant of the code that violates it,
written next to the operator it mutates (marked `Mutant:`).

### Bounds

 * `TxBuffer`: `STALE_MS` 3 (50 in the code) and counters modulo 3. The code
   compares times only with the limit, so below, at and above it is all there is.
 * `RxQueue`: depth 3 (4), six valid frames: twice the depth, so the queue
   overflows repeatedly while the handler is at every point.
 * `LinkSpi`: `STALE_MS` 1, counters modulo 2, two snapshots. Wrap-around of the
   counters makes the state space finite, no step is cut off.
 * `Bench`: two transactions and one failure of the rim's driver, every first or
   second transaction faulty. Three things must meet for a count to be wrong (a
   transaction, a late re-arm, a fault), and two transactions let each of them
   fall into the one before or after. `CounterMod` 8 keeps the counters from
   wrapping, as a session does not reach 2^32. The
   simulator's own bus fails only before it selects the rim: a failure in the
   middle of a transaction is not modelled.
 * `CaptureRing`: depth 2, write index modulo 4, six records: the ring fills,
   wraps, and the index wraps.
 * `InputPublish`: keep-alive after 3 ticks (20), a tick up to 1 ms late, stale
   at 6 ms (50), the tightest limit `Assumptions` allows. The lateness is a bound
   on the code's surroundings, not on the code: a commit to flash on the workqueue,
   which the input thread does not preempt, can keep a tick waiting for longer, and
   `NeverStale` says nothing of that time.
 * `EncoderPath`: 4 quarter steps per detent in the passing run, 1 in the
   violation run; delta saturating at 1; nine quarter
   steps either way, one illegal transition; two skipped ticks and two repeated
   polls in any order, so that slips of both kinds follow each other.
 * `Settings`: two values per key, power failures and failing loads unbounded.
 * `Outputs`: rail and quiet after 5 ms, minimum period 3 ms, display 2 ms,
   a stall of 1 ms: the order of the limits is the code's, and a timer can
   expire before, with and after the frame that would have re-armed it.
 * `Dpad`: three thresholds on 0..31, three calibrations, one of them not
   descending; `ClutchChannel`: range 8..24 with guard 3, filter shift 2, slew 4,
   `SETTLE` 14 samples: after ten the filter's division leaves no more, and
   four steps of the slew limit cross the output's range (`MCSettles`). With the
   code's 12-bit samples and 64 per sample it is 27 and 4.
 * `Health`: counters modulo 2 so that they wrap, two events per boot, two boots;
   at most one commit of a boot meets the shell's fold.
   `link_counts` assumes that a counter does not turn around fully between two
   folds, which 2^32 transactions per minute justifies.
 * `Boot`: watchdog 4 periods, initialisation and commit at most 5 each: below, at
   and above the timeout.
 * `Tm1637`: two digits and two texts that differ in each of them, without
   fastboot: with it both calls are on the workqueue and cannot meet. Brightness
   and text are whole messages, 36 and 128 levels long, and the workqueue's call
   may begin at each of them.
 * `DispText`: four segment bytes in three digits: blank, a glyph, the same glyph
   with its dot, and an unknown pattern with a dot.
 * `Latency`: a ring of three, index modulo 6, so that the ring and the index
   wrap; the rank of 60 % lies inside the ring as that of 99 % does in 128.
 * `Crc8`: two data bytes and four error patterns, every length of frame.

### Fairness

`RxQueue!FairSpec` lets the workqueue run its pending item and the callback
return: the workqueue is a thread nothing starves for ever. `LinkSpi!Fairness`
is weak fairness of the link thread (highest priority in the system) and of the
start-up step that releases it. The base is not fair: `FailQuiet` has a base
that clocks whole frames again and again as its premise (`BasePolls`), and
assumes nothing of one that does not. All other specifications have no fairness
and only safety is claimed of them.

## 4. Findings

 1. **A snapshot that grew old unsent is sent with its inputs active**
    (`rimlink_link.c:98`). `rimlink_tx_acquire` tests `fresh` before the stale
    rule, so the rule sees only repetitions. The specification
    (`docs/phase1-software-spec.md:227`) and the header (`rimlink.h:186`) state it
    without this exception. What does hold is `StaleNotRepeated`: the second
    acquire is neutral.
 2. **Detents are lost when the base polls more slowly than the tick**
    (`input_svc.c:389`). The delta is consumed with each 1 ms tick and lives in
    that tick's snapshot, which the next overwrites. `docs/phases2-6-software-spec.md:111`
    asks for accumulation until the snapshot is composed and for zero loss; the
    simulator's base polls every 2 ms. What holds is `DetentsDelivered`: no more than
    one detent is lost per tick without a poll.
 3. **`rim reset` corrupts the persisted totals** (`health.c:55`). The reset clears
    the link's counters but not the values `health.c` remembers, and the next
    fold adds nearly 2^32.
 4. **The bite point is not held once the master is released in full**
    (`clutch.c:114`). Below the pulled threshold the branch for a single paddle takes
    over: the second paddle becomes the master and its position is the output.
    `clutch.h:73` and the comment at `clutch.c:121` have the output held at the bite
    point until the second paddle is released; the unit test
    (`tests/unit/app_logic/src/main.c:310`) releases the master to 40 of 255 only,
    above the threshold of 32.

Further disagreements are smaller, or rest on an assumption the repository does
not settle. TLC reports each of them as violated. Six have a configuration of
their own:

| configuration | module | property | why |
|---|---|---|---|
| `LinkSpiLastByte.cfg` | MCLinkSpi | MissIsReal | if the driver completes at byte 33, the link thread disarms before the CS edge and a served transaction counts as a miss |
| `LinkSpiLateArm.cfg` | MCLinkSpi | MissIsCounted | a transaction that met no armed transfer is not counted if arming comes before its end |
| `EncoderPathTwice.cfg` | MCEncoderPath | NoDetentTwice | a base that polls twice within a tick is sent the same frame twice, its detent included |
| `OutputsMirror.cfg` | Outputs | DisplayMirrors | `prev_disp` takes a value whose refresh is left out within 10 ms of the last (`output_svc.c:100`), and no later one makes up for it until the base changes the field: `docs/phase1-software-spec.md:235` has every changed field mapped. A refresh deferred by the interval would satisfy the property |
| `OutputsRearm.cfg` | Outputs | EveryFrameRearms | an expiry already queued is not taken back |
| `OutputsBanner.cfg` | Outputs | BannerCleared | nothing clears the boot banner after a second as the comment says; it stands until a frame with another text |

The others are definitions at the end of `Units` and `MCServices`, to be put in
the place of the properties of `MCUnits.cfg` and `MCServices.cfg`:

| module | property | why |
|---|---|---|
| MCUnits | BandKeepsPosition | a jump across windows of the D-pad ends inside a band |
| MCUnits | ModeAlwaysAgrees | the chord falls between two stores of the shell |
| MCUnits | SharedBitReported | of two buttons on one bit the later in the scan wins |
| MCUnits | ReleasedIsSilent | the directions are debounced as one mask |
| MCUnits | AxesChangeDriven | axes that change alike cancel in the signature and wait for the keep-alive |
| MCServices | RecordedSinceStart | `rim cap start` does not reset the count documented as since start |
| MCServices | NothingTwice | the commit's fold inside the shell's adds a difference twice |
| MCServices | PowerCyclesCounted | a power cycle within the first minute is not counted |
| MCServices | InitBeforeUse | a frame is handled before the services are initialised |
| MCServices | LitAfterBoot | the workqueue's call in the middle of the boot's garbles the command that lights the display |
| MCServices | TextIsCurrent | `output_svc_init` blanks the text of a frame that came first, and the field's repetition does not set it again |
| MCServices | LockAlwaysFreezes | a boot that cannot read the lock goes on without it, and `rim save` changes what was locked |
| MCServices | CommittedNeverLost | a boot that cannot load the totals counts from zero, and its first commit overwrites them |
| MCServices | ResetIsDeadInput | an initialisation or a commit as long as the watchdog's timeout resets a healthy rim |

A note on documents: `health.h:15`, `docs/code-standards.md:67` and
`docs/specs/steering_wheel_sw_spec.md:140` put the health commit on a
diagnostics workqueue; the code uses the system workqueue, and `Boot` and
`Outputs` model that.

## 5. Proofs

The modules `*_proofs` are checked by TLAPS for every value of the constants
under the assumptions named in the modules: a neutral snapshot exists; limits,
depths and moduli are natural numbers, those that divide or size something
positive; the keep-alive fits into the stale limit; every subtree of the
settings is a sequence of its keys; the thresholds of the D-pad are a sequence
within the range of the ADC; what is sent, shown or altered are bytes; the
display has at most the 16 digits its chip can address.

**TxBuffer.** `TypeCorrect` is inductive alone. `Invariant` adds
`ClearedIsNeutral` and `WireIsArmed`:

 * `ClearedIsNeutral` says that once `stale_cleared` is set, nothing is fresh and
   the armed frame is neutral. Without it the branch that repeats a frame because
   the rule has already fired could repeat anything, so
   `StaleNotRepeated` does not follow from the code's test alone.
 * `WireIsArmed` says that the peripheral reads the armed buffer, hence never
   the one a publish writes.

From these `ArmedFrameIsImmutable`, `StaleIsNotRepeated`, and
`ImplementsRegister`: initial states map to initial states, and each operation
maps to an operation of the register or a stutter. The lemmas
`PublishSparesArmed` and `AcquireCases` say once what publish and acquire do to
the buffers.

**RxQueue.** `IInv` is types, `Bounded`, `InOrder`, `NewestKept`,
`OverrunIsLoss` and `NoLostWakeup`. `InOrder` needs `NewestKept`: a new frame is
behind larger numbers only if the newest number is the last one queued. The
accounting carries over resets of the statistics through `lost_at_reset`.
Published as `OrderKept`, `NewestIsKept`, `WakeupNotLost` and
`OverrunCountsLoss`; lemmas state what dropping the head and appending do to
a sorted queue.

**LinkSpi, Bench** (`Bench_proofs`). `Owned` says that from the acquire on the
wire is the armed buffer and that `LINK_READY` is up between the arming and the
disarming only; `TransferWaits` that the driver has a transfer only while the
thread waits for it, without which an edge of the base could move the thread to
`disarm` from anywhere. From them `DriverBufferIsImmutable` (TransferImmutable)
and `ReadyIsHonest`. Nothing is assumed of when the driver completes.

The books of the two boards need more. `NotTwice`
counts what the thread still owes: from the edge until it has counted it, it has a
result, and the interrupt's miss and the driver's result exclude each other
(`Coupled`). `Session` are the simulator's own books, `Agreed` the rim's as long as
nothing was missed. From it `CountsOnce` and, at rest, `BooksReconcile`.
Both have `~AtLastByte` as hypothesis, and need it: with a driver that completes
at byte 33 TLC finds both violated, because the thread then disarms before the
edge and the interrupt counts a miss (`LinkSpiLastByte.cfg` shows the miss).

**InputPublish** (`Units_proofs`). `Timing` bounds the age of the newest snapshot by what the
code counts: each held tick stands for a pass of at most `1 + LATE` ms, and the
tick in the semaphore for what it has waited. With `HOLD * (1 + LATE) <= STALE_MS`
the stale rule is out of reach (`LiveIsNeverStale`), hence only a publish changes
what the adapter holds, and `Following` is inductive (`AdapterKeepsUp`). No
property of the axis signature is used. `UnitSteps` carries this and what follows
over to `Units`: a step of one component is a stutter of the others.

**Clutch** (`Units_proofs`). `Command` says which of the four stores of
`rim clutch` have brought settings and state machine together when the tick
interrupts them; a chord changes both sides at once, and only in the middle of the
stores does it spoil them (`torn`). It gives `SettingsAndClutchAgree`.

**Buttons** (`Units_proofs`). `Remembered`: the previous samples that the
debouncers keep are the sample before, of one scan and not of several.
`ScanComposes` says what a scan makes of two samples running; `HeldReachesTheWord`
and `WordIsExplained` are its two directions. The assumptions on the map are none,
so that they hold also where the shell has mapped two buttons to one bit.

**Dpad** (`Units_proofs`). `Decoding`: the thresholds are those of the settings as
far as the shell has stored them, and while it rests the position fits the last
sample that moved it or was clear. In the middle of the stores the thresholds may
not descend; `Window` therefore asks nothing of their order, and `PositionIsCut`
counts them only at rest. That thresholds which descend from each to the next
descend throughout is an induction; `DescendThroughout` makes it from the least
index that would be wrong (`LeastNumber`). `BandHolds` needs no memory of the
change: from the position that fits the last sample, every boundary a neighbour
within the band could cross is nearer to it than the band is wide.

**EncoderPath.** `Decoding`: between two ticks the decoder knows the level of the
knob, holds less than a detent, and its delta is consumed. `MovementAccounted`
follows for any divider and any saturation, since an illegal transition moves the
knob by two quarters that the decoder does not count. `EveryDetentDelivered` adds
`Delivery`: what is fresh holds at most one detent and is overwritten only by a tick
without a poll since the tick before, and a frame the base has received already holds
a detent only until the next tick. The latter needs that a detent changes the
signature, or else the frame would stay armed and be received again and again:
`SignatureAssumption`, which the XOR of `input_svc.c:419` meets.

**Outputs.** `Sound` ties the queue to the timers and the flags: an item is
queued at most once, a timer that runs has its item not expired, and a dirty
strip has its render item queued or timed. The quiet
timer is in one of three states (`LitInv`): it runs, for longer than the
renderer's (`Pending`); it has expired and its item waits behind whatever could
light the strip again (`Expired`); or it has put the strip out, and nothing lights
it before the next frame (`Dark`).
This gives `DarkWhenSilent`, `RateIsKept` and `ShowsSubmitted`; `Steady`, that
neither the rail's timer expires nor its item waits while frames come in time,
gives `RailStaysOn`. They hold for every setting of the times with
`LED_MIN_PERIOD_MS < LED_QUIET_MS` (17 and 200 in the code, `led_svc.c:31`); if the
two are equal, TLC finds `LitIsRecent` violated, because a render then outlives
the quiet item.

**Settings.** `LockHeld`: while a lock stands reported flash has it, so that no boot
undoes it for good, and so has RAM unless the boot could not read it; then no commit
of a subtree runs that began before it.
`CommitHonest`: a running commit has withdrawn what was reported of its subtree,
and what it asked for is stored unless a write failed. They give
`LockKeepsFlash` and `AckedStaysDurable`, and `Services_proofs` carries both over
to the composed specification (`SavedStaysSaved`, `LockIsKept`): beside the other
services the settings behave as they do alone (`SettingsAlone`).

**Health** (`Services_proofs`). `AddsUp` says what a total comes to when the
shell's fold, wherever it is, is over and the rest is folded: never less than was
counted (`NothingLost`), no more unless a commit was in the fold's way, and then by a
full turn of the counter at most (`NoMore`), and what the shell folds and what it
leaves are together what there is (`Split`). That nothing is lost when a commit
takes the shell's place is the triangle inequality of remainders (`NoShorterWay`):
folding from an older reading past a newer one never gives less than the direct way,
and a full turn more at most. One turn is all because at most one commit of a boot
meets the shell: an assumption of the model (section 3), justified by a minute between
commits. `TotalsAddUp` has `~StatsReset` as
hypothesis and needs it, which is finding 3. `Covered` orders flash, the totals in
RAM and what the shell is about to store, as long as RAM goes on from flash
(`~adrift`); `CommitsSurvive` follows, with resets of the statistics as well. `adrift`
is real: without it TLC finds `CommittedNeverLost` violated.

**ClutchChannel** (`Units_proofs`). How long the filter takes depends on the
constants, by a recurrence; the theorems therefore quantify over a schedule
(`Settles`): a sequence of distances, each no less than what the division leaves
of the one before, that ends below the divisor, and enough steps of the slew
limit. `MCSettles` checks that the one of the run is such. `WindowHolds`: but for
one lone spike the median's window holds the sample that is held, so the median
is that sample (`Majority`). `Filtered`: the filter is as near to it as the
schedule says; `Slewing`: from then on the output nears its target by the rate
limit. `PaddleArrives` needs `deadzone < OUT_MAX` (8 and 255 in the code), or
there would be no output at the far end, and that the filter's rest is within the
guard band (`Assumptions`).

**CaptureRing** (`Services_proofs`). `Turns`: the write index is the number of
records but for full turns of the ring, which survives its wrap because the depth
divides the modulus. `Window`: the newest records are each in their slot.
`Caught`: the frame that froze the ring is the newest. `Printing`: what a dump has
printed are the oldest entries the ring holds. The lemmas `SameSlot` and
`OtherSlot` say what is needed of remainders. They give `AnomalyIsCaptured` and
`DumpPrintsTail`, for every depth.

**Boot** (`Services_proofs`). `Ordered`: the initialisation is the first work item,
or is over before `main()` is done. `Served`: whatever comes before the next
service is initialised or was allowed to fail. With them a frame's item that runs
after `main()` finds rail and LEDs initialised (`FramesWaitTheirTurn`). `Timely`
bounds the time without a feed by the time the work that runs has taken, for the
initialisation and the commit begin right after a feed, or before the first. `Prompt`:
unless that time reached the timeout, a tick is served before the watchdog bites. Hence
`ResetsAreDeserved`, for any times of initialisation and commit. Whether they stay
below the 100 ms of `rim_wdt.c:60` is a property of the flash part, which the
repository does not state; if they do, `slow` is never set and only a dead input
service resets (`ResetIsDeadInput`).

**Latency** (`Services_proofs`). `Copied`: what a get is to sort has been noted,
whatever is noted meanwhile. `Ascends` and `Rearranged` are the insertion sort:
the first entries ascend, and until a tick comes they are those of the ring, each
once. An insertion is a rotation (`Came`), so that it loses and doubles nothing.
With `r` the rank the code takes, at least `r + 1` entries of the ring are then
not above the percentile (`FewAbove`, by cardinalities): `PercentileHolds`. That
the inner loop of the sort ends at a place is an induction, made from the least
index as for the D-pad.

**Display, Tm1637** (`Services_proofs`). `DriverInv` is inductive, and each level
set is a step of `Display` or a stutter. Its parts: `CallTypes`, that a call is one
of the driver's and somewhere in it; `Rests`, that any call, garbled or not, leaves
the wires at rest, because the stop that ends it does from whatever levels it finds;
`Alone`, what wires and chip are before each level of an undisturbed call
(`TextAt` for part and level of a text, `LightAt` for the brightness); `Lit`, that
the display is on unless a call of the boot was garbled. A byte reaches the chip
because eight bits make it up (`Bits`). `Rests` is needed for the second call, since
`Alone` begins with a start that only works on wires at rest. From it
`DriverShows`, the refinement, and with `RestShows` (what any implementation of
`Display` shows between two calls) `TextsAreShown`. The bound on the digits is
real: the chip's address counts modulo 16, and a longer text would overwrite its
beginning.

**DispText** (`Services_proofs`). That two fields never have one text is shown by
reading: a text is read in one way, glyph by glyph (`Read`, `Parse`). No glyph begins with a dot
or with an `x` (`GlyphOpens`), so that the end of a glyph can be seen: a `0` followed
by an `x` is the hexadecimal notation, and a dot belongs to the glyph before it.
The table of `seg7.c` gives no two patterns one character (`Rows`); that `5` and
`S` share a row concerns the encoder only. `TextInv` ties the text to the last field,
and `TextIsTelling` follows (`FieldTells`).

**Crc8** (`Units_proofs`). `Checks`: as long as nothing was altered the rim's
checksum is the sender's, and after one altered byte it is another, whatever bytes
follow. It needs that one byte of the division loses nothing: the exclusive or
cancels (`XorTells`, from the bits), a shift can be undone because the polynomial
sets the bit that a shift clears (`ShiftTells`), and so can eight
(`RemainderTells`). `TableIsRemainder` compares the 256 entries with the division,
which makes `FramesAreJudged` a statement about the table in the source.

Only model-checked is the liveness (`EventuallyApplied`, `FailQuiet`), which is
out of the prover's reach, as is `ENABLED`. The induction over data that the
provers cannot instantiate was not needed in the end: where a loop or a sort asks
for one, the least index that would be wrong makes it.

## 6. Not modelled

 * Haptics: the board has no device for `lra_svc`, `lra_svc_source_enable` has no
   caller, and so every call returns at its first test. A model would have no
   state to reach; it becomes worth writing with a source.
 * Rendering of LED bits to colours and brightness.
 * `power_mgr_fault`, mate and thermal events of `health`: no caller.
 * Conversions of the ADC with interrupts off (`input_svc.c:375`): a question of
   timing (hazard without property).
 * Statistics that nothing decides on: minimum and maximum of the CS gap, boot
   timestamps, chord faults, the counters of the output service.
 * Rates, profile, start and stop of the simulator: they change when a
   transaction comes, and in `Bench` it may come at any time. `sim leds` and
   `sim rumble` set bytes nothing else in the models reads.
 * Analogue behaviour: settling of the ADC, timing of the wires of the TM1637
   and its acknowledge, which the driver does not read.
 * All printing and parsing, host tools, templates, tests.

## 7. Plan

Done, in this order: TX with register and proofs; RX with proofs; link thread;
publish decision; encoder path; capture ring; settings; outputs; units; display
with its refinement; text; latency; simulator over the link thread; proofs of
link thread, publish decision, settings and display; of the two boards' books,
the encoder path, the outputs, the capture ring and the start-up; of the D-pad,
the dual clutch, the Hall channel and the button word; of the health counters, the
latency statistics, the display's driver and its text, and the checksum.

Next, extending the model: the meeting of `Boot` and `Outputs` (quiet and rail
works armed before their initialisation); haptics when the rim has a device.

Next, proving: every safety property of the runs is now a theorem. What remains
is what those theorems have as hypothesis where the repository could settle it
(when the driver completes a transfer), and the meeting of `Boot` and `Outputs`
once it is modelled.

## 8. Running it

    tlc -workers 2 -config TxBuffer.cfg MCTxBuffer.tla
    tlapm TxBuffer_proofs.tla

The table of section 3 names the module of each run; `PROJECT.json` its
configuration. The configurations of section 4 are run with the module in the
table.
