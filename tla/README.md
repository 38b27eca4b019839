# Verification of the EMANE emulator core

This directory is a TLA+ development of the Rust implementation of EMANE, the
extendable mobile ad-hoc network emulator (`rust/`): models of the parts that
carry its concurrency and its protocols, TLC configurations that check them on
small instances, and TLAPS proofs that the safety properties of eleven of them hold
for every value of their constants.

`PROJECT.json` is the index: components, runs, the source lines each definition
stands for, the hazards that the properties are aimed at, one plausible slip of
the code for every property, and the theorems.

To check: `tlc -config X.cfg M` for a run, `tlapm M.tla` for a proof module.

Contents: 1 the system, 2 its components, 3 the modules, 4 the runs, 5 bounds,
6 fairness, 7 proofs, 8 the finding, 9 what is left out, 10 the plan.

## 1. The system

An emulator process (`bin/emane.rs`) hosts a NEM, a stack of components: a
transport at the top, optional shims, a MAC and a PHY at the bottom. `NemManager`
(`nem_manager.rs`) loads each component from a library or builds it in, and puts
a queue (`nem_queued_layer.rs`) in front of it. Everything that reaches a
component is a call put into that queue and executed by the queue's own worker
thread, so a component runs one call at a time. The exceptions are start, stop
and post_start, which the main thread calls beside the worker; calls made before
the queue has started, which run on the caller's thread; and a transport's reader
thread, which calls its transport directly.

Calls come from five sides:

    neighbouring layers   upstream and downstream packets and control messages
    OTA worker            packets of other emulators, for the PHY
    event worker          events from the event channel, for every layer
    timer thread          timed events a component has scheduled
    control-port sessions configuration updates, one thread per connection

All of them look the layer up under a read lock of `Runtime`, copy its
invocation (function table, component, queue) and use the copy after the lock is
released.

## 2. Components: state, operations, what makes them correct

| Component | State | Operations | Hard part | Correct when |
|---|---|---|---|---|
| timer service (`timer_service.rs`) | heap, cancelled set, id counter, condition variable | schedule, cancel, the timer thread | callbacks and frees run with the mutex released; notification only for a new head | a context is freed once, no wakeup is lost, cancel is final, due timers fire |
| layer queue (`nem_queued_layer.rs`) | deque, event descriptor, cancel flag, lifecycle, callbacks | enqueue, start, stop, add/remove descriptor, worker loop | push and signal are separate; stop races both; direct calls race start | calls run once, in order, one at a time; stop returns and leaves quiet |
| OTA manager (`ota_manager.rs`) | sequence number, partial messages, check time | send (cut), receive (reassemble), cleanup, register, close | UDP loses, duplicates, reorders; a restarted sender reuses numbers | what is delivered is what was sent; complete messages are delivered; partials age out |
| runtime configuration (`native_configuration.rs`, handler in `nem_manager.rs`) | registry values, update lock, the component's own values | update, handler, rollback | a call that timed out still runs later; the queue may stop meanwhile; updates apply half | registry and component agree, or a client was told |
| emulator lifecycle (`nem_manager.rs`, `bin/emane.rs`) | layers, tables, services | add, open, start, stop, close, drop | every step can fail; threads call in meanwhile; some are never joined | start/stop paired, nothing used after it is destroyed, shutdown ends |
| RF-pipe MAC (`plugins/rfpipe`) | tokens, queue, end of transmission, expected wakeup, pending receptions, timers | process_downstream, process_upstream, process_timed_event, start, stop | a call is several critical sections; stop runs between them; timers fire late, superseded or cancelled | tokens conserved, a wakeup is always coming, one transmission at a time |
| TDMA model (`plugins/tdma`) | schedule, expected transmit slot, held receptions, queues by priority, reassembly store, timers | process_event, process_downstream, process_upstream, process_timed_event, start, stop | schedules change under armed and queued wakeups; start and stop beside the worker; slots against late timers; fragments | the chain of wakeups holds, a slot is used once, the earliest frame of a slot wins, packets come out as sent |
| 802.11abg model (`plugins/ieee80211abg`) | queues by category, the packet worked on and its phase, duplicate history, neighbours | downstream, upstream, timed event, neighbour events, start, stop | superseded wakeups, retries under one number, expiry in three places | tokens conserved, a wakeup is coming, a retried packet is passed up once, neighbours published are those known |
| bent-pipe model (`plugins/bentpipe`) | a queue per transponder, end of transmission, wakeup, reassembly, receive lock | downstream, relay, wakeup, upstream, receive, reassembly check, start, stop | relayed packets wake outside slots; fragments of two lives of a sender | packets come out whole, slots are kept, a queued packet has a wakeup |
| transport flow control (transport in `nem_manager.rs`; `flow_control_manager.rs`, `flow_control_client.rs`) | tokens on both sides, pending frames | read, put aside, spend, token update, release, start, stop; the confirmation of counts | three threads on one unguarded state; absolute counts against frames in flight | everything settles, both sides agree, no count wraps |
| boundary message manager (`boundary_message_manager.rs`) | one UDP or TCP endpoint, receive thread, buffer | open, connect, read, dispatch, send, close | reconnection in mid-message; close joins while its mutex is held; a send holds it without a time limit | layers are handed whole messages in order; close ends |
| comm-effect shim (`plugins/commeffect-shim`) | filters, profiles, end of reception per source, delayed copies | upstream, timed event, event, start, stop | overlapping receptions, delayed copies across a restart | rates, buffer, latency and jitter are kept |
| event generators (`generators/eel`) | two caches per loader, the record read ahead | read, load, publish, cancel | delta mode sends a change once; errors in mid-record; events too large | a layer knows what the published records say |
| event service (`event_service.rs`) | users, registrations, sockets | register, send, worker loop | delivery while users come and go | a registered user gets its events, nobody after it left |
| physical layer (`nem_manager.rs`, `antenna.rs`, `spectral_mask.rs`) | locations, pathloss, profiles, fading selections, gain cache, antennas | event, tune, upstream, downstream | a cache keyed by part of what it depends on | a packet is judged by the latest events |
| spectrum monitor, noise recorder (`spectrum_monitor.rs`, `noise_recorder.rs`) | wheels of bins by frequency, overlap caches by bandwidth and by mask | initialize, update, request | wrap-around of the wheel, re-tuning under caches, bins at the edge of a window | a window equals a direct sum of what was received |
| statistics and tables (`statistics.rs`, `rf_signal_table.rs`) | counters, averages, tables with generations | register, update, query, clear | a clear between the steps of a table update; two clients of one build | a query tells what happened since the last clear |
| neighbour and queue metrics (`neighbor_metric_manager.rs`, `queue_metric_manager.rs`) | three accounts of every neighbour, queue marks | receive, transmit, queue sample, report | reordered, repeated and lost frames, ageing | reports and open account make up what happened |
| OTA headers and routing (`nem_manager.rs`) | sequence numbers | route a packet locally and over the air | control messages rebuilt from headers on one way only | remote NEMs hear what local ones hear |
| plugin configuration (configure handlers of the MACs and the PHY) | fields of a component, values on record | update, refuse, restore | half-applied updates; fields that must fit together | a component has the values on record |
| file descriptor service (`file_descriptor_service.rs`) | descriptor registry | register, unregister, loop | unregister while a callback runs | no callback after unregister |
| control port (`control_port.rs`) | sessions | accept, request, reply | detached sessions | every request is answered |
| bypass, dummy and test layers, transports (devices), agents, XML, logging, other programs, Python tools | little or none | pass-through, parsing, I/O | – | – |

`PROJECT.json` gives for each of these whether it is modelled, and why not.

## 3. The modules

    TimerContract <--refines-- TimerService <--proofs-- TimerServiceProofs
    SerialExecutor <--refines-- NemQueuedLayer <--proofs-- NemQueuedLayerProofs
          ^---- used by ---- RuntimeConfiguration (MCRuntimeConfiguration)
                                   ^--proofs-- RuntimeConfigurationProofs
    OtaManager (MCOtaManager) <--proofs-- OtaManagerProofs
    EmulatorLifecycle <--proofs-- EmulatorLifecycleProofs
    RfPipeMac (MCRfPipeMac) <--proofs--+
    MCMacModels = Ieee80211Mac | BentPipe | NeighborMetrics <--proofs--+-- RadioModelProofs
    TdmaMac (MCTdmaMac) <--proofs--+
    TdmaQueues (MCTdmaQueues) <--proofs--+-- TdmaMacProofs
    MCUpperLayers = TransportFlow | FlowControl | BoundaryEndpoint | CommEffect | Scenario
          ^--proofs-- UpperLayersProofs (all but Scenario)
    MCAlgorithms  = PluginConfiguration | SpectrumMonitor (extends NoiseRecorder)
                    | PhyLayer | Statistics | OtaWire

`MCMacModels`, `MCUpperLayers` and `MCAlgorithms` instantiate several components and choose one of them in `Init`: a
behaviour is about one component, and the components do not interact there.
`MCTdmaQueues` instantiates `TdmaQueues` with its variables named apart from those of
`TdmaMac`, and `MCMacModels` does so for `RfPipeMac`, so that one proof module can
extend both.

In the modules, definitions headed `Slip:` are not part of any specification:
each is a form the definition after it would have after a plausible mistake, and
is there to show that a property would notice the mistake.

**TimerService** (`timer_service.rs`). Each action is one critical section of
the mutex, or the return of a callback made outside it: `Schedule` and `Cancel`
for any client at any time, `DiscardCancelled`, `Fire`, `CallbackReturns`,
`FreeReturns`, `WaitForHead`, `WaitForTimer`, `WaitTimesOut` for the loop of
`timer_thread`, with spurious wakeups of the condition variable and the clock as
environment. The heap is a set ordered by `Earlier`. History: how often each
context was freed, the timers a returned cancel named, the last firing.
**TimerContract** is what the owner of a timer sees: new, armed, running,
releasing, released; no heap, clock or thread. `ContractKept` maps one to the
other.

**NemQueuedLayer** (`nem_queued_layer.rs` and `Invocation::process` in
`nem_manager.rs`). A caller's push (`Enqueue`) and its write of the event
descriptor (`Signal`) are separate, as are the refusal and the caller's decision
whether to call directly (`Decide`), as are the three steps of stop. The worker's
loop is cut where the code can be overtaken: `Poll`, `ReadEventFd`, `Swap`, the
check of cancel (`Exit`, `KeepOn`), the batch, the descriptor callbacks.
**SerialExecutor** is what a component relies on: accepted calls begin in order,
one at a time, or are discarded oldest first while closing. `SerialExecution` is
the refinement.

**OtaManager** (`ota_manager.rs`). The sender cuts a packet into parts of
`PartSize` bytes (`Cut`); the network loses, duplicates and reorders; the sender
restarts with a new UUID and the same numbers; the receiver files parts under
source and sequence number, with the running total of their sizes that the code
keeps, drops an entry another message's part meets, delivers entries whose total is
right and whose parts follow each other without a gap, and runs the cleanup exactly where the loop does (not after a
mismatch, which takes an early `continue`). A byte is the triple of its message
and position, so a payload assembled from wrong parts is visible.

**RuntimeConfiguration** (`native_configuration::update`; the handler registered
by `add_layer_configured` in `nem_manager.rs`). A session goes lock, validate,
handler, answer or time limit, then registry or rollback. The handler's repeated
reads of the queue's lifecycle are separate steps. The queue is SerialExecutor,
used through INSTANCE: its actions are conjoined with what they mean here. A
component that rejects an update may have applied any acceptable part of it.

**EmulatorLifecycle** (`bin/emane.rs`, `NemManager`). The main thread from the
first `add_layer` to exit with the failure branch of every step; each layer's
queue as waiting, executing and worker; and the OTA, event, timer and session
threads, which look up, copy and use an invocation in separate steps. `Joined`
are the services whose threads are joined.

**RfPipeMac** (`plugins/rfpipe/src/lib.rs`). The worker's calls are cut at every
release of the MAC's mutex: admission, `drive_transmit` (decide, then send and
tell the tokens outside the lock), `schedule_transmit` (decide, arm, note the
id). start and stop run on the main thread between any two of these. `armed` is
the timer service's part and `fired` the timed events already in the layer's
queue, which cancelling no longer reaches. Delay with jitter and air time are
chosen per packet, since both can be reconfigured while running. A transmission is
decided on under the lock, which sets the end of transmission, and stamped by
`send_packet` with a second reading of the clock after the lock is released: `late`,
in a transmission sent, is the time between the two. By their stamps two transmissions
can overlap, and `OneAtATime` says by how much at most: what the first was stamped late.

**TdmaMac** (`plugins/tdma/src/lib.rs`). The time axis of the TDMA model, cut as
RfPipeMac is. `InstallSchedule` and `WithdrawTimers` are `process_event`;
`TxWakeup`, `TransmitSlot`, `PlanNextTx`, `Arm`, `NoteTimer` are the chain from
one transmit slot to the next; `Upstream` holds the frame of a receive slot and
arms the slot's end, `CompleteReceive` judges it; `PeriodicEvent` stands for the
reassembly check and the neighbour status. start plans, arms and notes its first
wakeup on the main thread beside all this. `raced` records that the worker took
start's wakeup before start had noted it: the wakeup is then dropped and start
notes a slot that never comes, so the MAC stays silent until the next schedule
event. `WakeupsComing` and `SlotUsedOnce` are stated for all other behaviours;
without the exception TLC shows the race.

**TdmaQueues** (same source). What the slots carry. Filling a slot is
`BeginSlot`, one `TakePart` or `DropTooBig` per packet and `SendFrame`, with
nothing in between, as under the mutex; the receiver unpacks a frame item by
item. A fragment carries the packet it was cut from and the life of its sender; an
entry of the reassembly store records, as history, the lives it has met and the longest
gap between two of its fragments.

**Ieee80211Mac** (`plugins/ieee80211abg/src/lib.rs`). A sending and a receiving
station. `drive` is the loop over the three phases of the packet worked on; its
rounds are steps that nothing comes between. Draws (collision, backoff, success)
are choices. Retries keep their first sequence number, which is what the
receiver's duplicate history, with its bound and its validity, has to cope with.
Each station has its own account of who was active: one that transmits notes itself,
one that hears another notes the other at the time the reception was acquired, and both
publish what they know.

**BentPipe** (`plugins/bentpipe/src/lib.rs`). One transmitting and one receiving
transponder with the air between them: filling a frame with whole packets and
fragments, transmission in slots, relaying (ubend), the receiver's lock on one
frame, reassembly with its timeout, restarts on both sides. The loop of
`dequeue_components` is described, not run: `Filling` is how full the frame is after
each packet of the queue, `Ends` is where the loop stops, and `Dequeued` takes what
lies before the first such place. `drive` decides under the lock, and the frame is
stamped afterwards with a second reading of the clock (`driving` is a call in between):
`SlotDiscipline` holds the decision to the slots, and bounds the overlap of two stamps by
the delay of the first. A transponder that is missing, or whose antenna is, drops out of
`drive` before it does anything.

**TransportFlow** (transport in `nem_manager.rs`, RF-pipe MAC). The reader
thread's look at the token count and what it does about it are separate steps;
its decrement may use the value it saw or the one that is there, which is what a
data race on that counter can produce. The worker's release of waiting frames is cut
in the same way: look at the count, take a frame, spend the token. stop clears tokens
and frames beside both of them, then cancels and joins the reader and stops the queues,
and the layers may be started again. The MAC's queue overflows as in RfPipeMac. `stranded` records that a frame was put
aside on a count that was out of date: it then waits for the next update, and
`FlowSettles` is stated with that exception.

**FlowControl** is the manager and client pair the library exports, with the
confirmation of counts. The client's `remove_token` only spends a token; the packet
is sent later by its caller (`in_hand`), with no lock between, so a count that is
confirmed meanwhile overtakes packets whose tokens are spent on the count before.
When it does, the two sides disagree, the 16-bit shadow count may wrap, and a client
without tokens may wait for ever: `overtaken` records it, `CreditsAgree` shows that it
is the only way, and that the next confirmed count that overtakes nothing sets all
of it right.

**BoundaryEndpoint** (`boundary_message_manager.rs`, `NemManager::start` and
`stop`). Units instead of bytes; a stream is read in chunks of any size and may be
lost at any point. The check of cancel and the read after it are separate steps, and
the read ends with data, an error or its time limit. Handlers and the layer's worker
send: they lock the endpoint, over TCP the stream too, and write, and a write to a
stream has no time limit. `stop` takes the mutex, clears the routes and joins the receive
thread. `CloseReturns` has the premise that the peer does not leave a write blocked
for ever, for then stop waits for the mutex as long. Under it, close returns when the
layer's queue runs and the receive thread is not itself running a handler; and in all
other cases either close returns or the code is in the one deadlock it has
(`Deadlocked`): a handler called directly, before the queue was started, waits for the
mutex stop holds, and stop's join waits for it.

**CommEffect** (`plugins/commeffect-shim/src/lib.rs`). The receiving side: filters and
profiles, the end of reception of each source, losses, duplicates, timed copies that
survive a stop, timers that cannot be scheduled. The plugin's stop clears its state
and the queue's stop follows later: what the queue still holds in between is
received by a stopped plugin.

**Scenario** (`generators/eel/native.rs`, its loaders, `event_service.rs`,
`run_generators`). One generator: a record is checked, a later time first publishes
the time before it, then the record is loaded into its loader's two caches.
Publication sends the delta or all, by multicast; datagrams may be lost, layers come
and go. An event that does not fit a datagram is dropped by
`send_event_multicast` without a word after the loader has forgotten the changes.
`missed` records who did not get an event; in full mode the next event clears it.
What the records mean is defined from the list of statements alone (`Meant`).

**PluginConfiguration** (configure handlers of the PHY and the MAC models, the
restore in `native_configuration.rs`). The handlers change fields one at a time
and check at the end that they fit; a refused update has applied a prefix. The
bent-pipe model keeps a value per transponder and cannot always restore: a field
that is `na`, or that a later update left out, has no value on record. `na` has this
meaning in the bent-pipe model alone; in the others -1 is a number like any other. Of
two values of a scalar parameter the handlers read the first (802.11 refuses an update
that has two), the registry records both. The registry refuses values of another type
than the one on record, or none at all, before it calls a handler. An accepted update of
the PHY sets up the spectrum monitor anew, and what it had recorded is gone (`recorded`).

**NoiseRecorder**, **SpectrumMonitor**. The wheel of bins as a function, receptions
in units of time and bins, powers as integer densities. The monitor's caches of
overlaps are kept: the one for masks is not emptied when the receiver is tuned
again, and `stale` records where that matters. `SpectrumTrue` compares each
answered window with a log of receptions (`heard`) that has for every frequency of
interest the power that fell into its own band. The code's loop over the recorders
(`spectrum_monitor.rs:525`) keeps one running sum, so a recorder is given what fell into
the bands of the lower frequencies too: `WindowsTrue` holds where no reception reached
two of them, and `TooMuchIsFromBelow` shows for the others that the excess is this
sum and nothing else.

**PhyLayer**. A gain, path loss or fade is the tuple of what it was computed from,
so using an out-of-date input is visible although no power is computed. The gain
cache is keyed by places and attitudes only: `GainsAreFresh` allows exactly the two
cases its key does not tell apart. A pathloss given for a frequency hides any later
general one (`PathlossSaid` says so). A packet is also refused where the fading
algorithm cannot be selected and where no path is left or no power arrives.

**Statistics** (`statistics.rs`, event and packet tables of the event service and
the OTA manager, neighbour tables of the radio models). Every call of the service is one
step; a count in a table is four, with clears in between. A layer sets, removes and clears
rows of its own table too. The RF signal table, unlike the scalars, takes a value that is
not finite, and its averages are not finite from then on. **NeighborMetrics**: three accounts per neighbour; frames
come in any order, repeatedly, or not at all (a part of `MCMacModels`, since radio
models keep it). A sender numbers its frames from 0, and an account begins as if 0 had
come: a frame 0 that comes after a later one therefore takes one off the missed frames
that was never added, which `MissedRight` names as the one deviation. **OtaWire**: a packet to the NEMs of the
same process as it is, to others as headers that are written and read again.

## 4. The runs

| Run | What it checks |
|---|---|
| `timer_service` | `ContextOwnedOnce`: no leak, double free or use after free over the three paths that free. `NoOversleep`: no lost wakeup. `CancelledNeverFires`. Liveness `TimersEnd`: due timers fire, cancelled ones are freed. Refinement `ContractKept`. |
| `nem_queued_layer` | `StoppedIsQuiet` (also after a restart), `WakeupComing`, `DirectNeverOvertakes` (the window between refusal and decision). Liveness `CallsAndStopEnd`. Refinement `SerialExecution`. |
| `ota_manager` | `ReassemblySound`: what is delivered is what was sent, partial messages age out. `SentIsDelivered`: with the excuses spelled out (a part lost, late, or met by another life of the sender). Under loss, duplication, reordering and a restart. |
| `runtime_configuration` | `RegistryIsTrue`: no silent divergence, late updates are undone, success means applied. Liveness `RequestReturns`, with no assumption on the queue. |
| `emulator_lifecycle` | `ServicesEndFirst`, `DestroyedIsQuiet`, `StartedIsStopped`, over every failure path. Liveness `ShutdownCompletes`. |
| `library_lifetime` | A violation: see section 8. |
| `rfpipe_mac` | `TokensAccounted`, `OneAtATime`, `TimersComing` (the wakeup the queue needs, the timer of every held reception, exactly one report timer, nothing left after stop), with overflow of the queue, flow control on and off, stop at every moment. Liveness `QueueDrains`. |
| `tdma_mac` | `WakeupsWhileStarted` (`WakeupsComing`, `SilentAfterStop`), `SlotsAreExclusive` (`SlotUsedOnce`, `EarliestWins`): schedules replaced and updated, stop at every moment, frames of one slot in any order. |
| `tdma_queues` | `QueuesSound` (`TokensKept`, `FinishedInOrder`), over overflow, packets too big, fragments, slots for one destination, packets before start; `ReassembledAsSent`, over lost frames, expiry, full schedules and a sender that restarts. |
| `mac_models` | 802.11: `WifiAccounts` (tokens accounted, a wakeup coming, table and event show the neighbours known). Bent-pipe: `BentSends` (a wakeup coming, and the action property that transmissions are decided on within the slots and, as stamped, overlap by the delay of the stamp at most). Metrics: `MetricsTrue` (reports and open accounts make up what happened, missed frames counted right under reordering, marks within their queues). `RadioDelivers`: a packet the 802.11 model sends again is passed up once, what the bent-pipe model passes up is whole. |
| `upper_layers` | `TokensAgree` (`FlowSettles` of the transport, `CreditsAgree` of the exported pair), `HandedWhole`, `EffectsKept`, `ScenarioFollowed`. Liveness `CloseReturns`. |
| `algorithms` | `ConfigurationFollows`, `SpectrumTrue`, `PhyFollowsEvents`, `StatisticsTrue`, `RemoteHearsAlike`: each of five parts against a direct definition of what it should answer. |

The type invariants of `TimerService` and `EmulatorLifecycle` are checked and
proved. `TypeOK` of `NemQueuedLayer`, `OtaManager` and `RfPipeMac` is proved and not
a run's property; `TypeOK` of `RuntimeConfiguration` holds on its instance, and its
proof uses `ConfigurationsOK`, `SessionsOK` and `LayerOK` in its place.

Some of the results deserve a word. `LateUpdatesAreUndone` holds because the
rollback of an update that timed out goes into the same queue behind it, under an
update lock that is held across both; it needs the queue not to be stopped or
started in between, and `NoSilentDivergence` says what remains true then.
`TimersComing` bounds the wakeup by what the head of the queue needs only while
the full queue has lost nothing: the packet lost may be the one the wakeup was
set for, and the packets behind it then wait for that wakeup although they were
ready before. `TokensKept` allows more tokens than the configured number in use
after start, by the packets that were queued before it: start sets the count to
the full number whatever waits. `ReassembledAsSent` allows a payload mixed from
two lives of a sender, because the key of the store does not tell them apart, but
only where each fragment came within the timeout of the one before; `WholeOrRecent`
of the bent-pipe model says the same of it.

Other exceptions in the properties are behaviours of the code that were found by
stating the property without them: a packet the bent-pipe model takes while stopped
has no wakeup until the next one comes; a packet longer than a window of the spectrum
monitor, or one whose bins at the edges exceed it, makes the monitor's request panic
(`stopped`); a table row that is being stored while the table is cleared keeps its
old count, and may exceed the limit by one; receptions more than the delete age
before a report are dropped from it; two transmissions of the RF-pipe or bent-pipe model
that overlap by what the first was stamped late; a count of the exported flow-control
pair that overtakes packets in hand; power of lower bands in the recorder of a higher
one; a frame 0 that comes late; the wait of stop for a handler that waits for stop's
mutex, and for a peer that takes no data; a restart of the 802.11 model forgets its
neighbours but leaves the rows and the event that showed them; and in delta mode a
NEM that missed an event is not told again. None of them contradicts a statement of
the repository, so none is listed as a finding.

## 5. Bounds

For the modules with a proof module the theorems of section 7 hold for every value of
the constants, the bounds included; there the runs' instances matter for liveness, and
for showing that the cases happen.

* `TimerService`: two timers, times 0..3, intervals 0, 1 and 2. Two timers are
  what the head and one below it need; an interval timer repeats within the
  clock's range.
* `NemQueuedLayer`: three calls, one descriptor. Three calls fill the batch, the
  queue and a caller's hands at once. Restart is unlimited.
* `OtaManager`: two shapes of packet, one of three parts across its sections and
  one of a single part (parts of two bytes). One number in each of two lives of the sender: the
  same key for two messages is the only way entries interact. Check every tick,
  timeout after two, three ticks.
* `RuntimeConfiguration`: two sessions, two updates of up to three parameters of
  which one cannot be modified and one has a value the component rejects.
* `EmulatorLifecycle`: two layers (first and last, and a neighbour to route to).
* `RfPipeMac`: a queue of two, one or three tokens (fewer and more than the queue
  holds), delays 0 and 2 so that packets overtake each other's ready times, three
  packets, so that the queue overflows while one is on the air. Past the last
  arrival the clock runs only while a timer waits for it; when all is done
  nothing is left to do, so deadlock is not checked in these runs.
* `TdmaMac` (one instance or the other is chosen in `Init`): schedules of one and two slots that transmit first, last, always and
  never, two of them of equal length so that one updates the other; two events,
  so that the second meets wakeups of the first; five units of time. For
  receptions a slot of two units, two frames that begin up to one unit before or
  after they arrive, and periods of 2 and 3.
* `TdmaQueues` (likewise): two classes and two destinations, three packets that fit a slot of
  two bytes or do not, queues of two, five settings that have every switch on and
  off. For reassembly one class, sizes 1 and 4, so that a packet aggregated behind
  another is cut in three, two lives of the sender, a timeout of two ticks. Both TDMA
  models stop at the end of their clocks and traffic, so deadlock is not checked.

* `Ieee80211Mac`: two categories with queues of one, a transmit opportunity and two
  tokens for three packets; or one category, two retries, a neighbour overheard and a
  restart. History of two, so that an entry is pushed out; validity of four ticks; four
  and five ticks in all.
* `BentPipe`: packets of one and three units against an mtu of two, so that one
  packet is cut and the next aggregated with its rest; slotted, relaying, and with a
  restart of either side; up to five ticks, which is two and a half slots of two.
* `NeighborMetrics`: one neighbour and the broadcast index, sequence numbers from 0 to
  three, so that a frame can come after its gap was reported, seven steps; a delete age
  of one tick; a queue whose size is reconfigured below its mark.
* `TransportFlow`: three tokens against a MAC queue of two, so that it overflows; three
  frames, counts modulo 8 in place of 2^16, so that a lost decrement can wrap; two starts.
  `FlowControl`: totals 1 and 2, two starts of each side, three packets.
* `BoundaryEndpoint`: headers of two units, messages of two, three and four units,
  over UDP and TCP, connection lost anywhere.
* `CommEffect`: two sources, two packets, one event, two or three ticks.
* `Scenario`: two NEMs, two times (a repair needs a second publication), three
  statements, events of at most two entries (so that one with three frequencies does
  not fit), one departure of a layer; every library alone in both modes, two together.
* `PluginConfiguration`: three updates after each other, of two parameters of
  each component or of one with two values, good, bad, of a wrong type and good only
  together.
* `SpectrumMonitor`: bins of two units, a window of two bins on a wheel of six, so that
  the wheel turns within three transmissions; one re-tuning, which half overlaps the old
  tuning.
* `PhyLayer`: three NEMs, five steps; `Statistics`: a table limit of one row, five
  steps, three clients of two builds, one of which also owns a table it removes rows from; `OtaWire`: four NEMs in three processes, two
  packets.

The selector modules and the TDMA, RF-pipe and OTA instances end when their packets,
steps or clocks do, so deadlock is not checked where that is so.

## 6. Fairness

Weak fairness only, of threads that are never blocked by the model's own rules:
the timer thread, its callbacks' return and the clock (`TimerService`,
`RfPipeMac`); a layer's worker, a caller between push and signal, a thread inside
stop (`NemQueuedLayer`); a session's thread, whose wait has a time limit
(`RuntimeConfiguration`: nothing is assumed of the queue); the main thread,
the return of calls into components and the joined services' loops, which have
receive timeouts (`EmulatorLifecycle`); the boundary endpoint's receive thread, whose
reads time out, the layer's worker that sends, and the thread inside stop
(`BoundaryEndpoint`; nothing is assumed of the peer, of new connections or of a write to
a stream: that no write stays blocked for ever is a premise of `CloseReturns`, which says
so). The other models are checked for safety only. Nobody is assumed to make a request,
send, schedule, cancel, stop or start.

## 7. Proofs

Each theorem holds for every value of the constants that satisfies the module's
assumption, and every invariant of a proof module was checked with TLC on the run's
instance before it was proved. The assumptions (`TimerAssumption`, `LayerAssumption`,
`OtaAssumption`, `ConfigurationAssumption`, `LifecycleAssumption`, `MacAssumption`,
`TdmaAssumption`, `QueuesAssumption`, `ModelsAssumption`, `UpperAssumption`) give the constants their types, and beyond that
only what the code has: intervals, slots, queues and packets are not empty; a message
is at least its header long; the values a component begins with are ones it accepts;
the MAC has at least one token, since with none flow control admits nothing; the slots
a bent-pipe transponder transmits in are slots of its frame; the broadcast address is
no neighbour, data rates are positive and a queue is never sampled deeper than its size.

**TimerServiceProofs**, for any number of timers, times and intervals.
The invariant is `TypeOK`, `ContextOwnedOnce`, `NoOversleep`,
`RevokedIsRecorded`, `FiringsSpaced`. The last two are what the action properties
need and no state invariant by itself says: a revoked timer that is in the heap
or running is still in `cancelled`, so the next critical section that meets it
sees it; a timer that fired is back in the heap at least one interval later.
`ContextOwnedOnce` and `NoOversleep` are inductive only together with `TypeOK`
(the thread holds an entry exactly while it runs a callback). Theorems:
`TypeCorrect`, `ContextsOwned`, `NoLostWakeup`, `CancelIsFinal`,
`IntervalIsKept`, `KeepsContract` (the refinement, step by step).

**NemQueuedLayerProofs**, for any number of calls, callers and descriptors.
`WakeupComing` speaks of a worker that sleeps; `WakeupOwed` says it of a worker
anywhere in its loop: what is in the queue, or a stop, has been signalled, or will
be, or the worker has still to look. `LifecycleAgrees` ties the lifecycle, the
cancel flag, the phase of stop and the worker together. `DirectIsOlder` holds
because a refused call was refused before the first one was accepted. For the
refinement the executor's calls are the batch followed by the queue, so that the
swap is a stutter and what stop discards is a prefix. Theorems: `Typed`,
`StoppedLayerIsQuiet`, `NoLostWakeup`, `DirectFirst`, `ImplementsSerialExecutor`.

**OtaManagerProofs**, for packets of any shape, any MTU and thresholds, any number
of packets and restarts. The code decides that an entry is complete by a running
total. The invariant `EntryOK` gives that total its meaning: it is the number of
bytes of the message that lie in a part held (`BytesHeld`), which a repeated part
does not change, since parts of one message are equal or do not overlap
(`PartAt`, `PartsApart`). So an entry whose total is that of its message holds every
byte (`CompleteIsWhole`), and one that holds every part is complete, its parts
following each other (`PartOfByte`, `PartBefore`, `LastPart`, `AllPartsComplete`).
`StoreOK` adds that an entry is of one message, filed under its number, and not
complete; `NoneMissing` that every part of a message neither delivered nor excused
is on its way or held; `AgesOK` and `ChecksOK` relate the age of entries to the last
check, and the last check to the last cleanup. Theorems: `TypesHold`,
`ReassemblyIsSound`, `SentArrives`.

**RuntimeConfigurationProofs**, for any sessions, parameters, values and component.
`LockHeld` gives mutual exclusion. The heart is `Undone`: as long as the queue is not
stopped or started in between, the last waiting call that concerns a parameter sets it
to the value on record, or with none waiting the component has that value, unless a
session has called for an update and not yet for its undoing. `ClientsTold` says who
has been told where that does not hold. It needs that the rollback goes into the queue behind the
call it undoes and that no other call comes between (`CallIsLast`), that the values
to be restored are ones the component accepts (`CanRestore`), and that the layer's
lifecycle and the queue's contents agree (`LayerAgrees`). Theorems:
`UpdatesAreExclusive`, `RegistryStaysTrue`.

**EmulatorLifecycleProofs**, for any number of layers. The properties are about
the end of the process, so the invariant has to say how far it has come at each
place of the main thread: `BuiltSoFar`, `StartedSoFar` (starting has started
exactly the layers before `at`, stopping has left none before it), `WorkersSoFar`
(a queue has a worker exactly when its component is started or being started),
`Paired` (`begun = ended \cup started`), `DestroyedLate`, `ServicesOff`. Steps of
the other threads leave the main thread's part alone (`Unmoved`); the steps of
the main thread move `at` by one layer (`NextLayer`, `LayersAbove`). Theorems:
`TypeCorrect`, `ServicesEnd`, `DestroyQuiet`, `StartStopPaired`.

**RadioModelProofs** holds the proofs of four components. RF-pipe, for any queue, tokens, delays, air times and traffic.
`MainAgrees` ties start and stop to the worker's place; `QueueInOrder` and
`SentInOrder` say that packets are numbered as they came and leave in that order,
each decided on after the end of the one before, from which the bound on the overlap of
the stamps follows; `TimersDistinct` that ids are not reused, so
that a superseded timer cannot be taken for the expected one. `WakeupKnown` is
`TimersComing` at every place inside a call, where the wakeup may be decided but not
armed, or armed but not noted; `ReceptionsKnown` and `ReportOnce` are the same for
receptions and the report. Theorems: `Typed`, `TokensConserved`,
`MediumCarriesOne`, `NoTimerIsLost`.

802.11 (`WifiInv`), for any categories, tokens, delays, retries, neighbours and
restarts: the balance of tokens holds inside a call too (`WifiTokens`: tokens and
packets in the MAC, counted by their places in queues and hands, make up the total), the
wakeup noted is armed (`WifiWoken`: arming and noting are one step, and a wakeup not
noted any more is not taken), a stopped station holds nothing (`WifiDown`) and one
never started has heard nobody (`WifiKnown`), which is why the exception of a restart in
`NeighborsPublished` suffices. Theorem: `WifiAccountsAlways`.

Bent-pipe (`BentInv`), for any mtu, rate, slots, frames of slots and traffic: the wakeup
noted is armed (`BentArmed`), every timer of a slotted transmitter carries the beginning
of a slot of its own or a time the relay asked for (`BentAligned`), and the end of
transmission kept is that of the last one of this life, counted from its decision
(`BentOrder`); `BentCall` says what a call between decision and stamp holds. `SlotDiscipline`
then is about one step: a call that comes before the slot's end is in the slot its timer
named. That rests on what `next_slot` returns, a least slot that is not past, and on
quotients (`Divided`, `Quotient`, `Multiples`, `Window`, `SameSlot`, `BentNextSlot`).
Theorem: `BentSendsAlways`, which states the invariant and the action property together.

Metrics (`MetricInv`), for any neighbours, rates, queues, delete age and order of
frames. The code counts missed frames from gaps between numbers and takes one off for a
frame that comes late; the invariant names what that counts. While a neighbour numbers
its frames regularly, the numbers received form a set with as many members as there
were receptions, up to the highest one, none of them still on its way (`Distinct`); so a
late frame closes a gap that was counted, unless it is frame 0, and `missed` is the
highest number less the receptions of other frames than 0. `ReportsRecent` ties the age of an account to the last report, which is why
receptions are lost only when reports are further apart than the delete age. Averages
stay between two rates of the frames they average (`RateRight`). Theorem: `MetricsAlways`.
The three invariants together are `ModelsInv` (`ModelsInvariance`).

**TdmaMacProofs**, for any slot length, schedules, periods, events and frames.
Timers first: ids are distinct and a noted one is known (`IdsOK`, `NotedOK`), a timer
does not fire before its time and its time is that of its slot (`TimesOK`, `ArmedOK`).
Then what the chain promises at every place of worker and start: the next transmit
wakeup (`WakeupPromised`), the end of every slot with a frame held (`EndsPromised`),
the periodic timers (`PeriodicPromised`), and what one call that stop overtook may
still do (`LateOK`). `SlotsOK` says that what was transmitted lies before the slot
expected next, `HeldOK` that a frame held lies in a slot not yet judged. That a
schedule which transmits has a next transmit slot is a least number; it is had from
the well-foundedness of the natural numbers (`Least`), since the induction theorems
cannot be used. Theorems: `WakeupChainsHold`, `SlotsCarryOne`.

The same module proves `TdmaQueues`, for any capacity, threshold, depth, tokens,
timeout, settings, classes, destinations, sizes, traffic and restarts. The invariant is
`QueuesInv`, the sender's part and the receiver's. `SenderOK`: each queue is in the order
of its sequence numbers and two queues share none (`InOrder`, `NoneShared`); what was
finished for a destination came before what waits for the same one (`TurnOK`), which is
what makes `FinishedInOrder` inductive although a slot for one destination takes packets
out of the middle of a queue; the tokens are counted by the places packets are in. Every
piece of a packet that exists anywhere (in the slot being filled, on the air, being
unpacked, in the store) was cut from a packet that came, and two pieces of one packet
are equal or do not overlap (`CutOK`); what is left of a packet lies behind every piece
cut from it (`RestOK`), so the next piece keeps that. `ReceiverOK`: a frame is of one life
of the sender; an entry that has met one life has the length of its packet (`EntryOK`);
and an entry met while a frame is unpacked is not older than the timeout (`RecentOK`),
which bounds the gap a mixed payload may have. That an entry judged complete has no gap
is had from the least offset not covered (`NoGap`). Theorems: `QueuesInvariance`,
`QueuesSoundAlways`, `ReassembledAlways`.

**UpperLayersProofs**, for the components of `MCUpperLayers` other than
`Scenario`. Transport: tokens and queue make up the total (`TokensPlaced`), the worker
has frames in hand whenever it spends their tokens (`WorkerHolds`), and a count that is
not the total has an update coming (`CountRight`), unless a frame was stranded; a stop
spoils the count, and the next start of the MAC brings the update.
Flow control: what the client may still send, packets in hand included (`Budget`), is
covered packet by packet by every count on its way that overtook none (`Covers`), so
after such a count is confirmed no count wraps. Boundary endpoint: what was received
and what is on the wire form one stream in which every unit has its place (`Placed`,
`StreamOK`) and, while the connection lives, every message is whole (`Whole`); reading
in chunks, taking the first message and losing the rest keep that. Comm-effect: nothing
of the present life was received after the end remembered for its source, and what is
reported as scheduled has a timed copy. Theorems:
`TokensComeRight`, `WholeMessages`, `EffectsAreKept`.

Only model-checked:

* everything live: `TimersEnd`, `CallsAndStopEnd`, `RequestReturns`,
  `ShutdownCompletes`, `QueueDrains`, `CloseReturns`. Fairness is out of the prover's
  reach. `TimersEnd` and `CallsAndStopEnd` join two liveness properties each;
* `RadioDelivers`: that a retried packet is passed up once is not true for every
  history size and validity, only where these outlast the retries; that a payload of
  the bent-pipe model is whole is stated with the sum of the lengths of its fragments,
  and how much a frame holds is a sum over its pieces, so a proof would be an induction;
* `ScenarioFollowed`: what the records mean is defined by overriding functions (`@@`)
  and by the last statement about a key, over the list of records; a proof would be an
  induction over that list;
* the properties of `algorithms`. `SpectrumTrue` compares sums over bins and over the
  log of receptions, again an induction; `ConfigurationFollows`, `PhyFollowsEvents`,
  `StatisticsTrue` and `RemoteHearsAlike` compare a component with a definition over the
  whole history of its calls, of which the instance is fixed in `MCAlgorithms`.

`IntervalKept` is proved (`IntervalIsKept`) and not checked on its own.

## 8. The finding

`library_lifetime`: `nem_manager.rs:332` says "The library must outlive every
function pointer and plugin instance." The timer thread and the control port's
sessions are never joined, and both use a copy of an invocation after the lock
under which they took it is released. TLC ends with such a thread holding the
invocation of a layer whose queue and library have been released. The window is
the end of the process.

## 9. What is left out, and why

* Timer service: a timer without a free callback (the only caller always gives
  one), the shutdown flag (never set), the clock stepping back.
* Layer queue: errors of epoll and of the descriptor calls; statistics.
* OTA: datagrams that no sender of this code produces, empty payloads, socket
  set-up, statistics tables; several sources (entries of different sources never
  meet, the key holds the source).
* Configuration: parsing and ranges of values (a value is acceptable or not),
  queries, framing of the control port.
* Lifecycle: the loader's checks, boundary endpoints, platform services that are
  not opened in a given configuration (opening is a step that may fail).
* RF-pipe: the probability curve and the random draw (whether a packet is
  accepted is a choice), packets rejected from below, statistics and neighbour
  metrics, a schedule call that returns 0.
* TDMA: parsing of schedule events, frequencies, rates and powers of slots (a slot
  transmits, receives or idles), the probability curve, statistics tables. All
  schedules have slots of one length: slot numbers count from 1970, so numbers of
  two lengths that are both near the present never coincide. Packets and events
  that are rejected are no steps. Fragments of the receiver come from one sender
  (the key holds the source), and the priority is taken to be the class.
* 802.11abg: the CTS answer of the receiver, which has no effect here; the
  interleaving of stop with a running call (it is RF-pipe's); the estimate of
  collisions (whether one happens is a choice). Bent-pipe:
  tables, other transponders of the node, the probability curve; within a call the clock
  moves only between decision and stamp.
* Transports: the device and the frames' contents. Comm-effect: the parsing of
  filters, and the way down, which adds a header and a number. Boundary: the encoding
  beyond the length.
* Physical layer: powers, antenna tables, fading draws; a value is the name of its
  inputs. Spectrum monitor: filters, reached only through the C interface. Powers are
  integers, so rounding is not modelled.
* Statistics: the C entry points for foreign statistics. Metrics: signal averages, minima, maxima.
* OTA headers: bytes; payloads never look like headers. Only the PHY registers with
  the OTA manager, and it always sends the antennas and itself among transmitters, so
  only such packets are tried, beside those without a radio header.
* Scenario: the text of records, the clock, several generators at once, events that
  overtake each other, a library loaded twice (two loaders that do not know of each
  other), a link of a NEM with itself.

### Not modelled

* Bypass, dummy and test layers: they pass calls on or produce test traffic and keep
  nothing a property could be about.
* The plugin interface (`emane-plugin-api`): types and conversions across the C
  boundary; its calls are the actions of the layers.
* Device input and output of the transports, the GPS agent, XML, the manifest and
  command lines, logging, build ids: input, output and parsing, with a mutex around a
  map where there is state at all.
* The C entry points beside the native ones (`emane_rs_*`, `#[no_mangle]`), which
  repeat the native operations for foreign callers that are not in the repository.
* The Python tools, which are clients of the emulator.
* Arithmetic in floating point, parsing and formatting throughout.
* How much memory is kept: a cancel of a timer that has already finished leaves its id
  in the cancelled set for good (`timer_service.rs:212`). Ids are not reused, so no
  later timer is hit, and no property here is about the size of the set.

## 10. Plan

Done: every component of section 2 that keeps state of its own has a module.

Left to model: the process-wide descriptor registry; several generators on one event
network; the composition of the timer service with a layer's queue as the environment
of the MAC modules, which each now have their own copy of it (`armed`, `fired`).

Proofs to add: `OtaWire` and `Statistics`. Each needs its own invariant (what a header
holds for each control message, what a table row counts between its four steps), and
its instance taken out of `MCAlgorithms`.
