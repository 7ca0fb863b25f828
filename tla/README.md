# Verification of Karaoke Anything

TLA+ models of the karaoke server (`app/`) and of the desktop client
(`client/`), the TLC configurations that check them, and TLAPS proofs about
both. A definition's place in the source is in `PROJECT.json` under `map`.

## 1. The system

Audio travels in a circle: the client captures packets and sends them to the
server over UDP, the server runs them through one processor, and sends the
output back to the client, which plays it. HTTP requests replace and reconfigure
the processor while audio flows.

| Component | State it keeps | Operations | What is hard about it |
|---|---|---|---|
| UDP ingress (`transport.py`) | the bounded `input_queue`, counters | `datagram_received` | a burst between two turns of the worker |
| Service (`service.py`) | `processor`, `processor_registry`, `settings`, `_processor_lock`, the worker task | start, stop, select, update, restore, reset, `_processing_loop` | code suspended in a processor while requests come in; failures halfway through a switch |
| HTTP interface (`main.py`) | none | handlers flatten a request and call the service | several in flight at once; settings read before an await |
| Registry, settings (`registry.py`, `config.py`) | factories that close over one `Settings` | `create` | a registry older than the settings; values checked in two places |
| Direct processors | at most a parameter | `process` | the delay sleeps with the lock held |
| Segment machinery (`segmented_inference.py`, used by HTDemucs and ConvTasNet) | input, active and ready packets, the inference task, the stream format, a frame counter | process, flush, reset | an inference that ends late, fails, returns too little, or is cancelled |
| MDX23C (`mdx23c_vocals.py`) | the same, bounded, plus the crossfade tail | process, flush, reset, stop | drops at the bound; a reset inside `process()`; threads that outlive their task |
| MDX23C adapter (`mdx23c.py`) | the model | load, infer | a device or precision the machine lacks |
| Client (`main.rs`, `network.rs`) | pending samples, a bounded channel, the playback queue, the `running` flag, sequence numbers | two audio callbacks, two network threads, the main thread | samples evicted under the playback callback; threads that die; shutdown; numbers that wrap |
| KANY codec (`kany.py`, `protocol.rs`) | none | encode, decode | written twice |
| Device selection (`device*.rs`) | none | choose devices and one format | two devices, each with a fallback, must end with one format |

They interact through the input queue (ingress to worker), the processor lock
(worker, requests, shutdown), the socket, the client's channel and its
mutex-protected playback queue. `PROJECT.json` lists every component, also those
not modelled, and 40 hazards with the line where each bites and the properties
that would catch it.

## 2. Modules

| Module | Models | State and actions |
|---|---|---|
| `LossyFifo` | nothing in the code: the abstract promise | `arrived`, `held`, `out`; one action that lets items arrive, leave in order, and get lost |
| `ControlPlane` | nothing in the code: what the control requests promise | the settings reported and the processor that serves, with its parameter; each request is one step |
| `TromboneService` | ingress, service, HTTP handlers, registry, lifespan | one variable per attribute; a handler runs through `pc`, its locals are in `request` |
| `RuntimeSettings` | schemas, flattening, validation, live and full updates, restore, select; constructors and `start()` of the processors as far as settings decide them | three `Settings` objects (startup, current, the registry's), the active processor's parameters; requests as in `TromboneService` |
| `Segments` | the arithmetic of segments | `RoundDiv` is Python's `round`; `PacketsTaken` the popleft loop |
| `SegmentedInference` | `segmented_inference.py` in full control detail | one action per call and per way out of it, plus the inference thread |
| `Mdx23cVocals` | `mdx23c_vocals.py`, with its callers | the same, plus who is suspended in `reset()`, orphaned threads, worker and `stop()` |
| `AudioClient` | `main.rs`, `network.rs` | one action per callback, per round of a thread's loop, and per step of the main thread |
| `Kany` | both codecs | operators on header fields and the length of a datagram |
| `Devices` | `device.rs`, `device_selection.rs` | operators; a result is a set, empty for an error |
| `Session` | client, network and server together | datagrams in flight in both directions and in the server, sender and receiver state |
| `MC...` | values of the constants | |
| `..._proofs` | theorems | see section 5 |

How `TromboneService` represents asyncio: `turn` is the task whose code runs, or
`"loop"`. An action that reaches an await that does not suspend leaves `turn`
with its task, so the next step is its own; an action that suspends gives `turn`
back. Whether an await suspends is read from the code: taking a free lock and
`get()` on a nonempty queue do not, loading a model, sleeping and awaiting a
cancelled inference do. The lock is the sequence of its owner and waiters. Every
processor ever created is an object with a phase, so that a replacement that
started and was never installed, or an installed one never stopped, can be seen.
The kind `"segmented"` is HTDemucs and ConvTasNet with packets instead of
frames; `SegmentedInference` has the frames, formats and error paths, and
`Mdx23cVocals` the third model, whose `reset()` inside `process()` would break
the assumption of `TromboneService` that a cancelled worker ends (see finding 3).

How `RuntimeSettings` divides the work with it: `TromboneService` has one live
parameter per processor and the whole media path; `RuntimeSettings` has every
field that a factory passes on, with the three places that check values (request
schemas, `_validate_runtime_settings`, constructors), and no packets. There the
worker appears as the chance that taking the lock suspends and that a flush
raises.

Composition. The two segment modules assume that calls come one at a time and
hold the lock; `TromboneService!LockDiscipline` is that guarantee, and is proved.
`LossyFifo` is implemented by four modules: the whole service (from datagram to
socket), each segment processor (from `process()` to what it yields) and the
client's capture path (from callback to socket). It says that nothing is
answered twice or out of order and that what was given up never comes back,
which is the documents' "silence rather than stale replay". `Session` in turn
uses the server as exactly that promise: its `held` gives up or answers
datagrams in order, through a processor that may change between any two of them.

`ControlPlane` is implemented by the service, and says what a client may rely on:
a request that selects, adjusts or replaces takes effect at one moment or never,
although in the code it is spread over a model load, a lock, a flush and the old
processor's `stop()`. The refinement mapping has one trick. A selection installs the
processor first and records its name only after the old one has stopped, so
`Reported` is the settings with the name that the selection in the lock is about to
record; the lock makes that selection unique. Whoever reads the settings in that
time sees the old name, and only then. `SettingsNameProcessor` (they name the
active processor while the lock is free) is a theorem of its own. With which parameter a selected processor serves the abstract specification leaves
open, because the code does (finding 1).

Abstractions. A datagram is its arrival number; samples belong to packets and
are not modelled, except in the client, where the position of a sample decides
the channel it plays on, and in `Session`, where the length must fit the header.
Timestamps, byte counters, `underruns`, the number of segments and the inference
timings are diagnostics without influence and are left out. In
`TromboneService` an update is any choice of valid values; which values are
valid, and for whom, is `RuntimeSettings`. There fractions are in percent,
durations in milliseconds, and a text is compared only with the values the code
compares it with.

## 3. Runs

All runs are exhaustive for their bounds.

| Run | Shows | Bounds and why they are enough |
|---|---|---|
| `service_path` | every datagram and every output is accounted for, the queue and its watermark, output destinations, lossy FIFO | 4 packets, queue of 2, segments of 2: the queue overflows, one segment waits while another runs, a switch or reset falls in every gap, one oversized datagram |
| `service_control` | lock discipline and no deadlock, switches and their failures, requests that are atomic; requests, packets and shutdown end | 2 creating requests at once over a segmented and a suspending processor, any number of live changes, 2 packets, a queue of 1, segments of 1: each request meets the other in every phase, and every suspension of the worker |
| `service_select_stale` | finding 1 | the same without packets |
| `settings` | active processor, registry and report agree with the settings | 2 handlers, 3 constructing requests, any number of live changes; eleven payloads (live parameters of two processors, several fields at once, a value the service refuses, a precision and a numbered CUDA device whose `start()` fails); six environments, of which one holds an invalid value of an unused group, one equal ConvTasNet indexes, and two end the server at once; no GPU |
| `session` | codecs agree, discontinuities reported, one format, capture order | sequence numbers modulo 3, so that 4 packets wrap; 2 datagrams in each direction and in the server, which is what reordering and repeating take; one stranger's datagram; eight rigs, of which four negotiate, one of them with packets too long for UDP; 1,536 headers for the decoders |
| `segmented` | counters, formats, nothing stale, lossy FIFO | 6 packets of 1 or 2 frames, two formats with segments of 2 and 3 frames, one reset: two segments in a row, overshoot, and failures of both kinds |
| `segmented_unbounded` | finding 2 | any limit falls; 4 of 6 packets shown |
| `mdx` | bound of the buffer and of all that is held, formats, nothing stale, drops counted, lossy FIFO | segments of 2 frames behind which 4 are kept, so of 7 packets 2 run, 4 fill the buffer and the last overflows it; a second rate whose segment rounds to 0 frames |
| `mdx_shutdown`, `mdx_orphan` | findings 3 and 4 | 3 packets |
| `client` | playback bound, whole frames, no replay, capture FIFO, errors reported, playback begins, shutdown ends | a limit of 6 samples, which is three frames, with packets of 2, 4 and 8: partial and complete eviction; a channel of 2 with 3 packets |
| `client_misaligned` | finding 5 | a limit of 5 samples |

TLC's deadlock check is off in every run: clients may stop sending, the bounds on
packets and requests run out, and the programs terminate. What deadlock would mean
for the service is an invariant, `NobodyStuck`: the task whose code runs can run
its next step, so can the owner of the lock while everything is suspended, and
`stop()` waits only for a worker that can end. It speaks of the guards of the
actions (`WorkerReady`, `HandlerReady`, `StopReady`), since `ENABLED` is beyond the
prover; if one of them promised a step that is not possible, the liveness
properties of the same run would fail.

What three of the properties do not say. `EveryProcessorConstructs` speaks of
what an update lets through: an environment with a bad value of a processor that
is not selected starts, and then every update and every `DELETE` answers with
an error until the field is set (two of the environments show it; no document
says otherwise). `AskedIsReported` takes an update as a statement about every
field as of the moment it began, which is what the code makes of it: of two
updates that compete the last to finish wins, also for the fields only the other
one changed. `OneFormat` of `Session` holds for a session with
`--packet-ms 200` because nothing is ever heard: the sender fails at its first
packet, which is longer than a UDP datagram.

### Fairness

`TromboneService`: the event loop runs every task that is ready (weak fairness of
the worker, of each handler that is not idle, and of `stop()` once it has begun),
and an inference thread returns. Requests, datagrams, failures and the shutdown
are never forced. That the lock is FIFO is modelled, so weak fairness suffices.
`Mdx23cVocals`: the same for a cancelled task and for `stop()`.
`AudioClient`: the threads are scheduled and the device keeps calling for samples.
Neither failures nor Ctrl-C are forced: they are outside the fair actions.
`RuntimeSettings`, `SegmentedInference` and `Session` have safety properties only
and state no fairness; a network that may lose everything owes nobody progress.

### Outside the source

The HTTP server runs the lifespan's shutdown only when no request is in flight
and accepts none afterwards (guards of `StopBegins` and `CanBegin`). asyncio's
lock is FIFO, and cancelling a task that awaits another task cancels that one
first. A thread started by `asyncio.to_thread` cannot be cancelled. A UDP socket
refuses a datagram of more than 65,507 bytes. No audio device offers a sample
rate of 0.

## 4. Findings

1. `service_select_stale`: a live change of a setting updates `settings` and the
   processor but not `processor_registry`; `select_processor` then builds with
   the old value while the settings report the new one. The theorem
   `LevelsMatchWithoutSelect` says that this is the only way they part.
2. `segmented_unbounded`: `_input_packets` grows without limit behind a slow
   inference, against "processor segment buffers must be bounded".
3. `mdx_shutdown`: `reset()` swallows the `CancelledError` meant for the worker
   that called it through `process()`; `service.stop()` then waits for ever. By the
   theorem `OneFormatStops` that takes two sample rates: while there is one, the
   worker has ended once `stop()` has begun.
4. `mdx_orphan`: after a reset the thread of the cancelled inference keeps
   running the model, next to the next segment.
5. `client_misaligned`: the playback limit is not rounded to whole frames, and
   evicting single samples swaps left and right, for instance at 22,050 Hz stereo
   with the default 250 ms. The theorem `WholeFrames` says that a limit of whole
   frames is enough.

## 5. Proofs

Every theorem holds for all values of the constants that satisfy the named
`ASSUME` of its module: any number of handlers, packets, requests and formats, any
queue, segment, limit or sequence space. `PROJECT.json` lists the theorems
with the properties they state.

**`TromboneService_proofs`**: types, `LockDiscipline`, `PacketsAccounted`,
`QueueBounded`, `OutputsAccounted`, `NobodyStuck`. The inductive invariant is
`IInv == TypeOK /\ WorkerHolds /\ LockDiscipline /\ StopOrder`. Types alone are
not inductive, because the worker processes `packet`, which is a datagram only
while it holds one (`WorkerHolds`). The lock needs `StopOrder` (once the worker
is cancelled no handler is active), because the cancelled worker leaves the lock
by dropping its head. `TurnInv` adds what makes `NobodyStuck` inductive: whoever's
code runs is at no await that is not over, the lifespan runs only to close, and
`stop()` has a worker that it has cancelled. The accounting theorems rest on one lemma per way of
counting and on the length of a sent batch.

**`ProcessorSwitch_proofs`**, on top of `IInv`: `OneServing`,
`SettingsNameProcessor`, `InstallsStarted`, `FailureChangesNothing`,
`FlushedBeforeStopped`, `LevelsMatchWithoutSelect`. `OneServing` is not inductive:
a request installs an object it constructed long before, so the invariant
`SwitchInv` also says that replacements in flight are fresh, started and
distinct (`ReplacementsInv`), that a request waiting for the old processor's
`stop()` installed the current one (`StoppingInv`), that between such waits the
settings name it (`NameInv`), and that requests run only while the service does
(`LifecycleInv`). `DrainedInv` adds that a replaced processor has nothing ready,
and `LevelInv`, under `Selectable = {}`, that the active level is the settings'.

The same module proves that requests implement `ControlPlane` (`RequestsAreAtomic`).
Each action is shown to be one abstract step or none: a `Switch` is `Select` or
`Replace`, a live change is `Adjust`, and the end of the old processor's `stop()`
is a stutter, because only one request can be between its two assignments
(`OneStopping`, from the lock) and `Reported` anticipates the second.

And it proves what the documents promise of the packets: `ServiceIsLossyFifo` and
`SenderNotOlder`. The invariant has to speak of all the buffers at once: `InLine`
says that outputs sent, packets ready, under inference, buffered and in the
worker's hands, and the input queue, read in this order, are in order of arrival;
`DirectInv` that an active object that is not segmented buffers nothing, and that
only such a one lets the worker sleep; that a replacement starts with nothing
buffered is `InstallsStarted`, so a switch can only lose packets. A
harvest, a launch and an output then leave the line as it is, a datagram is
appended to it, and a failure, a reset, a switch or a drop leaves a subsequence;
`Segments_proofs` has the lemmas about subsequences (what a choice of outputs, a
cut or a removal leaves is a subsequence, and a subsequence of a line in order is in
order). `SenderNotOlder` follows because an output goes to the sender of the packet
in hand, or of the last one received, which is behind it in the line.

**`RuntimeSettings_proofs`**: `ActiveUsesSettings`, `EveryProcessorConstructs`,
`AskedIsReported` and types, from `SettingsInv`, which has one conjunct per object: requests
in flight carry a candidate that was validated and a replacement made from it
(`RequestsInv`), the registry is the startup one or of valid settings
(`RegistryInv`), what was asked for is what is reported (`ReportedInv`). The key
lemma is that what the service validates, every constructor accepts.

**`SegmentedInference_proofs`, `Mdx23cVocals_proofs`**, with **`Segments_proofs`**:
types, `FramesConsistent` or `InputBounded`, `OneFormat`, `NothingStale`,
`PacketsAccounted` (MDX23C), and that both implement `LossyFifo`. The invariant
`SegInv` says that whatever is buffered was captured after the last reset and has
the stream's format (`OfStream`), which makes `OneFormat` and `NothingStale`
survive a reset that suspends; for MDX23C also that the task is a cancelled one
exactly while somebody waits in `reset()`, and that the packet with which the
worker waits there is not yet counted as lost. For the implementation of
`LossyFifo`, `OrderInv` says that what has left followed by what can still leave
is in arrival order; each step either leaves that sequence alone, appends the
new packet, or loses a part from the middle, and `Segments_proofs` has a lemma
for each. There is no induction over packets available to the provers: that
frame counts add up over `Append` and over a cut is proved by the least
counterexample (`LeastNumber`).

`MemoryBounded` (MDX23C, `HeldBounded`) bounds everything the processor holds,
processed packets in `_ready_output` included, though no line of the code bounds that
deque. The invariant `HoldInv` compares a step with the one before: a call of
`process()` that finds an output takes one packet and gives one, so the number of
packets held grows only while there is no output, and then all there is is a segment
that no packet exceeds needlessly (`Minimal`, `SegmentSmall`) and the bounded buffer.
Packets are counted in units of the shortest: `FewPackets` relates their number to
their frames. Segment length and bound are constants of an instance, as in the code: a
change of either constructs a new processor.

**`AudioClient_proofs`**: `PlaybackBounded`, `NoReplay` (a queue of consecutive
positions, through evictions), `ErrorReported` (`ThreadInv`: the main thread
reports after it joined), that the capture path implements `LossyFifo`
(`CaptureInv`), and types. `WholeFrames` assumes a playback limit of whole frames and
proves that evictions then remove whole frames, for every number of channels and
every packet and callback: by `FramesInv` what was received is whole frames, and so is
the queue, whose k-th sample is of the channel that k counts.

**`Session_proofs`**: the decoders agree on every datagram except those with a
sample rate of 0; what one side encodes the other decodes; `CodecsAgree`,
`DiscontinuitiesReported`, `OneFormat`, `InCaptureOrder`. `SessionInv` describes
each datagram in flight by the packet it came from; the receiver's expectation is
the number after the last packet heard, modulo any sequence space of at least 2.
`OrderInv` says that, as long as the network neither repeats nor reorders, what
was heard, is coming back, is in the server and is on its way there is in this
order.

Only model-checked: liveness under fairness (`RequestsEnd`, `QueueDrains`,
`StopEnds`, `PlaybackBegins`, `ShutdownEnds`), which the prover does not reach.
Every invariant and action property and every refinement that a passing run checks
is also a theorem, `FramesWhole` for a limit of whole frames, which is what the run
has. The types of both segment processors and of the client, and
`SettingsNameProcessor`, are theorems only.

## 6. Not modelled, and what remains

Not modelled: tensor code, that is inference itself, the blending of samples in
the crossfade and the model files of the adapter; the vendored network; the
offline tools (one-shot programs); the settings page, scripts and container
files; parsing of the environment and of the command line; read-only status and
metrics requests; `--list-devices`, which only prints. Two hazards
have no property; `PROJECT.json` says why.

What the properties permit, because the code does it and no document forbids it: an
output may go to a newer sender than the one of its packet (`SenderNotOlder`); of two
concurrent changes of one setting the last wins (`ImplementsControlPlane`,
`AskedIsReported`); a shutdown may end in an exception, which leaves the socket and
the model to the process's exit (`StopEnds`); a packet that meets a failed segment may
be lost with it (`ImplementsLossyFifo`); and the tail of a segment may be crossfaded
into one that follows a failed one (`NothingStale`, which is about resets).

What could be added: `SegmentedInference` and `TromboneService` abstract the same
code twice, in frames and in packets. An abstract specification of one segment
processor that both implement would join them, and a bound on the delay of a
packet, in segments, could be stated on it.
