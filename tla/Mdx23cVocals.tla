---------------------------- MODULE Mdx23cVocals ----------------------------
(***************************************************************************)
(* MDX23CVocalsProcessor, app/audio_trombone/processors/mdx23c_vocals.py:  *)
(* segments as in SegmentedInference, but the input is bounded, the oldest *)
(* packets are dropped beyond the bound, adjacent segments are crossfaded, *)
(* and a change of format resets the processor inside process().           *)
(*                                                                         *)
(* That reset suspends the worker while it awaits the inference it         *)
(* cancelled, so the module also has the callers: the worker, the handlers *)
(* that reset, and service.stop().  The processor lock admits one of them  *)
(* at a time (TromboneService!LockDiscipline).                             *)
(***************************************************************************)
EXTENDS Segments

CONSTANTS
  Formats,        \* sample rates that decode, as a stereo stream each
  NoFormat,       \* the stream format before the first packet
  Rate,           \* the rate in Hz of each
  FrameCounts,    \* frames a packet can have
  SegmentMillis,  \* segment_seconds, in milliseconds
  OverlapPercent, \* overlap
  MaxSegments,    \* max_buffered_segments
  MaxPackets,     \* bound: packets the worker hands over
  MaxResets       \* bound: resets by a request

ASSUME MdxAssumption ==
  /\ NoFormat \notin Formats
  /\ Rate \in [Formats -> Nat \ {0}]
  /\ FrameCounts \subseteq Nat \ {0}
  /\ SegmentMillis \in {250, 500, 750, 1000, 1500, 2000}
  /\ OverlapPercent \in 0..49
  /\ MaxSegments \in Nat \ {0}
  /\ MaxPackets \in Nat /\ MaxResets \in Nat

VARIABLES
  arrived,      \* packets handed over so far; the n-th one has number n
  input,        \* _input_packets
  inputFrames,  \* _input_frames
  active,       \* _active_packets
  ready,        \* _ready_output
  task,         \* _inference_task, with its outcome when it is done
  format,       \* _stream_sample_rate
  tail,         \* _previous_tail: the last packet of its segment, and its frames
  dropped,      \* dropped_packets
  lost,         \* packets refused, reset, or lost with a failed segment (history)
  orphans,      \* threads that still run an inference whose task was cancelled
  resetting,    \* who is suspended in reset()
  resets,       \* resets by a request so far
  resetAt,      \* packets handed over before the last reset (history)
  worker,       \* the processing loop goes on, or has ended
  shutdown,     \* where service.stop() is
  out           \* numbers of the packets released (history)

segmentVars == <<input, inputFrames, active, task, orphans>>
outputVars  == <<ready, tail, out>>
streamVars  == <<format, dropped, lost>>
resetVars   == <<resetting, resets, resetAt>>
callerVars  == <<worker, shutdown>>
vars == <<arrived, segmentVars, outputVars, streamVars, resetVars, callerVars>>

Target(f) == RoundDiv(Rate[f] * SegmentMillis, 1000)
Maximum(f) == RoundDiv(Rate[f] * SegmentMillis * MaxSegments, 1000)

NoTail == [last |-> 0, frames |-> 0]

Init ==
  /\ arrived = 0
  /\ input = <<>> /\ inputFrames = 0 /\ active = <<>> /\ ready = <<>>
  /\ task = "none" /\ orphans = 0
  /\ format = NoFormat
  /\ tail = NoTail
  /\ dropped = 0 /\ lost = 0
  /\ resetting = "nobody" /\ resets = 0 /\ resetAt = 0
  /\ worker = "looping" /\ shutdown = "no"
  /\ out = <<>>

-----------------------------------------------------------------------------
(* _harvest_inference                                                      *)

Idle == task \notin {"created", "running"}
Failing == task \in {"failed", "short"}

\* What _crossfade keeps of a segment for the next one: nothing if the overlap
\* rounds to no frame at all.
TailOf(packets) ==
  LET frames  == FramesOf(packets)
      rounded == RoundDiv(frames * OverlapPercent, 100)
      overlap == IF rounded < frames \div 2 THEN rounded ELSE frames \div 2
  IN  IF overlap = 0 THEN NoTail
      ELSE [last |-> packets[Len(packets)].number, frames |-> overlap]

\* (Mutant: the outputs go in front of those still waiting.)
HarvestedInFront == IF task = "done" THEN active \o ready ELSE ready
HarvestedReady == IF task = "done" THEN ready \o active ELSE ready

Harvested ==
  /\ ~Failing
  /\ tail' = IF task = "done" THEN TailOf(active) ELSE tail

HarvestFails ==
  /\ Failing
  /\ task' = "none"
  /\ active' = <<>>
  /\ UNCHANGED <<input, inputFrames, orphans, outputVars, format, dropped, resetVars,
                 callerVars>>

\* The segment attributes as a harvest that launches nothing leaves them.
NoLaunch ==
  /\ task' = IF Idle THEN "none" ELSE task
  /\ active' = IF Idle THEN <<>> ELSE active

-----------------------------------------------------------------------------
(* process(), called by the worker.                                        *)

Arrives ==
  /\ worker = "looping" /\ resetting = "nobody"
  /\ arrived < MaxPackets /\ arrived' = arrived + 1

\* The loop of _buffer_packet that drops the oldest packets, the new one too if
\* nothing else is left.  (Mutant: the counter is forgotten.)
Overflow(packets, f) ==
  CHOOSE n \in 0..Len(packets) :
    /\ FramesOf(After(packets, n)) <= Maximum(f)
    /\ \A m \in 0..(n - 1) : FramesOf(After(packets, m)) > Maximum(f)
Kept(packets, n) == After(packets, n)
DropsUncounted(n) == dropped
Drops(n) == dropped + n

\* (Mutant: the frames of the dropped packets stay counted.)
FramesKept(frames, gone) == frames
FramesLeft(frames, gone) == frames - FramesOf(gone)

Buffered(p) ==
  LET packets == Append(input, p)
      n       == Overflow(packets, p.format)
      kept    == Kept(packets, n)
      frames  == FramesLeft(inputFrames + p.frames, SubSeq(packets, 1, n))
      taken   == PacketsTaken(kept, Target(p.format))
  IN  /\ dropped' = Drops(n)
      /\ IF Idle /\ frames >= Target(p.format)
         THEN /\ task' = "created"
              /\ active' = SubSeq(kept, 1, taken)
              /\ input' = After(kept, taken)
              /\ inputFrames' = FramesLeft(frames, SubSeq(kept, 1, taken))
         ELSE NoLaunch /\ input' = kept /\ inputFrames' = frames

Released == Numbers(First(HarvestedReady))

\* (Mutant: the output that is yielded stays.)
RemainingAll == HarvestedReady
Remaining == Rest(HarvestedReady)

\* (Mutant: the format is never compared.)
AnyFormat(f) == TRUE
Compatible(f) == format \in {NoFormat, f}

Process(f, frames) ==
  /\ Arrives /\ Harvested /\ Compatible(f)
  /\ format' = f
  /\ Buffered([number |-> arrived', frames |-> frames, format |-> f])
  /\ ready' = Remaining
  /\ out' = out \o Released
  /\ UNCHANGED <<orphans, lost, resetVars, callerVars>>

\* Not a KANY packet, or not stereo: ValueError, after the harvest.
ProcessUndecodable ==
  /\ Arrives /\ Harvested /\ NoLaunch
  /\ ready' = HarvestedReady
  /\ lost' = lost + 1
  /\ UNCHANGED <<input, inputFrames, orphans, out, format, dropped, resetVars, callerVars>>

\* The harvest raises: this packet is lost with the segment.
ProcessFails ==
  /\ Arrives /\ HarvestFails
  /\ lost' = lost + 1 + Len(active)

-----------------------------------------------------------------------------
(* reset(), from process(), from a request, and from stop().               *)

Held == ready \o (IF Failing THEN <<>> ELSE active) \o input

\* (Mutant: the crossfade history survives.)
TailKept == tail
TailCleared == NoTail

\* The assignments at the end of reset(); `gone` more packets are lost.
Cleared(gone) ==
  /\ task' = "none"
  /\ active' = <<>> /\ input' = <<>> /\ inputFrames' = 0 /\ ready' = <<>>
  /\ format' = NoFormat
  /\ tail' = TailCleared
  /\ lost' = lost + gone + Len(ready) + Len(active) + Len(input)
  /\ resetAt' = arrived'
  /\ UNCHANGED <<dropped, out>>

\* The task is cancelled and awaited.  A thread that runs is not stopped by that;
\* a task that never ran started none.
CancelsInference(caller) ==
  /\ ~Idle
  /\ task' = "cancelled"
  /\ orphans' = IF task = "running" THEN orphans + 1 ELSE orphans
  /\ resetting' = caller
  /\ UNCHANGED <<input, inputFrames, active, outputVars, streamVars, resetAt>>

\* The format changed: process() resets, then raises ValueError for this packet.
\* Harvested or never launched, the inference is either gone or running.
ProcessFormatChange(f) ==
  /\ Arrives /\ ~Failing /\ ~Compatible(f)
  /\ \/ CancelsInference("worker")
     \/ Idle /\ Cleared(1) /\ UNCHANGED <<orphans, resetting>>
  /\ UNCHANGED <<resets, callerVars>>

\* POST /processor/reset
Reset ==
  /\ resetting = "nobody" /\ shutdown = "no" /\ UNCHANGED arrived
  /\ resets < MaxResets /\ resets' = resets + 1
  /\ \/ CancelsInference("request")
     \/ Idle /\ Cleared(0) /\ UNCHANGED <<orphans, resetting>>
  /\ UNCHANGED callerVars

\* The cancelled task has ended; the exception it raises, or that a cancellation
\* of the caller raises meanwhile, is swallowed.
ResetEnds ==
  /\ resetting # "nobody" /\ resetting' = "nobody" /\ UNCHANGED arrived
  /\ Cleared(IF resetting = "worker" THEN 1 ELSE 0)
  /\ shutdown' = IF resetting = "stop" THEN "done" ELSE shutdown
  /\ UNCHANGED <<orphans, resets, worker>>

-----------------------------------------------------------------------------
(* flush(), by a request that replaces the processor or changes settings.  *)

Flush ==
  /\ resetting = "nobody" /\ shutdown = "no" /\ Harvested /\ NoLaunch
  /\ task = "done" \/ ready # <<>>
  /\ out' = out \o Numbers(HarvestedReady)
  /\ ready' = <<>>
  /\ UNCHANGED <<arrived, input, inputFrames, orphans, streamVars, resetVars, callerVars>>

FlushFails ==
  /\ resetting = "nobody" /\ shutdown = "no" /\ HarvestFails
  /\ lost' = lost + Len(active)
  /\ UNCHANGED arrived

-----------------------------------------------------------------------------
(* The inference, and the thread it runs in.                               *)

\* The task gets its first turn.  Without packets packets[0] raises IndexError
\* before the thread starts.
InferenceBegins ==
  /\ task = "created"
  /\ task' = IF active = <<>> THEN "failed" ELSE "running"
  /\ UNCHANGED <<arrived, input, inputFrames, active, orphans, outputVars, streamVars,
                 resetVars, callerVars>>

InferenceEnds ==
  /\ task = "running"
  /\ task' \in {"done", "short", "failed"}
  /\ UNCHANGED <<arrived, input, inputFrames, active, orphans, outputVars, streamVars,
                 resetVars, callerVars>>

OrphanEnds ==
  /\ orphans > 0 /\ orphans' = orphans - 1
  /\ UNCHANGED <<arrived, input, inputFrames, active, task, outputVars, streamVars,
                 resetVars, callerVars>>

-----------------------------------------------------------------------------
(* service.stop()                                                          *)

\* worker_task.cancel() ends the worker wherever it waits, except in reset(),
\* which takes the CancelledError for the one of the inference.
StopBegins ==
  /\ shutdown = "no" /\ resetting \in {"nobody", "worker"}
  /\ shutdown' = "joining"
  /\ worker' = IF resetting = "worker" THEN "looping" ELSE "ended"
  /\ UNCHANGED <<arrived, segmentVars, outputVars, streamVars, resetVars>>

\* The worker has ended: flush, and processor.stop(), which resets.
StopProcessor ==
  /\ shutdown = "joining" /\ worker = "ended" /\ resetting = "nobody"
  /\ \/ /\ Failing /\ shutdown' = "raised"
        /\ task' = "none" /\ active' = <<>>
        /\ lost' = lost + Len(active)
        /\ UNCHANGED <<input, inputFrames, orphans, outputVars, format, dropped, resetVars>>
     \/ /\ ~Failing /\ Idle /\ shutdown' = "done"
        /\ task' = "none" /\ active' = <<>> /\ input' = <<>> /\ inputFrames' = 0
        /\ ready' = <<>> /\ tail' = TailCleared /\ format' = NoFormat
        /\ out' = out \o Numbers(HarvestedReady)
        /\ lost' = lost + Len(input)
        /\ resetAt' = arrived
        /\ UNCHANGED <<orphans, dropped, resetting, resets>>
     \/ /\ ~Idle /\ shutdown' = "resetting" /\ resetting' = "stop"
        /\ task' = "cancelled"
        /\ orphans' = IF task = "running" THEN orphans + 1 ELSE orphans
        /\ out' = out \o Numbers(ready) /\ ready' = <<>>
        /\ UNCHANGED <<input, inputFrames, active, tail, streamVars, resets, resetAt>>
  /\ UNCHANGED <<arrived, worker>>

-----------------------------------------------------------------------------
Next ==
  \/ \E f \in Formats, n \in FrameCounts : Process(f, n)
  \/ \E f \in Formats : ProcessFormatChange(f)
  \/ ProcessUndecodable \/ ProcessFails
  \/ Reset \/ ResetEnds
  \/ Flush \/ FlushFails
  \/ InferenceBegins \/ InferenceEnds \/ OrphanEnds
  \/ StopBegins \/ StopProcessor

\* The event loop runs what is ready: a cancelled task ends, and stop() goes on.
Fairness == WF_vars(ResetEnds) /\ WF_vars(StopProcessor)

Spec == Init /\ [][Next]_vars /\ Fairness
-----------------------------------------------------------------------------
(* Properties.                                                             *)

Packet == [number : 1..MaxPackets, frames : FrameCounts, format : Formats]

\* The values the attributes of the processor and of its callers range over.
TypeOK ==
  /\ arrived \in 0..MaxPackets
  /\ input \in Seq(Packet) /\ active \in Seq(Packet) /\ ready \in Seq(Packet)
  /\ inputFrames \in Nat
  /\ task \in {"none", "created", "running", "done", "short", "failed", "cancelled"}
  /\ format \in Formats \cup {NoFormat}
  /\ tail \in [last : 0..arrived, frames : Nat]
  /\ dropped \in 0..arrived /\ lost \in 0..arrived /\ orphans \in Nat
  /\ resetting \in {"nobody", "worker", "request", "stop"}
  /\ resets \in 0..MaxResets /\ resetAt \in 0..arrived
  /\ worker \in {"looping", "ended"}
  /\ shutdown \in {"no", "joining", "resetting", "raised", "done"}
  /\ out \in Seq(1..MaxPackets)

\* The frame counter is the frames of the buffer, and both are "bounded to three
\* segments" (docs/mdx23c.md), however slow the inference.
InputBounded ==
  /\ inputFrames = FramesOf(input)
  /\ format = NoFormat \/ FramesOf(input) <= Maximum(format)

\* "Processor segment buffers must be bounded" (docs/architecture.md): nothing
\* bounds _ready_output by itself, but whatever the inference and the packets are
\* like, all the packets held, the processed ones too, number no more than packets
\* of the shortest kind that fill the bound, a segment, and the rest of one packet.
HeldBounded ==
  \A k \in FrameCounts :
    (\A n \in FrameCounts : k <= n) /\ format # NoFormat =>
      (Len(ready) + Len(active) + Len(input)) * k < Maximum(format) + Target(format) + k

\* A segment and the buffer behind it have one format, the stream's.
OneFormat ==
  \A q \in {input, active} : \A k \in 1..Len(q) : q[k].format = format

\* Neither packets nor crossfade history from before a reset, or from before a
\* change of format, take part in anything after it.
NothingStale ==
  /\ \A k \in 1..Len(Held) : Held[k].number > resetAt
  /\ tail # NoTail => tail.last > resetAt

\* Every packet is released, held, counted as a drop, or lost to an error or a
\* reset: dropped_packets counts exactly what the bound removes.
PacketsAccounted ==
  resetting = "nobody" =>
    arrived = Len(out) + Len(ready) + Len(active) + Len(input) + dropped + lost

Fifo == INSTANCE LossyFifo WITH held <- Numbers(Held)

\* Packets are released at most once and in order, whatever is dropped between.
ImplementsLossyFifo == Fifo!Spec

\* "Reset cancels inference" (docs/mdx23c.md): a thread runs only for the segment
\* under inference.
CancelledStops == orphans = 0

\* service.stop() comes to an end, with or without an exception.
StopEnds == shutdown = "joining" ~> shutdown \in {"done", "raised"}
=============================================================================
