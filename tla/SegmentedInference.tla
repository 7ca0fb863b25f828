------------------------- MODULE SegmentedInference -------------------------
(***************************************************************************)
(* The segment machinery HTDemucs and ConvTasNet share,                    *)
(* app/audio_trombone/processors/segmented_inference.py: packets are       *)
(* collected into a segment, a thread runs the model on it, and one        *)
(* processed packet leaves per packet that arrives.                        *)
(*                                                                         *)
(* The service calls process(), flush() and reset() one at a time, holding *)
(* its processor lock (TromboneService!LockDiscipline), so a call is one   *)
(* step unless it suspends; only reset() does, for an inference it         *)
(* cancels.  The samples are abstracted to the packet they belong to.      *)
(***************************************************************************)
EXTENDS Segments

CONSTANTS
  Formats,        \* stream formats that decode and that the model accepts
  NoFormat,       \* the stream format before the first packet
  Rate,           \* sample rate of each
  FrameCounts,    \* frames a packet can have
  SegmentMillis,  \* segment_seconds, in milliseconds
  BufferLimit,    \* packets allowed to wait for inference (stated, not enforced)
  MaxPackets,     \* bound: packets the service hands over
  MaxResets       \* bound: resets

ASSUME SegmentedAssumption ==
  /\ NoFormat \notin Formats
  /\ Rate \in [Formats -> Nat \ {0}]
  /\ FrameCounts \subseteq Nat \ {0}
  /\ SegmentMillis \in Nat \ {0}
  /\ MaxPackets \in Nat /\ MaxResets \in Nat

VARIABLES
  arrived,      \* packets handed over so far; the n-th one has number n
  input,        \* _input_packets
  inputFrames,  \* _input_frames
  active,       \* _active_packets
  ready,        \* _ready_output
  task,         \* _inference_task, with its outcome when it is done
  format,       \* _stream_sample_rate and _stream_channels
  lastError,    \* last_error is set
  resets,       \* resets so far
  resetAt,      \* packets handed over before the last reset (history)
  out           \* numbers of the packets released (history)

segmentVars == <<input, inputFrames, active, task>>
resetVars   == <<resets, resetAt>>
vars == <<arrived, segmentVars, ready, format, lastError, resetVars, out>>

\* _target_segment_frames
Target(f) == LET frames == RoundDiv(Rate[f] * SegmentMillis, 1000)
             IN  IF frames = 0 THEN 1 ELSE frames

Init ==
  /\ arrived = 0
  /\ input = <<>> /\ inputFrames = 0 /\ active = <<>> /\ ready = <<>>
  /\ task = "none"
  /\ format = NoFormat
  /\ lastError = FALSE
  /\ resets = 0 /\ resetAt = 0
  /\ out = <<>>

-----------------------------------------------------------------------------
(* _harvest_inference, with which process() and flush() begin.             *)

\* A result of the wrong length is an error as well, found while distributing.
Failing == task \in {"failed", "short"}

\* _distribute_segment_output and _finish_segment, when the task is done.
\* (Mutant: the outputs go in front of those still waiting.)
HarvestedInFront == IF task = "done" THEN active \o ready ELSE ready
HarvestedReady == IF task = "done" THEN ready \o active ELSE ready
Idle == task # "running"

\* The error paths clear the active packets; only one of them sets last_error.
HarvestFails ==
  /\ Failing
  /\ task' = "none"
  /\ active' = <<>>
  /\ lastError' = (lastError \/ task = "failed")
  /\ UNCHANGED <<input, inputFrames, ready, format, resetVars, out>>

Harvested ==
  /\ ~Failing
  /\ lastError' = (lastError /\ task # "done")

-----------------------------------------------------------------------------
(* process()                                                               *)

Arrives == task # "cancelled" /\ arrived < MaxPackets /\ arrived' = arrived + 1

\* _launch_segment, on the buffer with the new packet in it.  (Mutant: the
\* frames of the launched packets stay counted.)
FramesKept(frames, packets) == frames
FramesLeft(frames, packets) == frames - FramesOf(packets)
Taken(packets, f) == PacketsTaken(packets, Target(f))

Buffered(p) ==
  LET packets == Append(input, p)
      frames  == inputFrames + p.frames
      n       == Taken(packets, p.format)
  IN  IF Idle /\ frames >= Target(p.format)
      THEN /\ task' = "running"
           /\ active' = SubSeq(packets, 1, n)
           /\ input' = After(packets, n)
           /\ inputFrames' = FramesLeft(frames, SubSeq(packets, 1, n))
      ELSE /\ input' = packets
           /\ inputFrames' = frames
           /\ task' = IF Idle THEN "none" ELSE task
           /\ active' = IF Idle THEN <<>> ELSE active

\* (Mutant: the format is never compared.)
AnyFormat(f) == TRUE
Compatible(f) == format \in {NoFormat, f}

\* The one output process() yields, if there is one.
Released == Numbers(First(HarvestedReady))

\* A packet is buffered, perhaps completes a segment, and one output leaves.
Process(f, frames) ==
  /\ Arrives /\ Harvested /\ Compatible(f)
  /\ format' = f
  /\ Buffered([number |-> arrived', frames |-> frames, format |-> f])
  /\ ready' = Rest(HarvestedReady)
  /\ out' = out \o Released
  /\ UNCHANGED resetVars

\* _decode_and_validate raises, or _accept_stream_format does: the packet is not
\* buffered, and the output that the harvest made ready stays ready.
Refused ==
  /\ Arrives /\ Harvested
  /\ ready' = HarvestedReady
  /\ task' = IF Idle THEN "none" ELSE task
  /\ active' = IF Idle THEN <<>> ELSE active
  /\ UNCHANGED <<input, inputFrames, format, resetVars, out>>
ProcessUndecodable == Refused
ProcessIncompatible(f) == ~Compatible(f) /\ Refused

\* The harvest raises: this packet is lost with the segment.
ProcessFails == Arrives /\ HarvestFails

-----------------------------------------------------------------------------
(* flush() and reset()                                                     *)

Flush ==
  /\ task # "cancelled" /\ Harvested
  /\ task = "done" \/ ready # <<>>
  /\ out' = out \o Numbers(HarvestedReady)
  /\ ready' = <<>>
  /\ task' = IF Idle THEN "none" ELSE task
  /\ active' = IF Idle THEN <<>> ELSE active
  /\ UNCHANGED <<arrived, input, inputFrames, format, resetVars>>

FlushFails == HarvestFails /\ UNCHANGED arrived

\* (Mutant: the ready outputs survive a reset.)
ReadyKept == ready' = ready
ReadyCleared == ready' = <<>>

Cleared ==
  /\ task' = "none"
  /\ active' = <<>> /\ input' = <<>> /\ inputFrames' = 0
  /\ ReadyCleared
  /\ format' = NoFormat
  /\ lastError' = FALSE
  /\ resetAt' = arrived
  /\ UNCHANGED <<arrived, out>>

\* A done inference is dropped with its outcome; a running one is cancelled, and
\* reset() waits until its task has ended.
Reset ==
  /\ resets < MaxResets /\ resets' = resets + 1
  /\ \/ task \notin {"running", "cancelled"} /\ Cleared
     \/ /\ task = "running"
        /\ task' = "cancelled"
        /\ UNCHANGED <<arrived, input, inputFrames, active, ready, format, lastError,
                       resetAt, out>>

ResetEnds == task = "cancelled" /\ Cleared /\ UNCHANGED resets

\* The thread returns, a result of the right length or not, or raises.
InferenceEnds ==
  /\ task = "running"
  /\ task' \in {"done", "short", "failed"}
  /\ UNCHANGED <<arrived, input, inputFrames, active, ready, format, lastError, resetVars,
                 out>>

-----------------------------------------------------------------------------
Next ==
  \/ \E f \in Formats, n \in FrameCounts : Process(f, n)
  \/ \E f \in Formats : ProcessIncompatible(f)
  \/ ProcessUndecodable \/ ProcessFails
  \/ Flush \/ FlushFails
  \/ Reset \/ ResetEnds
  \/ InferenceEnds

Spec == Init /\ [][Next]_vars
-----------------------------------------------------------------------------
(* Properties.                                                             *)

Packet == [number : 1..MaxPackets, frames : FrameCounts, format : Formats]

\* The values the attributes of the processor range over.
TypeOK ==
  /\ arrived \in 0..MaxPackets
  /\ input \in Seq(Packet) /\ active \in Seq(Packet) /\ ready \in Seq(Packet)
  /\ inputFrames \in Nat
  /\ task \in {"none", "running", "done", "short", "failed", "cancelled"}
  /\ format \in Formats \cup {NoFormat}
  /\ lastError \in BOOLEAN
  /\ resets \in 0..MaxResets /\ resetAt \in 0..arrived
  /\ out \in Seq(1..MaxPackets)

\* The frame counter, kept by hand in three methods, is the frames of the buffer.
FramesConsistent == inputFrames = FramesOf(input)

\* A segment and the buffer behind it have one format, the stream's: inference
\* takes the rate and channels of the first packet for the whole segment.
OneFormat ==
  \A q \in {input, active} : \A k \in 1..Len(q) : q[k].format = format

Held == ready \o (IF task \in {"failed", "short", "cancelled"} THEN <<>> ELSE active) \o input

\* Nothing from before a reset is ever released after it, not even the segment
\* that was under inference when the reset came.
NothingStale == \A k \in 1..Len(Held) : Held[k].number > resetAt

Fifo == INSTANCE LossyFifo WITH held <- Numbers(Held)

\* Every packet is released at most once and in order, through failed segments,
\* refused packets, flushes and resets.
ImplementsLossyFifo == Fifo!Spec

\* "processor segment buffers must be bounded" (architecture.md)
InputBounded == Len(input) <= BufferLimit
=============================================================================
