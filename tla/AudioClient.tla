---------------------------- MODULE AudioClient -----------------------------
(***************************************************************************)
(* The desktop client, client/src/main.rs and network.rs: a capture        *)
(* callback that cuts packets, a bounded channel, a sender thread, a       *)
(* receiver thread that fills the playback queue, a playback callback that *)
(* empties it, and the main thread, which waits for Ctrl-C and joins.      *)
(*                                                                         *)
(* Samples are numbers: the captured ones and the received ones are        *)
(* counted from 1, so that every packet is whole frames and sample s       *)
(* belongs to channel (s - 1) % Channels.  Sequence numbers only serve a   *)
(* log message in the receiver and are left out.                           *)
(***************************************************************************)
EXTENDS Segments

CONSTANTS
  Rate, Channels,   \* the negotiated stream format
  PacketMicros,     \* --packet-ms, in microseconds
  PlaybackMs,       \* --playback-buffer-ms
  PrebufferMs,      \* --prebuffer-ms
  ChannelBound,     \* packets the channel to the sender holds (128)
  CaptureSizes,     \* samples the device hands to a capture callback
  OutputSizes,      \* samples it asks a playback callback for
  FrameCounts,      \* frames of the packets the server returns
  MaxCaptured,      \* bound: samples captured
  MaxDatagrams      \* bound: datagrams received

ASSUME FormatAssumption ==
  /\ Rate \in Nat \ {0}
  /\ Channels \in Nat \ {0} /\ Channels < 256
  /\ PacketMicros \in Nat \ {0}
  /\ PlaybackMs \in Nat
  /\ PrebufferMs \in Nat

ASSUME SizesAssumption ==
  /\ ChannelBound \in Nat \ {0}
  /\ CaptureSizes \subseteq Nat \ {0}
  /\ OutputSizes \subseteq Nat \ {0}
  /\ FrameCounts \subseteq Nat \ {0}
  /\ MaxCaptured \in Nat
  /\ MaxDatagrams \in Nat

\* The device hands over and asks for whole frames.
ASSUME FramesAssumption == \A n \in CaptureSizes \cup OutputSizes : n % Channels = 0

VARIABLES
  captured,   \* samples captured so far (bounded)
  pending,    \* samples in `pending`, the last ones captured
  cut,        \* packets cut so far
  channel,    \* packets in the channel to the sender
  wire,       \* packets the sender has sent (history)
  received,   \* samples of the matching packets received so far
  datagrams,  \* datagrams received so far (bounded)
  queue,      \* the playback queue
  started,    \* `started` of the playback callback
  lastPlayed, \* the last sample played (history)
  running,    \* the flag the threads poll
  streams,    \* which streams play
  sender, receiver, main  \* where each thread is

captureVars  == <<captured, pending, cut>>
playbackVars == <<started, lastPlayed>>
arrivalVars  == <<received, datagrams>>
threadVars   == <<sender, receiver, main>>
vars == <<captureVars, channel, wire, arrivalVars, queue, playbackVars, running, streams,
          threadVars>>

(* compute_packet_sizing                                                   *)
FramesPerPacket ==
  LET rounded == (2 * Rate * PacketMicros + 1000000) \div 2000000
  IN  IF rounded < 1 THEN 1 ELSE IF rounded > 65535 THEN 65535 ELSE rounded
SamplesPerPacket   == FramesPerPacket * Channels
MaxPlaybackSamples == (Rate * Channels * PlaybackMs) \div 1000
PrebufferSamples   == (Rate * Channels * PrebufferMs) \div 1000

Init ==
  /\ captured = 0 /\ pending = 0 /\ cut = 0
  /\ channel = <<>> /\ wire = <<>>
  /\ received = 0 /\ datagrams = 0 /\ queue = <<>>
  /\ started = (PrebufferSamples = 0) /\ lastPlayed = 0
  /\ running = TRUE
  /\ streams = {}
  /\ sender = "checking" /\ receiver = "checking" /\ main = "starting"

\* The process ends, with all its threads, when run() returns.
Alive == main \notin {"ok", "error"}

-----------------------------------------------------------------------------
(* The capture callback.                                                   *)

CaptureData(n) ==
  /\ Alive /\ "capture" \in streams /\ pending < SamplesPerPacket
  /\ captured + n <= MaxCaptured
  /\ captured' = captured + n
  /\ pending' = pending + n
  /\ UNCHANGED <<cut, channel, wire, arrivalVars, queue, playbackVars, running, streams,
                 threadVars>>

\* try_send gives the packet up if the channel is full or has no receiver.
\* (Mutant: it pushes out the oldest packet, and sends that one again.)
Room == Len(channel) < ChannelBound /\ sender \in {"checking", "waiting"}
SentTwice(k) == IF Room THEN channel \o <<k, k>> ELSE channel
Sent(k) == IF Room THEN Append(channel, k) ELSE channel

\* One round of the callback's loop.
CutPacket ==
  /\ Alive /\ pending >= SamplesPerPacket
  /\ pending' = pending - SamplesPerPacket
  /\ cut' = cut + 1
  /\ channel' = Sent(cut + 1)
  /\ UNCHANGED <<captured, wire, arrivalVars, queue, playbackVars, running, streams,
                 threadVars>>

-----------------------------------------------------------------------------
(* sender_loop                                                             *)

Ends(state) == state \in {"ended", "failed"}

SenderMoves(state) ==
  /\ Alive
  /\ sender' = state
  /\ channel' = IF Ends(state) THEN <<>> ELSE channel
  /\ UNCHANGED <<captureVars, wire, arrivalVars, queue, playbackVars, running, streams,
                 receiver, main>>

SenderChecks ==
  sender = "checking" /\ SenderMoves(IF running THEN "waiting" ELSE "ended")

\* recv_timeout: a packet, which is sent; nothing for 100 ms; or no sender left.
SenderSends ==
  /\ Alive /\ sender = "waiting" /\ channel # <<>>
  /\ wire' = Append(wire, Head(channel))
  /\ channel' = Tail(channel)
  /\ sender' = "checking"
  /\ UNCHANGED <<captureVars, arrivalVars, queue, playbackVars, running, streams,
                 receiver, main>>

SenderFails   == sender = "waiting" /\ channel # <<>> /\ SenderMoves("failed")
SenderTimeout == sender = "waiting" /\ channel = <<>> /\ SenderMoves("checking")
Disconnected  ==
  /\ sender = "waiting" /\ channel = <<>> /\ main \in {"joining sender", "joining receiver"}
  /\ SenderMoves("ended")

-----------------------------------------------------------------------------
(* receiver_loop, handle_datagram and buffer_samples.                      *)

ReceiverMoves(state) ==
  /\ Alive
  /\ receiver' = state
  /\ UNCHANGED <<captureVars, channel, wire, arrivalVars, queue, playbackVars, running,
                 streams, sender, main>>

ReceiverChecks ==
  receiver = "checking" /\ ReceiverMoves(IF running THEN "waiting" ELSE "ended")
ReceiverFails == receiver = "waiting" /\ ReceiverMoves("failed")

\* recv_datagram gives up after the read timeout of the socket, 200 ms.
\* (Mutant: the error is not taken for a timeout and the wait goes on.)
StillWaiting == "waiting"
TimedOut == "checking"
ReceiverTimeout == receiver = "waiting" /\ ReceiverMoves(TimedOut)

\* How many of the oldest samples make room for `keep` more.  (Mutant: one
\* sample too few goes.)
EvictOneLess(keep) ==
  LET excess == Len(queue) + keep - MaxPlaybackSamples
  IN  IF excess <= 1 THEN 0 ELSE IF excess > Len(queue) THEN Len(queue) ELSE excess - 1
Evict(keep) ==
  LET excess == Len(queue) + keep - MaxPlaybackSamples
  IN  IF excess <= 0 THEN 0 ELSE IF excess > Len(queue) THEN Len(queue) ELSE excess

\* The samples of a packet that are buffered: its newest.  (Mutant: one
\* sample too many is skipped.)
SkippedOneMore(n, keep) == [k \in 1..keep |-> received + n - keep + k + 1]
NewestKept(n, keep) == [k \in 1..keep |-> received + n - keep + k]

\* A packet that decodes and has the format of the playback stream.
ReceiverBuffers(frames) ==
  LET n    == frames * Channels
      keep == IF n < MaxPlaybackSamples THEN n ELSE MaxPlaybackSamples
  IN  /\ Alive /\ receiver = "waiting" /\ datagrams < MaxDatagrams
      /\ datagrams' = datagrams + 1
      /\ queue' = After(queue, Evict(keep)) \o NewestKept(n, keep)
      /\ received' = received + n
      /\ receiver' = "checking"
      /\ UNCHANGED <<captureVars, channel, wire, playbackVars, running, streams, sender,
                     main>>

\* Any other datagram is logged and ignored.
ReceiverIgnores ==
  /\ Alive /\ receiver = "waiting" /\ datagrams < MaxDatagrams
  /\ datagrams' = datagrams + 1
  /\ receiver' = "checking"
  /\ UNCHANGED <<captureVars, channel, wire, received, queue, playbackVars, running,
                 streams, sender, main>>

-----------------------------------------------------------------------------
(* The playback callback: silence until the prebuffer is full, and for     *)
(* every sample that is missing afterwards.                                *)

\* (Mutants: the threshold must be exceeded; the samples played stay queued.)
MoreThanPrebuffer == Len(queue) > PrebufferSamples
Prebuffered == Len(queue) >= PrebufferSamples
NothingPopped(n) == queue
Popped(n) == IF n < Len(queue) THEN After(queue, n) ELSE <<>>

Playback(n) ==
  /\ Alive /\ "playback" \in streams
  /\ started' = (started \/ Prebuffered)
  /\ IF started' /\ queue # <<>>
     THEN /\ queue' = Popped(n)
          /\ lastPlayed' = queue[IF n < Len(queue) THEN n ELSE Len(queue)]
     ELSE UNCHANGED <<queue, lastPlayed>>
  /\ UNCHANGED <<captureVars, channel, wire, arrivalVars, running, streams, threadVars>>

-----------------------------------------------------------------------------
(* The main thread, from start_streams on.                                 *)

MainMoves(state, playing) ==
  /\ main' = state
  /\ streams' = playing
  /\ UNCHANGED <<captureVars, channel, wire, arrivalVars, queue, playbackVars, running,
                 sender, receiver>>

CaptureStarts  == main = "starting" /\ streams = {} /\ MainMoves("starting", {"capture"})
PlaybackStarts ==
  main = "starting" /\ streams # {} /\ MainMoves("streaming", {"capture", "playback"})
StartFails == main = "starting" /\ MainMoves("error", {})

CtrlC ==
  /\ Alive /\ running /\ running' = FALSE
  /\ UNCHANGED <<captureVars, channel, wire, arrivalVars, queue, playbackVars, streams,
                 threadVars>>

\* Dropping a stream waits for its callback to return.
DropStreams ==
  /\ main = "streaming" /\ ~running /\ pending < SamplesPerPacket
  /\ MainMoves("joining sender", {})

\* `join()??` returns the error of a thread.  (Mutant: the result is ignored.)
JoinIgnored(thread, next) == next
JoinResult(thread, next) == IF thread = "failed" THEN "error" ELSE next

JoinSender ==
  /\ main = "joining sender" /\ Ends(sender)
  /\ MainMoves(JoinResult(sender, "joining receiver"), {})
JoinReceiver ==
  /\ main = "joining receiver" /\ Ends(receiver)
  /\ MainMoves(JoinResult(receiver, "ok"), {})

-----------------------------------------------------------------------------
Capture  == CutPacket \/ \E n \in CaptureSizes : CaptureData(n)
Callback == \E n \in OutputSizes : Playback(n)
Sender   == SenderChecks \/ SenderSends \/ SenderTimeout \/ Disconnected
Receiver ==
  \/ ReceiverChecks \/ ReceiverTimeout \/ ReceiverIgnores
  \/ \E f \in FrameCounts : ReceiverBuffers(f)
Main == CaptureStarts \/ PlaybackStarts \/ DropStreams \/ JoinSender \/ JoinReceiver
Failure == SenderFails \/ ReceiverFails \/ StartFails

Next == Capture \/ Callback \/ Sender \/ Receiver \/ Main \/ Failure \/ CtrlC

\* Threads are scheduled, and the device goes on calling for samples; nothing has
\* to fail, and nobody has to press Ctrl-C.
Fairness ==
  /\ WF_vars(CutPacket) /\ WF_vars(Callback)
  /\ WF_vars(Sender) /\ WF_vars(Receiver) /\ WF_vars(Main)

Spec == Init /\ [][Next]_vars /\ Fairness
-----------------------------------------------------------------------------
(* Properties.                                                             *)

\* The values the state of the client ranges over.
TypeOK ==
  /\ captured \in 0..MaxCaptured /\ pending \in Nat /\ cut \in Nat
  /\ channel \in Seq(1..cut) /\ wire \in Seq(1..cut)
  /\ received \in Nat /\ datagrams \in 0..MaxDatagrams
  /\ queue \in Seq(1..received) /\ lastPlayed \in 0..received
  /\ started \in BOOLEAN /\ running \in BOOLEAN
  /\ streams \subseteq {"capture", "playback"}
  /\ sender \in {"checking", "waiting", "ended", "failed"}
  /\ receiver \in {"checking", "waiting", "ended", "failed"}
  /\ main \in {"starting", "streaming", "joining sender", "joining receiver", "ok", "error"}

\* "client playback buffers are bounded" (architecture.md): the queue never grows
\* past its limit, whatever the sizes of the packets and however the playback
\* callback lags.
PlaybackBounded == Len(queue) <= MaxPlaybackSamples

\* "For stereo, each frame is left then right" (protocol.md): between callbacks
\* the queue is whole frames, so every sample plays on its own channel.
FramesWhole ==
  /\ Len(queue) % Channels = 0
  /\ queue # <<>> => Head(queue) % Channels = 1 % Channels

\* Missing output is silence and never stale replay (architecture.md): what is
\* queued is in order and was not played before.
NoReplay ==
  \A k \in 1..Len(queue) : queue[k] > (IF k = 1 THEN lastPlayed ELSE queue[k - 1])

\* Captured packets are sent at most once and in order, through a full channel
\* and the death of the sender.
CaptureFifo == INSTANCE LossyFifo WITH arrived <- cut, held <- channel, out <- wire
ImplementsLossyFifo == CaptureFifo!Spec

\* run() returns Ok only if neither network thread failed, whenever it did.
ErrorReported == main = "ok" => sender = "ended" /\ receiver = "ended"

\* Playback starts once the prebuffer's worth of samples has arrived, whatever
\* was evicted meanwhile, unless the client stops.
PlaybackBegins ==
  (PrebufferSamples <= MaxPlaybackSamples /\ received >= PrebufferSamples
     /\ "playback" \in streams) ~> (started \/ ~running)

\* After Ctrl-C run() returns, whatever the network threads wait for.
ShutdownEnds == ~running ~> ~Alive
=============================================================================
