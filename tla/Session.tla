------------------------------- MODULE Session -------------------------------
(***************************************************************************)
(* A session from capture to playback: the client negotiates its devices,  *)
(* numbers and encodes packets (network.rs), the network loses, repeats    *)
(* and reorders them in both directions, the server answers some of them   *)
(* in order, and the client decodes what comes back and watches the        *)
(* numbers.  Strays are datagrams from anybody else.                       *)
(*                                                                         *)
(* The server is what TromboneService promises: a lossy FIFO of datagrams, *)
(* whose processor may be replaced between two of them.  The client's      *)
(* threads and queues are in AudioClient; here a packet is sent or heard   *)
(* in one step.                                                            *)
(***************************************************************************)
EXTENDS Kany, Devices, Sequences, SequencesExt

CONSTANTS
  Rigs,           \* pairs [host, cli] of devices and command lines
  Headers,        \* datagrams the codecs are compared on
  Strays,         \* datagrams that strangers send
  SequenceSpace,  \* 2^32: the sequence number wraps
  MaxPacketSize,  \* max_packet_size of the server
  MaxUdpPayload,  \* longest datagram the client's socket sends
  MaxSent,        \* bound: packets captured
  MaxStrays,      \* bound: datagrams from strangers
  MaxInFlight     \* bound: datagrams in each direction, and in the server

\* What any datagram is made of, and what a device is: no device runs at rate 0.
IsDatagram(d) ==
  d \in [magic : {d.magic}, version : Nat, format : Nat, channels : Nat, rate : Nat,
         sequence : Nat, frames : Nat, length : Nat]
IsDevice(d) ==
  /\ \A r \in d.ranges : r.channels \in Nat /\ r.min \in Nat \ {0} /\ r.max \in Nat
  /\ \A c \in d.default : c.channels \in Nat /\ c.rate \in Nat \ {0}

ASSUME SessionAssumption ==
  /\ SequenceSpace \in Nat \ {0, 1}
  /\ \A d \in Headers \cup Strays : IsDatagram(d)
  /\ \A r \in Rigs :
       /\ r.cli.rate \in Nat /\ r.cli.channels \in Nat /\ r.cli.packetMs \in Nat
       /\ \A d \in r.host.inputs \cup r.host.defaultInput : IsDevice(d)
       /\ \A d \in r.host.outputs \cup r.host.defaultOutput : IsDevice(d)

VARIABLES
  session,    \* the negotiated DeviceSetup, and the command line
  sender,     \* sender_loop: "running", or "failed"
  sequence,   \* its sequence number
  sent,       \* packets sent so far (the number of the last one)
  up,         \* datagrams under way to the server
  held,       \* datagrams in the server
  down,       \* datagrams under way to the client
  expected,   \* receiver_loop: expected_sequence, or None
  last,       \* the last packet it buffered, and whether it was reported
  newest,     \* the highest number of a packet it buffered (history)
  disturbed,  \* has the network repeated or reordered anything (history)
  strays      \* strays so far

vars == <<session, sender, sequence, sent, up, held, down, expected, last, newest,
          disturbed, strays>>

None == -1

\* compute_packet_sizing
U16Max == 2^16 - 1
FramesPerPacket(rate, packetMs) ==
  LET frames == (rate * packetMs + 500) \div 1000
  IN  IF frames < 1 THEN 1 ELSE IF frames > U16Max THEN U16Max ELSE frames

Init ==
  /\ session \in UNION {{[setup |-> s, cli |-> r.cli] : s \in Negotiated(r.host, r.cli)} :
                          r \in Rigs}
  /\ sender = "running" /\ sequence = 0 /\ sent = 0
  /\ up = <<>> /\ held = <<>> /\ down = <<>>
  /\ expected = None /\ newest = 0 /\ disturbed = FALSE /\ strays = 0
  /\ last = [id |-> 0, before |-> 0, reported |-> FALSE, heard |-> {}]

-----------------------------------------------------------------------------
(* The client's sender_loop.  A datagram under way carries its number in   *)
(* the capture, 0 if it is a stranger's.                                   *)

Format == session.setup.format

Packet ==
  LET frames == FramesPerPacket(Format.rate, session.cli.packetMs)
  IN  [channels |-> Format.channels, rate |-> Format.rate, sequence |-> sequence,
       frames |-> frames, samples |-> frames * Format.channels]

CanSend == RsEncodes(Packet) /\ RsEncoded(Packet).length <= MaxUdpPayload

\* sequence.wrapping_add(1), after the datagram is sent
NextSequence == (sequence + 1) % SequenceSpace

SenderSends ==
  /\ sender = "running" /\ CanSend
  /\ sent < MaxSent /\ Len(up) < MaxInFlight
  /\ up' = Append(up, [id |-> sent + 1, datagram |-> RsEncoded(Packet)])
  /\ sequence' = NextSequence /\ sent' = sent + 1
  /\ UNCHANGED <<session, sender, held, down, expected, last, newest, disturbed, strays>>

SenderFails ==
  /\ sender = "running" /\ ~CanSend
  /\ sender' = "failed"
  /\ UNCHANGED <<session, sequence, sent, up, held, down, expected, last, newest,
                 disturbed, strays>>

-----------------------------------------------------------------------------
(* The network.  Taking a datagram that is not the first reorders, and     *)
(* leaving it there repeats.                                               *)

Take(channel, i, rest) ==
  /\ rest \in {RemoveAt(channel, i), channel}
  /\ disturbed' = (disturbed \/ i # 1 \/ rest = channel)

LostUp ==
  /\ \E i \in DOMAIN up : up' = RemoveAt(up, i)
  /\ UNCHANGED <<session, sender, sequence, sent, held, down, expected, last, newest,
                 disturbed, strays>>

LostDown ==
  /\ \E i \in DOMAIN down : down' = RemoveAt(down, i)
  /\ UNCHANGED <<session, sender, sequence, sent, up, held, expected, last, newest,
                 disturbed, strays>>

-----------------------------------------------------------------------------
(* The server.                                                             *)

\* datagram_received; a full queue drops.
Ingress(item) ==
  held' \in IF item.datagram.length > MaxPacketSize \/ Len(held) = MaxInFlight
            THEN {held} ELSE {Append(held, item), held}

ServerReceives ==
  /\ \E i \in DOMAIN up : Take(up, i, up') /\ Ingress(up[i])
  /\ UNCHANGED <<session, sender, sequence, sent, down, expected, last, newest, strays>>

\* What the processors yield for a datagram they are given: passthrough and the
\* delay the datagram itself, whatever it is; centre reduction and the separators
\* decode it, want stereo, and encode the result with the header it came with.
\* (Null, and any processor that fails, yield nothing.)
Processed(d) ==
  {d} \cup IF PyDecodes(d) /\ d.channels = 2 /\ PyEncodes(d, Samples(d))
           THEN {PyEncoded(d, Samples(d))} ELSE {}

\* The next answer, with the datagrams before it given up.
\* (Mutant: the answers leave in any order.)
RestUnordered(i) == RemoveAt(held, i)
Rest(i) == SubSeq(held, i + 1, Len(held))
ServerAnswers ==
  /\ Len(down) < MaxInFlight
  /\ \E i \in DOMAIN held :
       /\ held' = Rest(i)
       /\ \E d \in Processed(held[i].datagram) :
            down' = Append(down, [held[i] EXCEPT !.datagram = d])
  /\ UNCHANGED <<session, sender, sequence, sent, up, expected, last, newest,
                 disturbed, strays>>

-----------------------------------------------------------------------------
(* The client's handle_datagram.                                           *)

\* packet.sequence.wrapping_add(1)  (Mutant: without wrapping.)
Unwrapped(d) == d.sequence + 1
Following(d) == (d.sequence + 1) % SequenceSpace

Compatible(d) == RsDecodes(d) /\ d.channels = Format.channels /\ d.rate = Format.rate

Heard(item) ==
  LET d == item.datagram
  IN  IF Compatible(d)
      THEN /\ expected' = Following(d)
           /\ last' = [id |-> item.id, before |-> last.id, heard |-> {d},
                       reported |-> expected # None /\ d.sequence # expected]
           /\ newest' = IF item.id > newest THEN item.id ELSE newest
      ELSE UNCHANGED <<expected, last, newest>>

ReceiverReceives ==
  /\ \E i \in DOMAIN down : Take(down, i, down') /\ Heard(down[i])
  /\ UNCHANGED <<session, sender, sequence, sent, up, held, strays>>

\* A stranger's datagram reaches the server, or the client's port.
Stray ==
  /\ strays < MaxStrays /\ strays' = strays + 1
  /\ \E d \in Strays :
       \/ Ingress([id |-> 0, datagram |-> d]) /\ UNCHANGED <<expected, last, newest>>
       \/ Heard([id |-> 0, datagram |-> d]) /\ UNCHANGED held
  /\ UNCHANGED <<session, sender, sequence, sent, up, down, disturbed>>

Next ==
  \/ SenderSends \/ SenderFails \/ LostUp \/ LostDown
  \/ ServerReceives \/ ServerAnswers \/ ReceiverReceives \/ Stray

Spec == Init /\ [][Next]_vars
-----------------------------------------------------------------------------
(* Properties.                                                             *)

\* "Mirrored independently" (kany.py, protocol.rs): both decoders accept the same
\* datagrams, except that only the client's takes a sample rate of 0; and what the
\* client encoded both accept, on its way there and, through whatever processor,
\* on its way back, with the number it was sent with.
DecodersAgree == \A d \in Headers : d.rate # 0 => (PyDecodes(d) <=> RsDecodes(d))
CodecsAgree ==
  /\ DecodersAgree
  /\ \A i \in 1..3 : LET channel == <<up, held, down>>[i] IN
       \A j \in DOMAIN channel : LET d == channel[j].datagram IN
         channel[j].id # 0 =>
           /\ PyDecodes(d) /\ RsDecodes(d)
           /\ d.sequence = (channel[j].id - 1) % SequenceSpace

\* "The initial receiver records discontinuities" (docs/protocol.md): of two
\* packets of this client heard one after the other, the second is reported
\* exactly if it is not the successor of the first in the capture, up to the range
\* of the sequence number; also across its wrap.
DiscontinuitiesReported ==
  last.id # 0 /\ last.before # 0 =>
    (last.reported <=> (last.id - last.before) % SequenceSpace # 1)

\* Nothing in client or server reorders or repeats by itself: as long as the
\* network does neither, a packet heard is newer than all those heard before.
InCaptureOrder ==
  [][last' # last /\ last'.id # 0 /\ ~disturbed' => last'.id > newest]_vars

\* One format end to end, without resampling: both devices run it with f32
\* samples, and the samples heard are whole frames of it.
OneFormat ==
  /\ Supports(session.setup.input, Format) /\ Supports(session.setup.output, Format)
  /\ \A d \in last.heard :
       d.rate = Format.rate /\ Samples(d) = d.frames * Format.channels
=============================================================================
