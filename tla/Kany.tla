--------------------------------- MODULE Kany ---------------------------------
(***************************************************************************)
(* The two implementations of the KANY v1 format: kany.py of the server and *)
(* protocol.rs of the client, which say of each other that a change needs  *)
(* both.  A datagram is its header fields and its length in bytes; samples *)
(* and the timestamp are copied by both and left out.  Reserved bytes are  *)
(* read by neither.                                                        *)
(***************************************************************************)
EXTENDS Integers

Magic == "KANY"
Version == 1
HeaderSize == 28
SampleFormatF32LE == 1
BytesPerSample == 4

Samples(d) == (d.length - HeaderSize) \div BytesPerSample

\* KanyPacket.decode of kany.py
PyHeader(d) ==
  /\ d.length >= HeaderSize /\ d.magic = Magic
  /\ d.version = Version /\ d.format = SampleFormatF32LE
PyFields(d) == d.channels # 0 /\ d.rate # 0 /\ d.frames # 0
\* (Mutant: the length is compared in samples.)
PyBodyInSamples(d) == d.length = HeaderSize + d.channels * d.frames
PyBody(d) == d.length = HeaderSize + d.channels * d.frames * BytesPerSample
PyDecodes(d) == PyHeader(d) /\ PyFields(d) /\ PyBody(d)

\* KanyPacket.encode_samples: the header as it came, and `count` new samples.
PyEncodes(d, count) == count = d.channels * d.frames
PyEncoded(d, count) == [d EXCEPT !.length = HeaderSize + count * BytesPerSample]

\* decode_packet of protocol.rs
RsHeader(d) ==
  /\ d.length >= HeaderSize /\ d.magic = Magic
  /\ d.version = Version /\ d.format = SampleFormatF32LE
RsDecodes(d) ==
  /\ RsHeader(d) /\ d.channels # 0 /\ d.frames # 0
  /\ d.length - HeaderSize = d.frames * d.channels * BytesPerSample

\* encode_packet of protocol.rs; `channels` and `frames` are u16 in the packet,
\* and the header has one byte for the channels.
RsEncodes(p) ==
  /\ p.channels \in 1..255 /\ p.frames # 0
  /\ p.samples = p.frames * p.channels
RsEncoded(p) ==
  [magic |-> Magic, version |-> Version, format |-> SampleFormatF32LE,
   channels |-> p.channels, rate |-> p.rate, sequence |-> p.sequence,
   frames |-> p.frames, length |-> HeaderSize + p.samples * BytesPerSample]
=============================================================================
