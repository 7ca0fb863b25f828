--------------------------- MODULE Session_proofs ---------------------------
(***************************************************************************)
(* The two codecs agree on every datagram; what the client encodes, both   *)
(* decode; and in a session of any devices, over a network that loses,     *)
(* repeats and reorders as it likes, the format never changes, numbers     *)
(* belong to the packets they came with, and a discontinuity is reported   *)
(* exactly when there is one, for sequence numbers of any width.           *)
(***************************************************************************)
EXTENDS Session, TLAPS

S == SequenceSpace

-----------------------------------------------------------------------------
(* Arithmetic.                                                             *)

LEMMA Division ==
  ASSUME NEW a \in Int
  PROVE  \E q \in Int : a = S * q + (a % S) /\ a % S \in 0..(S - 1)
<1>1. PICK n : n = S /\ n \in Int /\ n > 0  BY SessionAssumption DEF S
<1>2. \E q \in Int : a % n = a - n * q  BY <1>1
<1>3. a % n \in 0..(n - 1)  BY <1>1
<1>4. PICK q \in Int : a % n = a - n * q  BY <1>2
<1>5. a = n * q + (a % n)  BY <1>1, <1>3, <1>4
<1> QED  BY <1>1, <1>3, <1>5

LEMMA Remainder ==
  ASSUME NEW a \in Int, NEW q \in Int, NEW r \in 0..(S - 1), a = S * q + r
  PROVE  a % S = r
<1>1. PICK n : n = S /\ n \in Int /\ n > 0  BY SessionAssumption DEF S
<1>2. r \in 0..(n - 1) /\ a = n * q + r  BY <1>1
<1>3. (n * q + r) % n = r  BY <1>1, <1>2
<1> QED  BY <1>1, <1>2, <1>3

\* Counting up commutes with wrapping.
LEMMA WrappingSuccessor ==
  ASSUME NEW a \in Int
  PROVE  ((a % S) + 1) % S = (a + 1) % S
<1>1. S \in Int /\ S > 1  BY SessionAssumption DEF S
<1>2. PICK q \in Int : a = S * q + (a % S) /\ a % S \in 0..(S - 1)  BY Division
<1>3. PICK r : r = a % S  OBVIOUS
<1>4. CASE r + 1 < S
  <2>1. r + 1 \in 0..(S - 1)  BY <1>1, <1>2, <1>3, <1>4
  <2>2. a + 1 = S * q + (r + 1)  BY <1>1, <1>2, <1>3
  <2>3. (a + 1) % S = r + 1  BY <2>1, <2>2, Remainder
  <2>4. r + 1 = S * 0 + (r + 1)  BY <1>1, <2>1
  <2>5. (r + 1) % S = r + 1  BY <2>1, <2>4, Remainder
  <2> QED  BY <1>3, <2>3, <2>5
<1>5. CASE r + 1 = S
  <2>1. a + 1 = S * (q + 1) + 0  BY <1>1, <1>2, <1>3, <1>5
  <2>2. 0 \in 0..(S - 1) /\ q + 1 \in Int /\ a + 1 \in Int  BY <1>1
  <2>3. (a + 1) % S = 0  BY <2>1, <2>2, Remainder
  <2>4. r + 1 = S * 1 + 0 /\ r + 1 \in Int  BY <1>1, <1>5
  <2>5. (r + 1) % S = 0  BY <2>2, <2>4, Remainder
  <2> QED  BY <1>3, <2>3, <2>5
<1> QED  BY <1>1, <1>2, <1>3, <1>4, <1>5

LEMMA SmallMultiple ==
  ASSUME NEW q \in Int, NEW r \in Int, S * q = r, 0 - S < r, r < S
  PROVE  r = 0
<1>1. PICK n : n = S /\ n \in Int /\ n > 0  BY SessionAssumption DEF S
<1>2. n * q = r /\ 0 - n < r /\ r < n  BY <1>1
<1>3. q = 0  BY <1>1, <1>2
<1> QED  BY <1>1, <1>2, <1>3

\* Two wrapped numbers follow each other if the numbers do, up to the range.
LEMMA WrappedDistance ==
  ASSUME NEW a \in Int, NEW b \in Int
  PROVE  (b - 1) % S = a % S <=> (b - a) % S = 1
<1>1. S \in Int /\ S > 1  BY SessionAssumption DEF S
<1>2. PICK p \in Int, r \in 0..(S - 1) : a = S * p + r /\ r = a % S  BY Division
<1>3. PICK q \in Int, t \in 0..(S - 1) : b - 1 = S * q + t /\ t = (b - 1) % S  BY Division
<1>4. PICK k \in Int : k = q - p  OBVIOUS
<1>5. PICK m \in Int : m = S * p  BY <1>1
<1>6. PICK n \in Int : n = S * q  BY <1>1
<1>7. S * k = n - m  BY <1>1, <1>4, <1>5, <1>6
<1>8. r \in Int /\ 0 <= r /\ r < S /\ t \in Int /\ 0 <= t /\ t < S /\ b - a \in Int
  BY <1>1
<1>9. b - a = S * k + (t - r) + 1
  <2>1. a = m + r /\ b - 1 = n + t  BY <1>2, <1>3, <1>5, <1>6
  <2> QED  BY <1>7, <1>8, <2>1
<1>10. CASE t = r
  <2>1. b - a = S * k + 1 /\ 1 \in 0..(S - 1)  BY <1>1, <1>7, <1>8, <1>9, <1>10
  <2>2. (b - a) % S = 1  BY <1>8, <2>1, Remainder
  <2> QED  BY <1>2, <1>3, <1>10, <2>2
<1>11. CASE t # r
  <2>1. ASSUME (b - a) % S = 1 PROVE FALSE
    <3>1. PICK u \in Int : b - a = S * u + 1  BY <1>8, <2>1, Division
    <3>2. PICK x \in Int : x = S * u  BY <1>1
    <3>3. S * (u - k) = x - (n - m)  BY <1>1, <1>7, <3>2
    <3>4. x - (n - m) = t - r  BY <1>7, <1>8, <1>9, <3>1, <3>2
    <3>5. 0 - S < t - r /\ t - r < S /\ t - r \in Int  BY <1>1, <1>8
    <3>6. t - r = 0  BY <3>3, <3>4, <3>5, SmallMultiple
    <3> QED  BY <1>8, <1>11, <3>6
  <2> QED  BY <1>2, <1>3, <1>11, <2>1
<1> QED  BY <1>10, <1>11

-----------------------------------------------------------------------------
(* The codecs.                                                             *)

LEMMA DatagramFields ==
  ASSUME NEW d, IsDatagram(d)
  PROVE  /\ d.channels \in Nat /\ d.rate \in Nat /\ d.frames \in Nat /\ d.length \in Nat
         /\ d.sequence \in Nat
         /\ d = [magic |-> d.magic, version |-> d.version, format |-> d.format,
                 channels |-> d.channels, rate |-> d.rate, sequence |-> d.sequence,
                 frames |-> d.frames, length |-> d.length]
BY DEF IsDatagram

\* The decoders of kany.py and protocol.rs accept the same datagrams, but for those
\* with a rate of 0.
THEOREM DecodersAgreeOnEverything ==
  ASSUME NEW d, IsDatagram(d), d.rate # 0
  PROVE  PyDecodes(d) <=> RsDecodes(d)
<1>1. PICK c \in Nat : c = d.channels  BY DatagramFields
<1>2. PICK f \in Nat : f = d.frames  BY DatagramFields
<1>3. PICK l \in Nat : l = d.length  BY DatagramFields
<1>4. c * f * 4 = f * c * 4 /\ c * f * 4 \in Nat  OBVIOUS
<1>5. l = 28 + c * f * 4 <=> l - 28 = f * c * 4  BY <1>4
<1> QED
  BY <1>1, <1>2, <1>3, <1>5 DEF PyDecodes, PyHeader, PyFields, PyBody, RsDecodes, RsHeader,
     HeaderSize, BytesPerSample

\* Encoding what one decoded reproduces the datagram: the header goes back as it
\* came, and the length with it.
LEMMA EncodedIsDecoded ==
  ASSUME NEW d, IsDatagram(d), PyDecodes(d)
  PROVE  Samples(d) = d.channels * d.frames /\ PyEncoded(d, Samples(d)) = d
<1>1. PICK x : x = d.channels * d.frames /\ x \in Nat  BY DatagramFields
<1>2. d.length = 28 + x * 4
  BY <1>1 DEF PyDecodes, PyBody, HeaderSize, BytesPerSample
<1>3. (28 + x * 4) - 28 = x * 4 /\ (x * 4) \div 4 = x  BY <1>1
<1>4. Samples(d) = x  BY <1>2, <1>3 DEF Samples, HeaderSize, BytesPerSample
<1>5. HeaderSize + x * BytesPerSample = d.length  BY <1>2 DEF HeaderSize, BytesPerSample
<1> QED  BY <1>1, <1>4, <1>5, DatagramFields DEF PyEncoded

\* What the client encodes, both decode.
THEOREM EncodedDecodes ==
  ASSUME NEW p, p.rate \in Nat \ {0}, p.sequence \in Nat, p.frames \in Nat, RsEncodes(p)
  PROVE  /\ IsDatagram(RsEncoded(p))
         /\ PyDecodes(RsEncoded(p)) /\ RsDecodes(RsEncoded(p))
         /\ RsEncoded(p).channels = p.channels /\ RsEncoded(p).rate = p.rate
         /\ RsEncoded(p).frames = p.frames /\ RsEncoded(p).sequence = p.sequence
<1>1. PICK d : d = RsEncoded(p)  OBVIOUS
<1>2. p.channels \in Nat /\ p.channels # 0 /\ p.frames # 0
      /\ p.samples = p.frames * p.channels
  BY DEF RsEncodes
<1>3. PICK x : x = p.frames * p.channels /\ x \in Nat /\ x = p.channels * p.frames
  BY <1>2
<1>4. /\ d.magic = Magic /\ d.version = Version /\ d.format = SampleFormatF32LE
      /\ d.channels = p.channels /\ d.rate = p.rate /\ d.sequence = p.sequence
      /\ d.frames = p.frames /\ d.length = 28 + x * 4
  BY <1>1, <1>2, <1>3 DEF RsEncoded, HeaderSize, BytesPerSample
<1>5. 28 + x * 4 \in Nat /\ 28 + x * 4 >= 28  BY <1>3
<1>6. IsDatagram(d)
  BY <1>1, <1>2, <1>3, <1>5
     DEF IsDatagram, RsEncoded, Version, SampleFormatF32LE, HeaderSize, BytesPerSample
<1>7. PyDecodes(d)
  BY <1>2, <1>3, <1>4, <1>5
     DEF PyDecodes, PyHeader, PyFields, PyBody, HeaderSize, BytesPerSample
<1>8. RsDecodes(d)  BY <1>4, <1>6, <1>7, DecodersAgreeOnEverything
<1> QED  BY <1>1, <1>4, <1>6, <1>7, <1>8
-----------------------------------------------------------------------------
(* The invariant of a session.                                             *)

IsFormat(f) == f.rate \in Nat \ {0} /\ f.channels \in Nat
SessionOK ==
  /\ IsFormat(Format) /\ session.cli.packetMs \in Nat
  /\ Supports(session.setup.input, Format) /\ Supports(session.setup.output, Format)

\* A datagram that the client sent as its n-th.
Ours(f, d, n) ==
  /\ d.channels = f.channels /\ d.rate = f.rate
  /\ PyDecodes(d) /\ RsDecodes(d) /\ d.sequence = (n - 1) % SequenceSpace
IsItem(f, x, n) ==
  /\ x = [id |-> x.id, datagram |-> x.datagram]
  /\ x.id \in 0..n /\ IsDatagram(x.datagram)
  /\ x.id # 0 => Ours(f, x.datagram, x.id)

\* A sequence of such datagrams.
IsChannel(f, q, n) ==
  /\ q = [i \in 1..Len(q) |-> q[i]] /\ Len(q) \in Nat
  /\ \A i \in 1..Len(q) : IsItem(f, q[i], n)
ChannelsInv ==
  /\ IsChannel(Format, up, sent) /\ IsChannel(Format, held, sent)
  /\ IsChannel(Format, down, sent)

SenderInv == sent \in Nat /\ sequence = sent % SequenceSpace

ReceiverInv ==
  /\ last.id \in 0..sent /\ last.before \in 0..sent
  /\ last.id # 0 => expected = last.id % SequenceSpace
  /\ expected \in Nat \cup {None}
  /\ \A d \in last.heard :
       /\ IsDatagram(d) /\ RsDecodes(d)
       /\ d.rate = Format.rate /\ d.channels = Format.channels
  /\ DiscontinuitiesReported

SessionInv == SessionOK /\ SenderInv /\ ChannelsInv /\ ReceiverInv

LEMMA Wraps == ASSUME NEW a \in Int PROVE a % SequenceSpace \in Nat
<1>1. SequenceSpace \in Nat /\ SequenceSpace > 0  BY SessionAssumption
<1> QED  BY <1>1

LEMMA ItemGrows ==
  ASSUME NEW f, NEW x, NEW n \in Nat, IsItem(f, x, n)
  PROVE  IsItem(f, x, n + 1)
BY DEF IsItem

LEMMA ChannelGrows ==
  ASSUME NEW f, NEW q, NEW n \in Nat, IsChannel(f, q, n)
  PROVE  IsChannel(f, q, n + 1)
BY ItemGrows DEF IsChannel

LEMMA ChannelAppend ==
  ASSUME NEW f, NEW q, NEW n \in Nat, IsChannel(f, q, n), NEW x, IsItem(f, x, n)
  PROVE  IsChannel(f, Append(q, x), n)
<1>1. PICK T : T = {q[i] : i \in 1..Len(q)} \cup {x}  OBVIOUS
<1>2. q \in Seq(T) /\ x \in T  BY <1>1 DEF IsChannel
<1>3. /\ Append(q, x) \in Seq(T) /\ Len(Append(q, x)) = Len(q) + 1
      /\ \A i \in 1..Len(q) : Append(q, x)[i] = q[i]
      /\ Append(q, x)[Len(q) + 1] = x
  BY <1>2
<1>4. PICK r : r = Append(q, x)  OBVIOUS
<1>5. ASSUME NEW i \in 1..Len(r) PROVE IsItem(f, r[i], n)
  <2>1. CASE i \in 1..Len(q)  BY <1>3, <1>4, <2>1 DEF IsChannel
  <2>2. CASE i = Len(q) + 1  BY <1>3, <1>4, <2>2
  <2>3. Len(q) \in Nat /\ i \in 1..(Len(q) + 1)  BY <1>3, <1>4 DEF IsChannel
  <2> QED  BY <2>1, <2>2, <2>3
<1>6. r \in Seq(T)  BY <1>3, <1>4
<1>7. r = [i \in 1..Len(r) |-> r[i]] /\ Len(r) \in Nat  BY ONLY <1>6
<1> QED  BY <1>4, <1>5, <1>7 DEF IsChannel

LEMMA ChannelRemove ==
  ASSUME NEW f, NEW q, NEW n \in Nat, IsChannel(f, q, n), NEW i \in DOMAIN q
  PROVE  /\ IsChannel(f, RemoveAt(q, i), n)
         /\ Len(RemoveAt(q, i)) = Len(q) - 1
         /\ \A j \in 1..(Len(q) - 1) :
              RemoveAt(q, i)[j] = q[IF j < i THEN j ELSE j + 1]
<1>1. PICK T : T = {q[j] : j \in 1..Len(q)}  OBVIOUS
<1>2. q \in Seq(T) /\ i \in 1..Len(q) /\ Len(q) \in Nat  BY <1>1 DEF IsChannel
<1>3. PICK a : a = SubSeq(q, 1, i - 1)  OBVIOUS
<1>4. PICK b : b = SubSeq(q, i + 1, Len(q))  OBVIOUS
<1>5. a \in Seq(T) /\ Len(a) = i - 1 /\ \A j \in 1..(i - 1) : a[j] = q[j]
  BY <1>2, <1>3
<1>6. b \in Seq(T) /\ Len(b) = Len(q) - i /\ \A j \in 1..(Len(q) - i) : b[j] = q[i + j]
  BY <1>2, <1>4
<1>7. PICK r : r = RemoveAt(q, i) /\ r = a \o b  BY <1>3, <1>4 DEF RemoveAt
<1>8. r \in Seq(T) /\ Len(r) = Len(q) - 1  BY <1>2, <1>5, <1>6, <1>7
<1>9. \A j \in 1..(Len(a) + Len(b)) :
        r[j] = IF j <= Len(a) THEN a[j] ELSE b[j - Len(a)]
  <2>1. a \in Seq(T) /\ b \in Seq(T) /\ r = a \o b  BY <1>5, <1>6, <1>7
  <2> QED  BY ONLY <2>1
<1>10. ASSUME NEW j \in 1..(Len(q) - 1) PROVE r[j] = q[IF j < i THEN j ELSE j + 1]
  <2>1. PICK l \in Nat : l = Len(q)  BY <1>2
  <2>2. /\ i \in 1..l /\ j \in 1..(l - 1) /\ Len(a) = i - 1 /\ Len(b) = l - i
        /\ j \in 1..(Len(a) + Len(b))
    BY <1>2, <1>5, <1>6, <2>1
  <2>3. r[j] = IF j <= i - 1 THEN a[j] ELSE b[j - (i - 1)]  BY <1>9, <2>2
  <2>4. CASE j < i
    <3>1. j \in 1..(i - 1)  BY <2>2, <2>4
    <3> QED  BY <1>5, <2>2, <2>3, <2>4, <3>1
  <2>5. CASE ~(j < i)
    <3>1. i \in Int /\ j \in Int /\ l \in Int /\ i <= j /\ j <= l - 1  BY ONLY <2>2, <2>5, l \in Nat
    <3>2. PICK k \in Int : k = j - (i - 1)  BY <3>1
    <3>3. k \in 1..(l - i) /\ i + k = j + 1 /\ ~(j <= i - 1)  BY ONLY <3>1, <3>2
    <3>4. b[k] = q[j + 1]  BY <1>6, <2>1, <3>3
    <3> QED  BY <2>3, <2>5, <3>2, <3>3, <3>4
  <2> QED  BY <2>4, <2>5
<1>11. IsChannel(f, r, n)
  <2>1. ASSUME NEW j \in 1..Len(r) PROVE IsItem(f, r[j], n)
    <3>1. (IF j < i THEN j ELSE j + 1) \in 1..Len(q)  BY <1>2, <1>8
    <3> QED  BY <1>8, <1>10, <3>1 DEF IsChannel
  <2> QED  BY <1>2, <1>8, <2>1 DEF IsChannel
<1> QED  BY <1>7, <1>8, <1>10, <1>11

LEMMA ChannelRest ==
  ASSUME NEW f, NEW q, NEW n \in Nat, IsChannel(f, q, n), NEW i \in DOMAIN q
  PROVE  /\ IsChannel(f, SubSeq(q, i + 1, Len(q)), n)
         /\ Len(SubSeq(q, i + 1, Len(q))) = Len(q) - i
         /\ \A j \in 1..(Len(q) - i) : SubSeq(q, i + 1, Len(q))[j] = q[i + j]
<1>1. PICK T : T = {q[j] : j \in 1..Len(q)}  OBVIOUS
<1>2. q \in Seq(T) /\ i \in 1..Len(q) /\ Len(q) \in Nat  BY <1>1 DEF IsChannel
<1>3. PICK b : b = SubSeq(q, i + 1, Len(q))  OBVIOUS
<1>4. b \in Seq(T) /\ Len(b) = Len(q) - i /\ \A j \in 1..(Len(q) - i) : b[j] = q[i + j]
  BY <1>2, <1>3
<1>5. IsChannel(f, b, n)
  <2>1. ASSUME NEW j \in 1..Len(b) PROVE IsItem(f, b[j], n)
    <3>1. i + j \in 1..Len(q)  BY <1>2, <1>4
    <3> QED  BY <1>4, <3>1 DEF IsChannel
  <2> QED  BY <1>2, <1>4, <2>1 DEF IsChannel
<1> QED  BY <1>3, <1>4, <1>5
-----------------------------------------------------------------------------
(* The steps.                                                              *)

LEMMA FramesNatural ==
  ASSUME NEW r \in Nat, NEW m \in Nat
  PROVE  FramesPerPacket(r, m) \in Nat
<1>1. PICK n \in Nat : n = r * m  OBVIOUS
<1>2. PICK x \in Int : x = (n + 500) \div 1000  OBVIOUS
<1>3. FramesPerPacket(r, m) = IF x < 1 THEN 1 ELSE IF x > U16Max THEN U16Max ELSE x
  BY <1>1, <1>2 DEF FramesPerPacket
<1>4. U16Max \in Nat  BY DEF U16Max
<1> QED  BY <1>3, <1>4

\* The next datagram of the client.
LEMMA NextItem ==
  ASSUME SessionInv, RsEncodes(Packet)
  PROVE  IsItem(Format, [id |-> sent + 1, datagram |-> RsEncoded(Packet)], sent + 1)
<1>1. PICK p : p = Packet  OBVIOUS
<1>2. PICK d : d = RsEncoded(p)  OBVIOUS
<1>3. sent \in Nat /\ sequence = sent % SequenceSpace /\ sequence \in Nat
  BY Wraps DEF SessionInv, SenderInv
<1>4. Format.rate \in Nat \ {0} /\ session.cli.packetMs \in Nat
  BY DEF SessionInv, SessionOK, IsFormat
<1>5. FramesPerPacket(Format.rate, session.cli.packetMs) \in Nat
  BY <1>4, FramesNatural
<1>6. /\ p.channels = Format.channels /\ p.rate = Format.rate /\ p.sequence = sequence
      /\ p.frames \in Nat
  BY <1>1, <1>5 DEF Packet
<1>7. /\ IsDatagram(d) /\ PyDecodes(d) /\ RsDecodes(d)
      /\ d.channels = Format.channels /\ d.rate = Format.rate /\ d.sequence = sequence
  BY <1>1, <1>2, <1>3, <1>4, <1>6, EncodedDecodes
<1>8. (sent + 1) - 1 = sent /\ sent + 1 \in 0..(sent + 1)  BY <1>3
<1> QED  BY <1>1, <1>2, <1>3, <1>7, <1>8 DEF IsItem, Ours

\* What is chosen for a device, the device supports; also when it is what the other
\* device got.
LEMMA ChosenSupported ==
  ASSUME NEW d, NEW f, NEW rate \in Nat, NEW channels, f \in ChooseConfig(d, rate, channels),
         IsDevice(d)
  PROVE  Supports(d, f)
<1>1. CASE f \in FindMatchingConfig(d, rate, channels)
  <2>1. PICK r \in d.ranges : /\ ConfigMatches(r, rate, channels)
                              /\ f = [rate |-> rate, channels |-> channels]
    BY <1>1 DEF FindMatchingConfig
  <2>2. /\ r.format = "f32" /\ r.channels = f.channels
        /\ f.rate = rate /\ r.min <= rate /\ rate <= r.max
    BY <2>1 DEF ConfigMatches
  <2>3. r.min \in Nat /\ r.max \in Nat  BY DEF IsDevice
  <2>4. f.rate \in r.min..r.max  BY <2>2, <2>3
  <2> QED  BY <2>2, <2>4 DEF Supports
<1>2. CASE f \in DefaultConfig(d)
  <2>1. PICK c \in d.default : c.format = "f32" /\ f = [rate |-> c.rate, channels |-> c.channels]
    BY <1>2 DEF DefaultConfig
  <2> QED  BY <2>1 DEF Supports
<1> QED  BY <1>1, <1>2 DEF ChooseConfig

\* Through whatever processor, a datagram stays as it is.
LEMMA ProcessedIsSame ==
  ASSUME NEW d, IsDatagram(d), NEW e \in Processed(d)
  PROVE  e = d
BY EncodedIsDecoded DEF Processed

LEMMA InitInv == Init => SessionInv
<1> SUFFICES ASSUME Init PROVE SessionInv  OBVIOUS
<1>1. PICK r \in Rigs : session \in {[setup |-> s, cli |-> r.cli] : s \in Negotiated(r.host, r.cli)}
  BY DEF Init
<1>2. PICK s \in Negotiated(r.host, r.cli) : session = [setup |-> s, cli |-> r.cli]
  BY <1>1
<1>3. PICK a \in SelectDevice(r.host.inputs, r.cli.capture, r.host.defaultInput),
           b \in SelectDevice(r.host.outputs, r.cli.playback, r.host.defaultOutput) :
        s \in {[input |-> a, output |-> b, format |-> f] :
                f \in {g \in ChooseConfig(a, r.cli.rate, r.cli.channels) :
                         g \in ChooseConfig(b, g.rate, g.channels)}}
  BY <1>2 DEF Negotiated
<1>4. PICK f : /\ s = [input |-> a, output |-> b, format |-> f]
               /\ f \in ChooseConfig(a, r.cli.rate, r.cli.channels)
               /\ f \in ChooseConfig(b, f.rate, f.channels)
  BY <1>3
<1>5. session.setup.input = a /\ session.setup.output = b /\ Format = f
      /\ session.cli = r.cli
  BY <1>2, <1>4 DEF Format
<1>6. /\ a \in r.host.inputs \cup r.host.defaultInput
      /\ b \in r.host.outputs \cup r.host.defaultOutput
  BY <1>3 DEF SelectDevice
<1>7. IsDevice(a) /\ IsDevice(b) /\ r.cli.rate \in Nat /\ r.cli.channels \in Nat /\ r.cli.packetMs \in Nat
  BY <1>6, SessionAssumption
<1>8. IsFormat(f)
  <2>1. CASE f \in FindMatchingConfig(a, r.cli.rate, r.cli.channels)
    <3>1. PICK c \in a.ranges : /\ ConfigMatches(c, r.cli.rate, r.cli.channels)
                                /\ f = [rate |-> r.cli.rate, channels |-> r.cli.channels]
      BY <2>1 DEF FindMatchingConfig
    <3>2. c.min \in Nat \ {0} /\ c.min <= r.cli.rate
      BY <1>7, <3>1 DEF IsDevice, ConfigMatches
    <3> QED  BY <1>7, <3>1, <3>2 DEF IsFormat
  <2>2. CASE f \in DefaultConfig(a)
    <3>1. PICK c \in a.default : f = [rate |-> c.rate, channels |-> c.channels]
      BY <2>2 DEF DefaultConfig
    <3> QED  BY <1>7, <3>1 DEF IsDevice, IsFormat
  <2> QED  BY <1>4, <2>1, <2>2 DEF ChooseConfig
<1>9. SessionOK
  <2>1. Supports(a, f)  BY <1>4, <1>7, <1>8, ChosenSupported DEF IsFormat
  <2>2. Supports(b, f)  BY <1>4, <1>7, <1>8, ChosenSupported DEF IsFormat
  <2> QED  BY <1>5, <1>7, <1>8, <2>1, <2>2 DEF SessionOK
<1>10. SenderInv
  <2>1. 0 = SequenceSpace * 0 + 0  BY SessionAssumption
  <2>2. 0 \in 0..(S - 1)  BY SessionAssumption DEF S
  <2>3. 0 % SequenceSpace = 0  BY <2>1, <2>2, Remainder DEF S
  <2> QED  BY <2>3 DEF Init, SenderInv
<1>11. ChannelsInv  BY DEF Init, ChannelsInv, IsChannel
<1>12. ReceiverInv  BY DEF Init, ReceiverInv, None, DiscontinuitiesReported
<1> QED  BY <1>9, <1>10, <1>11, <1>12 DEF SessionInv
LEMMA ChannelGet ==
  ASSUME NEW f, NEW q, NEW n, IsChannel(f, q, n), NEW i \in DOMAIN q
  PROVE  IsItem(f, q[i], n)
BY DEF IsChannel

LEMMA SendsStep ==
  ASSUME SessionInv, SenderSends
  PROVE  SessionInv'
<1>1. Format' = Format /\ session' = session  BY DEF SenderSends, Format
<1>2. sent \in Nat /\ sent' = sent + 1 /\ sequence = sent % SequenceSpace
  BY DEF SessionInv, SenderInv, SenderSends
<1>3. PICK x : x = [id |-> sent + 1, datagram |-> RsEncoded(Packet)]  OBVIOUS
<1>4. IsItem(Format, x, sent')  BY <1>2, <1>3, NextItem DEF SenderSends, CanSend
<1>5. IsChannel(Format, up, sent') /\ IsChannel(Format, held, sent')
      /\ IsChannel(Format, down, sent')
  BY <1>2, ChannelGrows DEF SessionInv, ChannelsInv
<1>6. IsChannel(Format, Append(up, x), sent')  BY <1>2, <1>4, <1>5, ChannelAppend
<1>7. ChannelsInv'
  BY <1>1, <1>3, <1>5, <1>6 DEF ChannelsInv, SenderSends
<1>8. SenderInv'
  <2>1. sequence' = (sequence + 1) % SequenceSpace  BY DEF SenderSends, NextSequence
  <2> QED  BY <1>2, <2>1, WrappingSuccessor DEF SenderInv, S
<1>9. SessionOK'  BY <1>1 DEF SessionInv, SessionOK
<1>10. ReceiverInv'
  BY <1>1, <1>2 DEF SenderSends, SessionInv, ReceiverInv, DiscontinuitiesReported
<1> QED  BY <1>7, <1>8, <1>9, <1>10 DEF SessionInv

\* Steps of network and server: only the channels change.
LEMMA MovesStep ==
  ASSUME SessionInv, UNCHANGED <<session, sequence, sent, expected, last>>,
         IsChannel(Format, up', sent), IsChannel(Format, held', sent),
         IsChannel(Format, down', sent)
  PROVE  SessionInv'
<1>1. Format' = Format  BY DEF Format
<1> QED
  BY <1>1 DEF SessionInv, SessionOK, SenderInv, ChannelsInv, ReceiverInv,
     DiscontinuitiesReported

\* What the receiver takes in, and what it says of it.
LEMMA HeardKeeps ==
  ASSUME SessionInv, NEW x, IsItem(Format, x, sent), Heard(x),
         UNCHANGED <<session, sequence, sent>>
  PROVE  ReceiverInv'
<1>1. Format' = Format  BY DEF Format
<1>2. PICK d : d = x.datagram /\ IsDatagram(d)  BY DEF IsItem
<1>3. CASE ~Compatible(d)
  BY <1>1, <1>2, <1>3 DEF Heard, SessionInv, ReceiverInv, DiscontinuitiesReported
<1>4. CASE Compatible(d)
  <2>1. /\ expected' = (d.sequence + 1) % SequenceSpace
        /\ last' = [id |-> x.id, before |-> last.id, heard |-> {d},
                    reported |-> expected # None /\ d.sequence # expected]
    BY <1>2, <1>4 DEF Heard, Following
  <2>2. /\ last'.id = x.id /\ last'.before = last.id /\ last'.heard = {d}
        /\ last'.reported <=> (expected # None /\ d.sequence # expected)
    BY <2>1
  <2>3. x.id \in 0..sent /\ last.id \in 0..sent /\ sent \in Nat
    BY DEF IsItem, SessionInv, ReceiverInv, SenderInv
  <2>4. d.sequence \in Nat  BY <1>2, DatagramFields
  <2>5. expected' \in Nat  BY <2>1, <2>4, Wraps
  <2>6. ASSUME x.id # 0 PROVE d.sequence = (x.id - 1) % SequenceSpace
    BY <1>2, <2>6 DEF IsItem, Ours
  <2>7. ASSUME x.id # 0 PROVE expected' = x.id % SequenceSpace
    <3>1. PICK n \in Int : n = x.id - 1  BY <2>3
    <3>2. n + 1 = x.id  BY <2>3, <3>1
    <3>3. ((n % S) + 1) % S = (n + 1) % S  BY <3>1, WrappingSuccessor
    <3> QED  BY <2>1, <2>6, <2>7, <3>1, <3>2, <3>3 DEF S
  <2>8. ASSUME x.id # 0, last.id # 0
        PROVE  last'.reported <=> (x.id - last.id) % SequenceSpace # 1
    <3>1. expected = last.id % SequenceSpace  BY <2>8 DEF SessionInv, ReceiverInv
    <3>2. expected # None  BY <2>3, <3>1, Wraps DEF None
    <3>3. (x.id - 1) % S = last.id % S <=> (x.id - last.id) % S = 1
      <4>1. PICK a \in Int, b \in Int : a = last.id /\ b = x.id  BY <2>3
      <4>2. (b - 1) % S = a % S <=> (b - a) % S = 1  BY WrappedDistance
      <4> QED  BY <4>1, <4>2
    <3>4. d.sequence = (x.id - 1) % S /\ expected = last.id % S  BY <2>6, <2>8, <3>1 DEF S
    <3>5. last'.reported <=> d.sequence # expected  BY <2>2, <3>2
    <3>6. last'.reported <=> ~((x.id - last.id) % S = 1)  BY ONLY <3>3, <3>4, <3>5
    <3> QED  BY <3>6 DEF S
  <2>9. DiscontinuitiesReported'
    BY <2>2, <2>8 DEF DiscontinuitiesReported
  <2>10. RsDecodes(d) /\ d.rate = Format.rate /\ d.channels = Format.channels
    BY <1>4 DEF Compatible
  <2> QED
    BY <1>1, <1>2, <2>2, <2>3, <2>5, <2>7, <2>9, <2>10 DEF ReceiverInv
<1> QED  BY <1>3, <1>4
\* What Take leaves is a channel.
LEMMA TakeKeeps ==
  ASSUME NEW f, NEW q, NEW n \in Nat, IsChannel(f, q, n), NEW i \in DOMAIN q, NEW rest,
         rest \in {RemoveAt(q, i), q}
  PROVE  IsChannel(f, rest, n)
BY ChannelRemove

LEMMA IngressKeeps ==
  ASSUME NEW x, IsChannel(Format, held, sent), IsItem(Format, x, sent), sent \in Nat,
         Ingress(x)
  PROVE  IsChannel(Format, held', sent)
<1>1. held' = held \/ held' = Append(held, x)  BY DEF Ingress
<1> QED  BY <1>1, ChannelAppend

LEMMA StrayItem ==
  ASSUME NEW d \in Strays, sent \in Nat
  PROVE  IsItem(Format, [id |-> 0, datagram |-> d], sent)
BY SessionAssumption DEF IsItem

LEMMA StepInv ==
  ASSUME SessionInv, [Next]_vars
  PROVE  SessionInv'
<1>1. /\ sent \in Nat /\ IsChannel(Format, up, sent) /\ IsChannel(Format, held, sent)
      /\ IsChannel(Format, down, sent)
  BY DEF SessionInv, SenderInv, ChannelsInv
<1>2. CASE SenderSends  BY <1>2, SendsStep
<1>3. CASE SenderFails  BY <1>1, <1>3, MovesStep DEF SenderFails
<1>4. CASE LostUp
  <2>1. PICK i \in DOMAIN up : up' = RemoveAt(up, i)  BY <1>4 DEF LostUp
  <2>2. IsChannel(Format, up', sent)  BY <1>1, <2>1, ChannelRemove
  <2> QED  BY <1>1, <1>4, <2>2, MovesStep DEF LostUp
<1>5. CASE LostDown
  <2>1. PICK i \in DOMAIN down : down' = RemoveAt(down, i)  BY <1>5 DEF LostDown
  <2>2. IsChannel(Format, down', sent)  BY <1>1, <2>1, ChannelRemove
  <2> QED  BY <1>1, <1>5, <2>2, MovesStep DEF LostDown
<1>6. CASE ServerReceives
  <2>1. PICK i \in DOMAIN up : up' \in {RemoveAt(up, i), up} /\ Ingress(up[i])
    BY <1>6 DEF ServerReceives, Take
  <2>2. IsChannel(Format, up', sent)  BY <1>1, <2>1, TakeKeeps
  <2>3. IsItem(Format, up[i], sent)  BY <1>1, <2>1, ChannelGet
  <2>4. IsChannel(Format, held', sent)  BY <1>1, <2>1, <2>3, IngressKeeps
  <2> QED  BY <1>1, <1>6, <2>2, <2>4, MovesStep DEF ServerReceives
<1>7. CASE ServerAnswers
  <2>1. PICK i \in DOMAIN held :
          /\ held' = SubSeq(held, i + 1, Len(held))
          /\ \E d \in Processed(held[i].datagram) :
               down' = Append(down, [held[i] EXCEPT !.datagram = d])
    BY <1>7 DEF ServerAnswers, Rest
  <2>2. PICK x : x = held[i]  OBVIOUS
  <2>3. IsItem(Format, x, sent)  BY <1>1, <2>2, ChannelGet
  <2>4. PICK d \in Processed(x.datagram) : down' = Append(down, [x EXCEPT !.datagram = d])
    BY <2>1, <2>2
  <2>5. [x EXCEPT !.datagram = d] = x
    <3>1. d = x.datagram  BY <2>3, ProcessedIsSame DEF IsItem
    <3> QED  BY <2>3, <3>1 DEF IsItem
  <2>6. IsChannel(Format, Append(down, x), sent)  BY <1>1, <2>3, ChannelAppend
  <2>7. IsChannel(Format, down', sent)  BY <2>4, <2>5, <2>6
  <2>8. IsChannel(Format, held', sent)  BY <1>1, <2>1, ChannelRest
  <2> QED  BY <1>1, <1>7, <2>7, <2>8, MovesStep DEF ServerAnswers
<1>8. CASE ReceiverReceives
  <2>1. PICK i \in DOMAIN down : down' \in {RemoveAt(down, i), down} /\ Heard(down[i])
    BY <1>8 DEF ReceiverReceives, Take
  <2>2. IsChannel(Format, down', sent)  BY <1>1, <2>1, TakeKeeps
  <2>3. IsItem(Format, down[i], sent)  BY <1>1, <2>1, ChannelGet
  <2>4. UNCHANGED <<session, sequence, sent, up, held>>  BY <1>8 DEF ReceiverReceives
  <2>5. ReceiverInv'  BY <2>1, <2>3, <2>4, HeardKeeps
  <2> QED
    BY <1>1, <2>2, <2>4, <2>5 DEF SessionInv, SessionOK, SenderInv, ChannelsInv, Format
<1>9. CASE Stray
  <2>1. UNCHANGED <<session, sequence, sent, up, down>>  BY <1>9 DEF Stray
  <2>2. PICK d \in Strays :
          \/ /\ Ingress([id |-> 0, datagram |-> d])
             /\ UNCHANGED <<expected, last>>
          \/ Heard([id |-> 0, datagram |-> d]) /\ UNCHANGED held
    BY <1>9 DEF Stray
  <2>3. PICK x : x = [id |-> 0, datagram |-> d] /\ IsItem(Format, x, sent)
    BY <1>1, StrayItem
  <2>4. CASE Ingress(x) /\ UNCHANGED <<expected, last>>
    <3>1. IsChannel(Format, held', sent)  BY <1>1, <2>3, <2>4, IngressKeeps
    <3> QED  BY <1>1, <2>1, <2>4, <3>1, MovesStep
  <2>5. CASE Heard(x) /\ UNCHANGED held
    <3>1. ReceiverInv'  BY <2>1, <2>3, <2>5, HeardKeeps
    <3> QED
      BY <1>1, <2>1, <2>5, <3>1 DEF SessionInv, SessionOK, SenderInv, ChannelsInv, Format
  <2> QED  BY <2>2, <2>3, <2>4, <2>5
<1>10. CASE UNCHANGED vars
  BY <1>10 DEF vars, SessionInv, SessionOK, SenderInv, ChannelsInv, ReceiverInv,
     DiscontinuitiesReported, Format
<1> QED
  BY <1>2, <1>3, <1>4, <1>5, <1>6, <1>7, <1>8, <1>9, <1>10 DEF Next

-----------------------------------------------------------------------------
(* The theorems.                                                           *)

\* The invariant holds whatever the network loses, repeats and reorders.
THEOREM SessionInvariant == Spec => []SessionInv
BY InitInv, StepInv, PTL DEF Spec

\* Whatever is under way and came from the client, both codecs decode, with the
\* number it was sent with.
THEOREM Codecs == Spec => []CodecsAgree
<1>1. SessionInv => CodecsAgree
  <2> SUFFICES ASSUME SessionInv PROVE CodecsAgree  OBVIOUS
  <2>1. DecodersAgree
    BY DecodersAgreeOnEverything, SessionAssumption DEF DecodersAgree
  <2>2. ASSUME NEW q, IsChannel(Format, q, sent), NEW j \in DOMAIN q, q[j].id # 0
        PROVE  /\ PyDecodes(q[j].datagram) /\ RsDecodes(q[j].datagram)
               /\ q[j].datagram.sequence = (q[j].id - 1) % SequenceSpace
    <3>1. IsItem(Format, q[j], sent)  BY <2>2, ChannelGet
    <3> QED  BY <2>2, <3>1 DEF IsItem, Ours
  <2>3. ASSUME NEW i \in 1..3 PROVE IsChannel(Format, <<up, held, down>>[i], sent)
    BY DEF SessionInv, ChannelsInv
  <2> QED  BY <2>1, <2>2, <2>3 DEF CodecsAgree
<1> QED  BY <1>1, SessionInvariant, PTL

\* A report for each gap and none without, across the wrap of the number.
THEOREM Discontinuities == Spec => []DiscontinuitiesReported
<1>1. SessionInv => DiscontinuitiesReported  BY DEF SessionInv, ReceiverInv
<1> QED  BY <1>1, SessionInvariant, PTL

\* What is heard has the format both devices were opened with.
THEOREM FormatEndToEnd == Spec => []OneFormat
<1>1. SessionInv => OneFormat
  <2> SUFFICES ASSUME SessionInv PROVE OneFormat  OBVIOUS
  <2>1. ASSUME NEW d \in last.heard
        PROVE  d.rate = Format.rate /\ Samples(d) = d.frames * Format.channels
    <3>1. /\ IsDatagram(d) /\ RsDecodes(d) /\ d.rate = Format.rate
          /\ d.channels = Format.channels /\ d.rate # 0
      BY DEF SessionInv, SessionOK, IsFormat, ReceiverInv
    <3>2. PyDecodes(d)  BY <3>1, DecodersAgreeOnEverything
    <3>3. d.channels * d.frames = d.frames * d.channels  BY <3>1, DatagramFields
    <3> QED  BY <3>1, <3>2, <3>3, EncodedIsDecoded
  <2> QED  BY <2>1 DEF OneFormat, SessionInv, SessionOK
<1> QED  BY <1>1, SessionInvariant, PTL
-----------------------------------------------------------------------------
(* The order of the packets, as long as the network keeps it.              *)

Ids(q) == {q[i].id : i \in 1..Len(q)} \ {0}
Rising(q) == \A i, j \in 1..Len(q) : i < j /\ q[i].id # 0 /\ q[j].id # 0 => q[i].id < q[j].id
Before(A, B) == \A a \in A, b \in B : a < b

OrderInv ==
  /\ newest \in 0..sent
  /\ ~disturbed =>
       /\ Rising(up) /\ Rising(held) /\ Rising(down)
       /\ Before({newest}, Ids(down) \cup Ids(held) \cup Ids(up))
       /\ Before(Ids(down), Ids(held) \cup Ids(up)) /\ Before(Ids(held), Ids(up))

LEMMA IdsNatural ==
  ASSUME NEW f, NEW q, NEW n \in Nat, IsChannel(f, q, n)
  PROVE  Ids(q) \subseteq 1..n
BY DEF IsChannel, IsItem, Ids

LEMMA AppendOrder ==
  ASSUME NEW f, NEW q, NEW n \in Nat, IsChannel(f, q, n), NEW x, IsItem(f, x, n)
  PROVE  /\ Ids(Append(q, x)) = Ids(q) \cup ({x.id} \ {0})
         /\ Rising(q) /\ Before(Ids(q), {x.id} \ {0}) => Rising(Append(q, x))
<1>1. PICK T : T = {q[i] : i \in 1..Len(q)} \cup {x}  OBVIOUS
<1>2. q \in Seq(T) /\ x \in T  BY <1>1 DEF IsChannel
<1>3. PICK r : r = Append(q, x)  OBVIOUS
<1>4. PICK l \in Nat : l = Len(q)  BY <1>2
<1>5. Len(r) = l + 1 /\ r[l + 1] = x /\ \A i \in 1..l : r[i] = q[i]
  BY <1>2, <1>3, <1>4
<1>6. Ids(r) = Ids(q) \cup ({x.id} \ {0})
  <2>1. 1..(l + 1) = (1..l) \cup {l + 1}  OBVIOUS
  <2> QED  BY <1>4, <1>5, <2>1 DEF Ids
<1>7. ASSUME Rising(q), Before(Ids(q), {x.id} \ {0}) PROVE Rising(r)
  <2> SUFFICES ASSUME NEW i \in 1..(l + 1), NEW j \in 1..(l + 1), i < j,
                      r[i].id # 0, r[j].id # 0
               PROVE  r[i].id < r[j].id
    BY <1>5 DEF Rising
  <2>1. i \in 1..l  OBVIOUS
  <2>2. CASE j \in 1..l  BY <1>4, <1>5, <1>7, <2>1, <2>2 DEF Rising
  <2>3. CASE j = l + 1
    <3>1. q[i].id \in Ids(q) /\ r[i].id = q[i].id  BY <1>4, <1>5, <2>1 DEF Ids
    <3>2. r[j].id = x.id /\ x.id # 0  BY <1>5, <2>3
    <3> QED  BY <1>7, <3>1, <3>2 DEF Before
  <2> QED  BY <2>2, <2>3
<1> QED  BY <1>3, <1>6, <1>7

LEMMA RemoveOrder ==
  ASSUME NEW f, NEW q, NEW n \in Nat, IsChannel(f, q, n), NEW i \in DOMAIN q
  PROVE  /\ Ids(RemoveAt(q, i)) \subseteq Ids(q)
         /\ Rising(q) => Rising(RemoveAt(q, i))
         /\ i = 1 /\ Rising(q) => Before({q[1].id} \ {0}, Ids(RemoveAt(q, i)))
<1>1. PICK r : r = RemoveAt(q, i)  OBVIOUS
<1>2. PICK l \in Nat : l = Len(q) /\ i \in 1..l  BY DEF IsChannel
<1>3. Len(r) = l - 1 /\ \A j \in 1..(l - 1) : r[j] = q[IF j < i THEN j ELSE j + 1]
  BY <1>1, <1>2, ChannelRemove
<1>4. \A j \in 1..(l - 1) : (IF j < i THEN j ELSE j + 1) \in 1..l  BY <1>2
<1>5. Ids(r) \subseteq Ids(q)  BY <1>2, <1>3, <1>4 DEF Ids
<1>6. ASSUME Rising(q) PROVE Rising(r)
  <2> SUFFICES ASSUME NEW j \in 1..(l - 1), NEW k \in 1..(l - 1), j < k,
                      r[j].id # 0, r[k].id # 0
               PROVE  r[j].id < r[k].id
    BY <1>3 DEF Rising
  <2>1. PICK a \in 1..l : a = IF j < i THEN j ELSE j + 1  BY <1>4
  <2>2. PICK b \in 1..l : b = IF k < i THEN k ELSE k + 1  BY <1>4
  <2>3. a < b  BY <1>2, <2>1, <2>2
  <2>4. r[j] = q[a] /\ r[k] = q[b]  BY <1>3, <2>1, <2>2
  <2> QED  BY <1>2, <1>6, <2>3, <2>4 DEF Rising
<1>7. ASSUME i = 1, Rising(q) PROVE Before({q[1].id} \ {0}, Ids(r))
  <2> SUFFICES ASSUME NEW j \in 1..(l - 1), q[1].id # 0, r[j].id # 0
               PROVE  q[1].id < r[j].id
    BY <1>3 DEF Before, Ids
  <2>1. r[j] = q[j + 1] /\ j + 1 \in 1..l /\ 1 \in 1..l /\ 1 < j + 1  BY <1>2, <1>3, <1>7
  <2> QED  BY <1>2, <1>7, <2>1 DEF Rising
<1> QED  BY <1>1, <1>5, <1>6, <1>7

LEMMA RestOrder ==
  ASSUME NEW f, NEW q, NEW n \in Nat, IsChannel(f, q, n), NEW i \in DOMAIN q, Rising(q)
  PROVE  LET r == SubSeq(q, i + 1, Len(q))
         IN  Ids(r) \subseteq Ids(q) /\ Rising(r) /\ Before({q[i].id} \ {0}, Ids(r))
<1>1. PICK r : r = SubSeq(q, i + 1, Len(q))  OBVIOUS
<1>2. PICK l \in Nat : l = Len(q) /\ i \in 1..l  BY DEF IsChannel
<1>3. Len(r) = l - i /\ \A j \in 1..(l - i) : r[j] = q[i + j]
  BY <1>1, <1>2, ChannelRest
<1>4. \A j \in 1..(l - i) : i + j \in 1..l /\ i < i + j  BY <1>2
<1>5. Ids(r) \subseteq Ids(q)  BY <1>2, <1>3, <1>4 DEF Ids
<1>6. Rising(r)
  <2> SUFFICES ASSUME NEW j \in 1..(l - i), NEW k \in 1..(l - i), j < k,
                      r[j].id # 0, r[k].id # 0
               PROVE  r[j].id < r[k].id
    BY <1>3 DEF Rising
  <2>1. i + j < i + k  BY <1>2
  <2> QED  BY <1>2, <1>3, <1>4, <2>1 DEF Rising
<1>7. Before({q[i].id} \ {0}, Ids(r))
  <2> SUFFICES ASSUME NEW j \in 1..(l - i), q[i].id # 0, r[j].id # 0
               PROVE  q[i].id < r[j].id
    BY <1>3 DEF Before, Ids
  <2> QED  BY <1>2, <1>3, <1>4 DEF Rising
<1> QED  BY <1>1, <1>5, <1>6, <1>7
\* Packets the receiver hears move `newest` on; strays do not.
LEMMA OrderStep ==
  ASSUME SessionInv, OrderInv, [Next]_vars
  PROVE  OrderInv'
<1>1. /\ sent \in Nat /\ IsChannel(Format, up, sent) /\ IsChannel(Format, held, sent)
      /\ IsChannel(Format, down, sent) /\ newest \in 0..sent
  BY DEF SessionInv, SenderInv, ChannelsInv, OrderInv
<1>2. /\ Ids(up) \subseteq 1..sent /\ Ids(held) \subseteq 1..sent
      /\ Ids(down) \subseteq 1..sent
  BY <1>1, IdsNatural
<1>3. CASE SenderSends
  <2>1. PICK x : x = [id |-> sent + 1, datagram |-> RsEncoded(Packet)]  OBVIOUS
  <2>2. /\ up' = Append(up, x) /\ sent' = sent + 1 /\ x.id = sent + 1
        /\ UNCHANGED <<held, down, newest, disturbed>>
    BY <1>3, <2>1 DEF SenderSends
  <2>3. IsItem(Format, x, sent + 1) /\ IsChannel(Format, up, sent + 1) /\ sent + 1 \in Nat
    BY <1>1, <1>3, <2>1, NextItem, ChannelGrows DEF SenderSends, CanSend
  <2>4. /\ Ids(up') = Ids(up) \cup {sent + 1}
        /\ Rising(up) /\ Before(Ids(up), {sent + 1}) => Rising(up')
    <3>1. PICK m \in Nat : m = sent + 1 /\ m # 0  BY <1>1
    <3>2. {x.id} \ {0} = {m}  BY <2>2, <3>1
    <3>3. IsItem(Format, x, m) /\ IsChannel(Format, up, m)  BY <2>3, <3>1
    <3>4. /\ Ids(Append(up, x)) = Ids(up) \cup ({x.id} \ {0})
          /\ Rising(up) /\ Before(Ids(up), {x.id} \ {0}) => Rising(Append(up, x))
      BY <3>3, AppendOrder
    <3> QED  BY <2>2, <3>1, <3>2, <3>4
  <2>5. \A a \in Ids(up) \cup Ids(held) \cup Ids(down) \cup {newest} : a < sent + 1
    BY <1>1, <1>2
  <2> QED  BY <1>1, <2>2, <2>4, <2>5 DEF OrderInv, Before
<1>4. CASE SenderFails  BY <1>4 DEF SenderFails, OrderInv
<1>5. CASE LostUp
  <2>1. PICK i \in DOMAIN up : up' = RemoveAt(up, i)  BY <1>5 DEF LostUp
  <2>2. Ids(up') \subseteq Ids(up) /\ (Rising(up) => Rising(up'))
    BY <1>1, <2>1, RemoveOrder
  <2> QED  BY <1>5, <2>2 DEF LostUp, OrderInv, Before
<1>6. CASE LostDown
  <2>1. PICK i \in DOMAIN down : down' = RemoveAt(down, i)  BY <1>6 DEF LostDown
  <2>2. Ids(down') \subseteq Ids(down) /\ (Rising(down) => Rising(down'))
    BY <1>1, <2>1, RemoveOrder
  <2> QED  BY <1>6, <2>2 DEF LostDown, OrderInv, Before
<1>7. CASE ServerReceives
  <2>1. PICK i \in DOMAIN up :
          /\ up' \in {RemoveAt(up, i), up} /\ Ingress(up[i])
          /\ disturbed' = (disturbed \/ i # 1 \/ up' = up)
    BY <1>7 DEF ServerReceives, Take
  <2>2. UNCHANGED <<down, newest, sent>>  BY <1>7 DEF ServerReceives
  <2>3. SUFFICES ASSUME ~disturbed' PROVE OrderInv'
    BY <1>1, <2>2 DEF OrderInv
  <2>4. ~disturbed /\ i = 1 /\ up' = RemoveAt(up, i)  BY <2>1, <2>3
  <2>5. PICK x : x = up[1] /\ IsItem(Format, x, sent)  BY <1>1, <2>1, <2>4, ChannelGet
  <2>6. /\ Ids(up') \subseteq Ids(up) /\ Rising(up') /\ Before({x.id} \ {0}, Ids(up'))
    BY <1>1, <2>1, <2>4, <2>5, RemoveOrder DEF OrderInv
  <2>7. {x.id} \ {0} \subseteq Ids(up)  BY <1>1, <2>1, <2>4, <2>5 DEF Ids, IsChannel
  <2>8. \/ held' = held
        \/ held' = Append(held, x)
    BY <2>1, <2>4, <2>5 DEF Ingress
  <2>9. Before(Ids(held), {x.id} \ {0})  BY <2>4, <2>7 DEF OrderInv, Before
  <2>10. /\ Ids(Append(held, x)) = Ids(held) \cup ({x.id} \ {0})
         /\ Rising(Append(held, x))
    BY <1>1, <2>4, <2>5, <2>9, AppendOrder DEF OrderInv
  <2>11. Ids(held') \subseteq Ids(held) \cup ({x.id} \ {0}) /\ Rising(held')
    BY <2>4, <2>8, <2>10 DEF OrderInv
  <2>12. Before(Ids(held'), Ids(up'))
    BY <2>4, <2>6, <2>11 DEF OrderInv, Before
  <2>13. Ids(held') \cup Ids(up') \subseteq Ids(held) \cup Ids(up)  BY <2>6, <2>7, <2>11
  <2> QED  BY <1>1, <2>2, <2>4, <2>6, <2>11, <2>12, <2>13 DEF OrderInv, Before
<1>8. CASE ServerAnswers
  <2>1. PICK i \in DOMAIN held :
          /\ held' = SubSeq(held, i + 1, Len(held))
          /\ \E d \in Processed(held[i].datagram) :
               down' = Append(down, [held[i] EXCEPT !.datagram = d])
    BY <1>8 DEF ServerAnswers, Rest
  <2>2. UNCHANGED <<up, newest, sent, disturbed>>  BY <1>8 DEF ServerAnswers
  <2>3. SUFFICES ASSUME ~disturbed PROVE OrderInv'
    BY <1>1, <2>2 DEF OrderInv
  <2>4. PICK x : x = held[i] /\ IsItem(Format, x, sent)  BY <1>1, <2>1, ChannelGet
  <2>5. down' = Append(down, x)
    <3>1. PICK d \in Processed(x.datagram) : down' = Append(down, [x EXCEPT !.datagram = d])
      BY <2>1, <2>4
    <3>2. d = x.datagram  BY <2>4, ProcessedIsSame DEF IsItem
    <3>3. [x EXCEPT !.datagram = d] = x  BY <2>4, <3>2 DEF IsItem
    <3> QED  BY <3>1, <3>3
  <2>6. /\ Ids(held') \subseteq Ids(held) /\ Rising(held') /\ Before({x.id} \ {0}, Ids(held'))
    BY <1>1, <2>1, <2>3, <2>4, RestOrder DEF OrderInv
  <2>7. {x.id} \ {0} \subseteq Ids(held)  BY <1>1, <2>1, <2>4 DEF Ids, IsChannel
  <2>8. Before(Ids(down), {x.id} \ {0})  BY <2>3, <2>7 DEF OrderInv, Before
  <2>9. Ids(down') = Ids(down) \cup ({x.id} \ {0}) /\ Rising(down')
    BY <1>1, <2>3, <2>4, <2>5, <2>8, AppendOrder DEF OrderInv
  <2>10. Before(Ids(down'), Ids(held') \cup Ids(up))
    BY <2>3, <2>6, <2>7, <2>9 DEF OrderInv, Before
  <2>11. Before(Ids(held'), Ids(up))  BY <2>3, <2>6 DEF OrderInv, Before
  <2>12. Before({newest}, Ids(down') \cup Ids(held') \cup Ids(up))
    BY <2>3, <2>6, <2>7, <2>9 DEF OrderInv, Before
  <2> QED  BY <1>1, <2>2, <2>3, <2>6, <2>9, <2>10, <2>11, <2>12 DEF OrderInv
<1>9. CASE ReceiverReceives
  <2>1. PICK i \in DOMAIN down :
          /\ down' \in {RemoveAt(down, i), down} /\ Heard(down[i])
          /\ disturbed' = (disturbed \/ i # 1 \/ down' = down)
    BY <1>9 DEF ReceiverReceives, Take
  <2>2. UNCHANGED <<up, held, sent>>  BY <1>9 DEF ReceiverReceives
  <2>3. PICK x : x = down[i] /\ IsItem(Format, x, sent)  BY <1>1, <2>1, ChannelGet
  <2>4. newest' \in {newest, x.id} /\ newest' \in 0..sent'
    BY <1>1, <2>1, <2>2, <2>3 DEF Heard, IsItem
  <2>5. SUFFICES ASSUME ~disturbed' PROVE OrderInv'
    BY <2>4 DEF OrderInv
  <2>6. ~disturbed /\ i = 1 /\ down' = RemoveAt(down, i)  BY <2>1, <2>5
  <2>7. /\ Ids(down') \subseteq Ids(down) /\ Rising(down')
        /\ Before({x.id} \ {0}, Ids(down'))
    BY <1>1, <2>1, <2>3, <2>6, RemoveOrder DEF OrderInv
  <2>8. {x.id} \ {0} \subseteq Ids(down)  BY <1>1, <2>1, <2>3, <2>6 DEF Ids, IsChannel
  <2>9. newest' = newest \/ (newest' = x.id /\ x.id # 0)
    BY <1>1, <2>1, <2>3 DEF Heard, IsItem
  <2>10. Before({newest'}, Ids(down') \cup Ids(held) \cup Ids(up))
    <3>1. Before({newest}, Ids(down') \cup Ids(held) \cup Ids(up))
      BY <2>6, <2>7 DEF OrderInv, Before
    <3>2. ASSUME x.id # 0 PROVE Before({x.id}, Ids(down') \cup Ids(held) \cup Ids(up))
      BY <2>6, <2>7, <2>8, <3>2 DEF OrderInv, Before
    <3> QED  BY <2>9, <3>1, <3>2
  <2> QED  BY <2>2, <2>4, <2>6, <2>7, <2>10 DEF OrderInv, Before
<1>10. CASE Stray
  <2>1. UNCHANGED <<sent, up, down, disturbed>>  BY <1>10 DEF Stray
  <2>2. PICK d \in Strays :
          \/ /\ Ingress([id |-> 0, datagram |-> d]) /\ UNCHANGED newest
          \/ Heard([id |-> 0, datagram |-> d]) /\ UNCHANGED held
    BY <1>10 DEF Stray
  <2>3. PICK x : x = [id |-> 0, datagram |-> d] /\ IsItem(Format, x, sent)
    BY <1>1, StrayItem
  <2>4. newest' = newest  BY <1>1, <2>2, <2>3 DEF Heard
  <2>5. held' = held \/ held' = Append(held, x)  BY <2>2, <2>3 DEF Ingress
  <2>6. x.id = 0 /\ {x.id} \ {0} = {}  BY <2>3
  <2>7. Ids(Append(held, x)) = Ids(held) /\ (Rising(held) => Rising(Append(held, x)))
    BY <1>1, <2>3, <2>6, AppendOrder DEF Before
  <2>8. Ids(held') = Ids(held) /\ (Rising(held) => Rising(held'))  BY <2>5, <2>7
  <2> QED  BY <2>1, <2>4, <2>8 DEF OrderInv
<1>11. CASE UNCHANGED vars  BY <1>11 DEF vars, OrderInv
<1> QED
  BY <1>3, <1>4, <1>5, <1>6, <1>7, <1>8, <1>9, <1>10, <1>11 DEF Next

\* Where neither way reorders nor repeats, what the client plays is in the order of
\* the capture, strangers and dropped packets notwithstanding.
THEOREM CaptureOrder == Spec => InCaptureOrder
<1>1. Init => OrderInv
  BY DEF Init, OrderInv, Ids, Rising, Before
<1>2. Spec => [](SessionInv /\ OrderInv)
  BY <1>1, InitInv, StepInv, OrderStep, PTL DEF Spec
<1>3. ASSUME SessionInv, OrderInv, [Next]_vars, last' # last, last'.id # 0, ~disturbed'
      PROVE  last'.id > newest
  <2>1. CASE ReceiverReceives
    <3>1. PICK i \in DOMAIN down :
            /\ down' \in {RemoveAt(down, i), down} /\ Heard(down[i])
            /\ disturbed' = (disturbed \/ i # 1 \/ down' = down)
      BY <2>1 DEF ReceiverReceives, Take
    <3>2. ~disturbed  BY <1>3, <3>1
    <3>3. last'.id = down[i].id  BY <1>3, <3>1 DEF Heard
    <3>4. down[i].id \in Ids(down)
      BY <1>3, <3>1, <3>3 DEF Ids, SessionInv, ChannelsInv, IsChannel
    <3>5. Ids(down) \subseteq Nat /\ newest \in Nat
      BY <1>3, IdsNatural DEF SessionInv, SenderInv, ChannelsInv, OrderInv
    <3> QED  BY <1>3, <3>2, <3>3, <3>4, <3>5 DEF OrderInv, Before
  <2>2. CASE Stray
    <3>1. last' = last \/ last'.id = 0  BY <2>2 DEF Stray, Heard
    <3> QED  BY <1>3, <3>1
  <2>3. last' = last \/ ReceiverReceives \/ Stray
    BY <1>3 DEF Next, vars, SenderSends, SenderFails, LostUp, LostDown, ServerReceives,
       ServerAnswers
  <2> QED  BY <1>3, <2>1, <2>2, <2>3
<1>4. SessionInv /\ OrderInv /\ [Next]_vars =>
        [last' # last /\ last'.id # 0 /\ ~disturbed' => last'.id > newest]_vars
  BY <1>3
<1> QED  BY <1>2, <1>4, PTL DEF Spec, InCaptureOrder
=============================================================================
