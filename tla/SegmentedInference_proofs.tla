---------------------- MODULE SegmentedInference_proofs ----------------------
(***************************************************************************)
(* Theorems about SegmentedInference, for every set of formats and packet  *)
(* sizes, every segment length and any number of packets and resets.       *)
(***************************************************************************)
EXTENDS SegmentedInference, Segments_proofs

\* Packets that came after the last reset.
Fresh == {p \in Packet : p.number \in (resetAt + 1)..arrived}

\* Those of the stream that is being collected.
OfStream == {p \in Fresh : p.format = format}

ControlInv ==
  /\ arrived \in 0..MaxPackets
  /\ task \in {"none", "running", "done", "short", "failed", "cancelled"}
  /\ format \in Formats \cup {NoFormat}
  /\ lastError \in BOOLEAN
  /\ resets \in 0..MaxResets /\ resetAt \in 0..arrived
  /\ out \in Seq(1..MaxPackets)

\* Inference takes the format of a segment from its first packet, and reset()
\* makes room for another format: what is buffered is of the stream and fresh.
SegmentInv ==
  /\ input \in Seq(OfStream) /\ active \in Seq(OfStream) /\ ready \in Seq(Fresh)
  /\ inputFrames = FramesOf(input)
  /\ task = "none" => active = <<>>

SegInv == ControlInv /\ SegmentInv

LEMMA PacketFields ==
  ASSUME NEW p \in Packet
  PROVE  p.number \in Nat /\ p.number \in 1..MaxPackets /\ p.frames \in Nat
         /\ p.format \in Formats
<1>1. p.number \in 1..MaxPackets /\ p.frames \in FrameCounts /\ p.format \in Formats
  BY DEF Packet
<1>2. p.number \in Nat  BY <1>1
<1>3. p.frames \in Nat  BY <1>1, SegmentedAssumption
<1> QED  BY <1>1, <1>2, <1>3

LEMMA FreshPackets ==
  ASSUME ControlInv
  PROVE  /\ \A p \in Fresh : p \in Packet /\ p.number \in Nat /\ p.frames \in Nat
         /\ OfStream \subseteq Fresh /\ Fresh \subseteq Packet
         /\ \A p \in OfStream : p.number \in Nat /\ p.frames \in Nat
<1>1. \A p \in Packet : p.number \in Nat /\ p.frames \in Nat  BY PacketFields
<1>2. Fresh \subseteq Packet  BY DEF Fresh
<1>3. OfStream \subseteq Fresh  BY DEF OfStream
<1> QED  BY <1>1, <1>2, <1>3

LEMMA TargetNat ==
  ASSUME NEW f \in Formats
  PROVE  Target(f) \in Nat
<1>1. PICK r \in Nat : r = Rate[f]  BY SegmentedAssumption
<1>2. PICK m \in Nat : m = SegmentMillis  BY SegmentedAssumption
<1>3. r * m \in Nat  OBVIOUS
<1>4. RoundDiv(r * m, 1000) \in Nat  BY <1>3, RoundDivNat
<1> QED  BY <1>1, <1>2, <1>4 DEF Target

\* While arrived does not decrease, the last reset is the same, and the format is
\* the same or was not yet known, what was fresh or of the stream still is.
LEMMA StaysFresh ==
  ASSUME SegInv, ControlInv', arrived <= arrived', resetAt' = resetAt
  PROVE  Fresh \subseteq Fresh'
<1>1. \A n \in (resetAt + 1)..arrived : n \in (resetAt' + 1)..arrived'
  BY DEF SegInv, ControlInv
<1> QED  BY <1>1 DEF Fresh, Packet

LEMMA StaysOfStream ==
  ASSUME SegInv, ControlInv', arrived <= arrived', resetAt' = resetAt,
         format \in {NoFormat, format'}
  PROVE  OfStream \subseteq OfStream'
<1>1. Fresh \subseteq Fresh'  BY StaysFresh
<1>2. \A p \in Fresh : p.format \in Formats  BY DEF Fresh, Packet
<1>3. format = NoFormat => OfStream = {}
  BY <1>2, SegmentedAssumption DEF OfStream
<1> QED  BY <1>1, <1>3 DEF OfStream

-----------------------------------------------------------------------------
(* The step lemmas.                                                        *)

\* A harvest that does not fail: the done segment is behind what was ready.
LEMMA HarvestKeeps ==
  ASSUME SegInv
  PROVE  /\ HarvestedReady \in Seq(Fresh)
         /\ task = "done" => HarvestedReady = ready \o active
         /\ task # "done" => HarvestedReady = ready
<1>1. active \in Seq(Fresh)
  BY FreshPackets, SeqMonotonic DEF SegInv, SegmentInv
<1>2. ready \o active \in Seq(Fresh)
  BY <1>1, ConcatProperties DEF SegInv, SegmentInv
<1> QED  BY <1>2 DEF HarvestedReady, SegInv, SegmentInv

\* The new packet in the buffer, and the segment it may complete.
LEMMA BufferedKeeps ==
  ASSUME SegInv, ControlInv', NEW p \in OfStream', Buffered(p),
         input \in Seq(OfStream'), active \in Seq(OfStream'), ~Failing, task # "cancelled"
  PROVE  /\ input' \in Seq(OfStream') /\ active' \in Seq(OfStream')
         /\ inputFrames' = FramesOf(input')
         /\ task' \in {"none", "running"} /\ (task' = "none" => active' = <<>>)
         /\ Idle => active' \o input' = Append(input, p)
         /\ ~Idle => active' = active /\ input' = Append(input, p)
<1> DEFINE S == OfStream'
<1>1. \A x \in S : x.number \in Nat /\ x.frames \in Nat /\ x.format \in Formats
  <2>1. \A x \in S : x \in Packet  BY DEF OfStream, Fresh, Packet
  <2> HIDE DEF S
  <2> QED  BY <2>1, PacketFields
<1>2. PICK packets : packets = Append(input, p)  OBVIOUS
<1>3. packets \in Seq(S)  BY <1>2, AppendProperties
<1>4. PICK frames : frames = inputFrames + p.frames  OBVIOUS
<1>5. frames = FramesOf(packets)
  <2>1. FramesOf(Append(input, p)) = FramesOf(input) + p.frames  BY <1>1, SumAppend
  <2> QED  BY <1>2, <1>4, <2>1 DEF SegInv, SegmentInv
<1>6. PICK n : n = Taken(packets, p.format)  OBVIOUS
<1>7. n \in 0..Len(packets)
  <2>1. p.format \in Formats  BY <1>1
  <2>2. PICK t \in Nat : t = Target(p.format)  BY <2>1, TargetNat
  <2>3. PacketsTaken(packets, t) \in 0..Len(packets)  BY <1>1, <1>3, TakenInRange
  <2> QED  BY <1>6, <2>2, <2>3 DEF Taken
<1> HIDE DEF S
<1>8. CASE Idle /\ frames >= Target(p.format)
  <2>1. /\ task' = "running" /\ active' = SubSeq(packets, 1, n)
        /\ input' = After(packets, n)
        /\ inputFrames' = frames - FramesOf(SubSeq(packets, 1, n))
    BY <1>2, <1>4, <1>6, <1>8 DEF Buffered, FramesLeft
  <2>2. /\ active' \in Seq(S) /\ input' \in Seq(S) /\ active' \o input' = packets
    BY <1>3, <1>7, <2>1, Cut
  <2>3. /\ FramesOf(packets) \in Nat /\ FramesOf(active') \in Nat /\ FramesOf(input') \in Nat
        /\ FramesOf(packets) = FramesOf(active') + FramesOf(input')
    BY <1>1, <1>3, <1>7, <2>1, SumSplit
  <2>4. inputFrames' = FramesOf(input')  BY <1>5, <2>1, <2>3
  <2> QED  BY <1>2, <1>8, <2>1, <2>2, <2>4 DEF S
<1>9. CASE ~(Idle /\ frames >= Target(p.format))
  <2>1. /\ input' = packets /\ inputFrames' = frames
        /\ task' = IF Idle THEN "none" ELSE task
        /\ active' = IF Idle THEN <<>> ELSE active
    BY <1>2, <1>4, <1>6, <1>9 DEF Buffered
  <2>2. <<>> \in Seq(S)  BY EmptySeq
  <2>3. CASE Idle
    <3>1. task' = "none" /\ active' = <<>>  BY <2>1, <2>3
    <3>2. <<>> \o packets = packets  BY <1>3, ConcatEmptySeq
    <3> QED  BY <1>2, <1>3, <1>5, <2>1, <2>2, <2>3, <3>1, <3>2 DEF S
  <2>4. CASE ~Idle
    <3>1. task' = "running" /\ active' = active  BY <2>1, <2>4 DEF Idle
    <3> QED  BY <1>2, <1>3, <1>5, <2>1, <2>4, <3>1 DEF S
  <2> QED  BY <2>3, <2>4
<1> QED  BY <1>8, <1>9

LEMMA NumbersReleased ==
  ASSUME SegInv, NEW q \in Seq(Fresh), NEW r, r = out \o Numbers(q)
  PROVE  r \in Seq(1..MaxPackets)
<1>1. Numbers(q) \in Seq(1..MaxPackets)
  <2>1. Len(q) \in Nat /\ \A k \in 1..Len(q) : q[k] \in Packet
    <3>1. Len(q) \in Nat /\ \A k \in 1..Len(q) : q[k] \in Fresh
      BY LenProperties, ElementOfSeq
    <3> QED  BY <3>1, FreshPackets DEF SegInv
  <2>2. \A k \in 1..Len(q) : q[k].number \in 1..MaxPackets  BY <2>1 DEF Packet
  <2>3. Numbers(q) \in [1..Len(q) -> 1..MaxPackets]  BY <2>2 DEF Numbers
  <2>4. PICK m \in Nat : m = Len(q)  BY <2>1
  <2>5. PICK T : T = 1..MaxPackets  OBVIOUS
  <2>6. PICK g : g = Numbers(q)  OBVIOUS
  <2>7. g \in [1..m -> T]  BY <2>3, <2>4, <2>5, <2>6
  <2>8. g \in Seq(T)  BY ONLY <2>7, m \in Nat, SeqDef
  <2> QED  BY <2>5, <2>6, <2>8
<1> QED  BY <1>1, ConcatProperties DEF SegInv, ControlInv

-----------------------------------------------------------------------------
(* What has left and what can still leave, in one sequence.                *)

Segment == IF task \in {"failed", "short", "cancelled"} THEN <<>> ELSE active

Sent == Sending(out, Held)

OrderInv == InOrder(Sent, arrived)

\* What a step owes the abstract specification, beside the invariant.
StepOK ==
  /\ SegInv' /\ arrived <= arrived'
  /\ Follows(Sent, arrived, Sent', arrived')
  /\ \E x \in Seq(Nat) : out' = out \o x

HeldOK ==
  /\ ready \in Seq(Packet) /\ active \in Seq(Packet) /\ input \in Seq(Packet)
  /\ Segment \in Seq(Packet)
  /\ Held = Joined(Joined(ready, Segment), input)
  /\ Held \in Seq(Packet) /\ out \in Seq(Nat) /\ arrived \in Nat
  /\ Sent \in Seq(Nat)

LEMMA HeldIs == SegInv => HeldOK
<1> SUFFICES ASSUME SegInv PROVE HeldOK  OBVIOUS
<1>1. ready \in Seq(Packet)
  BY FreshPackets, SeqMonotonic DEF SegInv, SegmentInv
<1>2. active \in Seq(Packet) /\ input \in Seq(Packet)
  <2>1. OfStream \subseteq Packet  BY FreshPackets DEF SegInv
  <2> QED  BY <2>1, SeqMonotonic DEF SegInv, SegmentInv
<1>3. Segment \in Seq(Packet)
  <2>1. <<>> \in Seq(Packet)  BY EmptySeq
  <2> QED  BY <1>2, <2>1 DEF Segment
<1>4. Held = Joined(Joined(ready, Segment), input)
  BY DEF Held, Segment, Joined
<1>5. Joined(Joined(ready, Segment), input) \in Seq(Packet)
  <2>1. Joined(ready, Segment) \in Seq(Packet)  BY <1>1, <1>3, JoinedIs
  <2> QED  BY <1>2, <2>1, JoinedIs
<1>6. out \in Seq(Nat)
  <2>1. 1..MaxPackets \subseteq Nat  BY SegmentedAssumption
  <2> QED  BY <2>1, SeqMonotonic DEF SegInv, ControlInv
<1>7. arrived \in Nat  BY SegmentedAssumption DEF SegInv, ControlInv
<1>8. Sent \in Seq(Nat)
  <2>1. Numbers(Held) \in Seq(Nat)  BY <1>4, <1>5, PacketFields, NumbersOf
  <2> QED  BY <1>6, <2>1, ConcatProperties DEF Sent, Sending
<1> QED  BY <1>1, <1>2, <1>3, <1>4, <1>5, <1>6, <1>7, <1>8 DEF HeldOK

LEMMA HeldIsNext == SegInv' => HeldOK'
BY HeldIs, PTL

LEMMA PacketNumbers == \A p \in Packet : p.number \in Nat
BY PacketFields

\* With the done segment harvested nothing has moved.
LEMMA HarvestedHeld ==
  ASSUME SegInv, ~Failing, task # "cancelled"
  PROVE  /\ HarvestedReady \in Seq(Packet)
         /\ Held = IF Idle THEN Joined(HarvestedReady, input)
                   ELSE Joined(Joined(HarvestedReady, active), input)
<1>1. /\ ready \in Seq(Packet) /\ active \in Seq(Packet)
      /\ Held = Joined(Joined(ready, active), input)
  BY HeldIs DEF HeldOK, Segment, Failing
<1>2. task = "done" => HarvestedReady = Joined(ready, active)
  BY DEF HarvestedReady, Joined
<1>3. task = "none" => active = <<>>  BY DEF SegInv, SegmentInv
<1>4. task \in {"none", "running", "done"}  BY DEF SegInv, ControlInv, Failing
<1>5. HarvestedReady \in Seq(Packet)
  <2>1. Joined(ready, active) \in Seq(Packet)  BY <1>1, JoinedIs
  <2> QED  BY <1>1, <2>1 DEF HarvestedReady, Joined
<1>6. CASE task = "done"  BY <1>1, <1>2, <1>5, <1>6 DEF Idle
<1>7. CASE task = "none"
  <2>1. Joined(ready, <<>>) = ready  BY <1>1, JoinedIs
  <2> QED  BY <1>1, <1>3, <1>5, <1>7, <2>1 DEF Idle, HarvestedReady
<1>8. CASE task = "running"  BY <1>1, <1>5, <1>8 DEF Idle, HarvestedReady
<1> QED  BY <1>4, <1>6, <1>7, <1>8

LEMMA ProcessInv ==
  ASSUME SegInv, NEW f \in Formats, NEW n \in FrameCounts, Process(f, n),
         NEW p, p = [number |-> arrived', frames |-> n, format |-> f]
  PROVE  /\ SegInv'
         /\ Idle => Joined(active', input') = Append(input, p)
         /\ ~Idle => active' = active /\ input' = Append(input, p)
<1>1. /\ task # "cancelled" /\ arrived < MaxPackets /\ arrived' = arrived + 1
      /\ ~Failing /\ lastError' = (lastError /\ task # "done")
      /\ format \in {NoFormat, f} /\ format' = f
      /\ ready' = Rest(HarvestedReady) /\ out' = out \o Numbers(First(HarvestedReady))
      /\ resets' = resets /\ resetAt' = resetAt
  BY DEF Process, Arrives, Harvested, Compatible, Released, resetVars
<1>2. Buffered(p)  BY DEF Process
<1>3. HarvestedReady \in Seq(Fresh)  BY HarvestKeeps
<1>4. First(HarvestedReady) \in Seq(Fresh) /\ Rest(HarvestedReady) \in Seq(Fresh)
  BY <1>3, FirstAndRest
<1>5. out' \in Seq(1..MaxPackets)  BY <1>1, <1>4, NumbersReleased
<1>6. arrived \in Nat /\ arrived' \in 0..MaxPackets /\ arrived <= arrived'
      /\ resetAt' \in 0..arrived'
  BY <1>1, SegmentedAssumption DEF SegInv, ControlInv
<1>7. task' \in {"none", "running", "done", "short", "failed", "cancelled"}
  BY <1>2 DEF Buffered, SegInv, ControlInv
<1>8. ControlInv'
  BY <1>1, <1>5, <1>6, <1>7 DEF SegInv, ControlInv
<1>9. Fresh \subseteq Fresh' /\ OfStream \subseteq OfStream'
  BY <1>1, <1>6, <1>8, StaysFresh, StaysOfStream
<1>10. p \in OfStream'
  <2>1. p \in Packet
    <3>1. arrived' \in 1..MaxPackets  BY <1>1, <1>6
    <3> QED  BY <3>1 DEF Packet
  <2>2. arrived' \in (resetAt' + 1)..arrived'
    BY <1>1, <1>6 DEF SegInv, ControlInv
  <2>3. p.number = arrived' /\ p.format = format'  BY <1>1
  <2> QED  BY <2>1, <2>2, <2>3 DEF OfStream, Fresh, Packet
<1>11. input \in Seq(OfStream') /\ active \in Seq(OfStream')
  BY <1>9, SeqMonotonic DEF SegInv, SegmentInv
<1>12. ready' \in Seq(Fresh')  BY <1>1, <1>4, <1>9, SeqMonotonic
<1>13. /\ input' \in Seq(OfStream') /\ active' \in Seq(OfStream')
       /\ inputFrames' = FramesOf(input')
       /\ task' = "none" => active' = <<>>
       /\ Idle => Joined(active', input') = Append(input, p)
       /\ ~Idle => active' = active /\ input' = Append(input, p)
  BY <1>1, <1>2, <1>8, <1>10, <1>11, BufferedKeeps DEF Joined
<1> QED  BY <1>8, <1>12, <1>13 DEF SegInv, SegmentInv

LEMMA ProcessStep ==
  ASSUME SegInv, OrderInv, NEW f \in Formats, NEW n \in FrameCounts, Process(f, n)
  PROVE  StepOK
<1>1. PICK p : p = [number |-> arrived', frames |-> n, format |-> f]  OBVIOUS
<1>2. /\ SegInv'
      /\ Idle => Joined(active', input') = Append(input, p)
      /\ ~Idle => active' = active /\ input' = Append(input, p)
  BY <1>1, ProcessInv
<1>3. PICK H : H = HarvestedReady  OBVIOUS
<1>4. /\ task # "cancelled" /\ ~Failing /\ arrived < MaxPackets /\ arrived' = arrived + 1
      /\ ready' = Rest(H) /\ out' = Sending(out, First(H))
  BY <1>3 DEF Process, Arrives, Harvested, Released, Sending
<1>5. task' \in {"none", "running"}
  BY <1>4 DEF Process, Buffered, Idle, Failing, SegInv, ControlInv
<1>6. /\ input \in Seq(Packet) /\ active \in Seq(Packet) /\ out \in Seq(Nat)
      /\ Held \in Seq(Packet) /\ arrived \in Nat /\ Sent \in Seq(Nat)
  BY HeldIs DEF HeldOK
<1>7. p \in Packet /\ p.number = arrived + 1
  <2>1. arrived' \in 1..MaxPackets  BY <1>4, <1>6, SegmentedAssumption
  <2> QED  BY <1>1, <1>4, <2>1 DEF Packet
<1>8. /\ H \in Seq(Packet) /\ First(H) \in Seq(Packet) /\ Rest(H) \in Seq(Packet)
      /\ Joined(First(H), Rest(H)) = H
  <2>1. H \in Seq(Packet)  BY <1>3, <1>4, HarvestedHeld
  <2> QED  BY <2>1, FirstAndRest DEF Joined
<1>9. /\ active' \in Seq(Packet) /\ input' \in Seq(Packet)
      /\ Held' = Joined(Joined(Rest(H), active'), input') /\ Held' \in Seq(Packet)
  <2>1. Packet' = Packet  BY DEF Packet
  <2> QED  BY <1>2, <1>4, <1>5, <2>1, HeldIsNext DEF HeldOK, Segment
<1>10. Joined(First(H), Held') = Joined(Joined(H, active'), input')
  <2>1. Joined(Rest(H), active') \in Seq(Packet)  BY <1>8, <1>9, JoinedIs, Zenon
  <2>2. Joined(First(H), Held')
          = Joined(Joined(First(H), Joined(Rest(H), active')), input')
    BY <1>8, <1>9, <2>1, JoinedAssociative
  <2>3. Joined(First(H), Joined(Rest(H), active')) = Joined(H, active')
    BY <1>8, <1>9, JoinedAssociative
  <2> QED  BY <2>2, <2>3, Zenon
<1>11. Joined(First(H), Held') = Append(Held, p)
  <2>1. CASE Idle
    <3>1. Held = Joined(H, input)  BY <1>3, <1>4, <2>1, HarvestedHeld
    <3>2. Joined(Joined(H, active'), input') = Joined(H, Joined(active', input'))
      BY <1>8, <1>9, JoinedAssociative
    <3>3. Joined(H, Append(input, p)) = Append(Joined(H, input), p)
      BY <1>6, <1>7, <1>8, JoinedAppend
    <3> QED  BY <1>2, <1>10, <2>1, <3>1, <3>2, <3>3, Zenon
  <2>2. CASE ~Idle
    <3>1. Held = Joined(Joined(H, active), input)  BY <1>3, <1>4, <2>2, HarvestedHeld
    <3>2. Joined(H, active) \in Seq(Packet)  BY <1>6, <1>8, JoinedIs, Zenon
    <3>3. Joined(Joined(H, active), Append(input, p))
            = Append(Joined(Joined(H, active), input), p)
      BY <1>6, <1>7, <3>2, JoinedAppend
    <3> QED  BY <1>2, <1>10, <2>2, <3>1, <3>3, Zenon
  <2> QED  BY <2>1, <2>2
<1>12. Sent' = Append(Sent, arrived + 1)
  <2>1. Sending(out, Joined(First(H), Held')) = Sending(out', Held')
    <3>1. Sending(out, Joined(First(H), Held'))
            = Sending(out, First(H)) \o Numbers(Held')
      BY <1>6, <1>8, <1>9, PacketNumbers, Leaving, Zenon
    <3> QED  BY <1>4, <3>1 DEF Sending
  <2>2. Sending(out, Append(Held, p)) = Append(Sending(out, Held), p.number)
    BY <1>6, <1>7, PacketNumbers, AppendedBehind, Zenon
  <2> QED  BY <1>7, <1>11, <2>1, <2>2 DEF Sent
<1>13. Follows(Sent, arrived, Sent', arrived')
  BY <1>4, <1>6, <1>12, FollowsAppended DEF OrderInv
<1>14. Numbers(First(H)) \in Seq(Nat)  BY <1>8, PacketNumbers, NumbersOf
<1>15. \E x \in Seq(Nat) : out' = out \o x
  <2> WITNESS Numbers(First(H)) \in Seq(Nat)
  <2> QED  BY <1>4 DEF Sending
<1>16. arrived <= arrived'  BY <1>4, <1>6
<1> QED  BY <1>2, <1>13, <1>15, <1>16 DEF StepOK

\* Steps that leave the buffer, and what leaves and is held, as they are.
LEMMA SameSent ==
  ASSUME SegInv, OrderInv, SegInv', arrived <= arrived', Sent' = Sent,
         \E x \in Seq(Nat) : out' = out \o x
  PROVE  StepOK
<1>1. arrived \in Nat /\ arrived' \in Nat /\ Sent \in Seq(Nat)
  BY HeldIs, HeldIsNext DEF HeldOK
<1> QED  BY <1>1, FollowsKept DEF StepOK, OrderInv

LEMMA NothingLeaves ==
  ASSUME SegInv, out' = out
  PROVE  \E x \in Seq(Nat) : out' = out \o x
<1>1. out = out \o <<>> /\ <<>> \in Seq(Nat)
  BY HeldIs, ConcatEmptySeq, EmptySeq DEF HeldOK
<1> WITNESS <<>> \in Seq(Nat)
<1> QED  BY <1>1

\* The packet at hand, if there is one, is not kept.
LEMMA ControlKept ==
  ASSUME SegInv, arrived' \in {arrived, arrived + 1}, arrived' <= MaxPackets,
         task' \in {"none", "running", "done", "short", "failed", "cancelled"},
         lastError' \in BOOLEAN, format' = format, out' = out,
         resets' \in 0..MaxResets, resetAt' = resetAt
  PROVE  ControlInv'
BY SegmentedAssumption DEF SegInv, ControlInv

LEMMA RefusedStep ==
  ASSUME SegInv, OrderInv, Refused
  PROVE  StepOK
<1>1. /\ task # "cancelled" /\ ~Failing /\ arrived < MaxPackets /\ arrived' = arrived + 1
      /\ lastError' = (lastError /\ task # "done") /\ ready' = HarvestedReady
      /\ task' = IF Idle THEN "none" ELSE task
      /\ active' = IF Idle THEN <<>> ELSE active
      /\ input' = input /\ inputFrames' = inputFrames /\ format' = format
      /\ resets' = resets /\ resetAt' = resetAt /\ out' = out
  BY DEF Refused, Arrives, Harvested, resetVars
<1>2. arrived \in Nat  BY HeldIs DEF HeldOK
<1>3. ControlInv'
  <2>1. arrived' <= MaxPackets  BY <1>1, <1>2, SegmentedAssumption
  <2>2. task' \in {"none", "running", "done", "short", "failed", "cancelled"}
    BY <1>1 DEF SegInv, ControlInv
  <2> QED  BY <1>1, <2>1, <2>2, ControlKept DEF SegInv, ControlInv
<1>4. Fresh \subseteq Fresh' /\ OfStream \subseteq OfStream'
  BY <1>1, <1>2, <1>3, StaysFresh, StaysOfStream
<1>5. HarvestedReady \in Seq(Fresh)  BY HarvestKeeps
<1>6. SegmentInv'
  <2>1. input' \in Seq(OfStream') /\ ready' \in Seq(Fresh')
    BY <1>1, <1>4, <1>5, SeqMonotonic DEF SegInv, SegmentInv
  <2>2. active' \in Seq(OfStream')
    <3>1. active \in Seq(OfStream') /\ <<>> \in Seq(OfStream')
      BY <1>4, SeqMonotonic, EmptySeq DEF SegInv, SegmentInv
    <3> QED  BY <1>1, <3>1
  <2>3. task' = "none" => active' = <<>>  BY <1>1 DEF SegInv, SegmentInv
  <2> QED  BY <1>1, <2>1, <2>2, <2>3 DEF SegInv, SegmentInv
<1>7. Held' = Held
  <2>1. Held' = Joined(Joined(HarvestedReady, active'), input)
    <3>1. task' \in {"none", "running"}
      BY <1>1 DEF Failing, Idle, SegInv, ControlInv
    <3> QED  BY <1>1, <1>3, <1>6, <3>1, HeldIsNext DEF SegInv, HeldOK, Segment
  <2>2. Joined(HarvestedReady, <<>>) = HarvestedReady  BY <1>1, HarvestedHeld, JoinedIs
  <2> QED  BY <1>1, <2>1, <2>2, HarvestedHeld
<1>8. arrived <= arrived' /\ Sent' = Sent  BY <1>1, <1>2, <1>7 DEF Sent
<1> QED  BY <1>1, <1>3, <1>6, <1>8, SameSent, NothingLeaves DEF SegInv

LEMMA HarvestFailsStep ==
  ASSUME SegInv, OrderInv, HarvestFails, arrived' \in {arrived, arrived + 1},
         arrived' <= MaxPackets
  PROVE  StepOK
<1>1. /\ Failing /\ task' = "none" /\ active' = <<>>
      /\ lastError' = (lastError \/ task = "failed")
      /\ input' = input /\ inputFrames' = inputFrames /\ ready' = ready /\ format' = format
      /\ resets' = resets /\ resetAt' = resetAt /\ out' = out
  BY DEF HarvestFails, resetVars
<1>2. arrived \in Nat  BY HeldIs DEF HeldOK
<1>3. ControlInv'
  BY <1>1, ControlKept DEF SegInv, ControlInv
<1>4. Fresh \subseteq Fresh' /\ OfStream \subseteq OfStream'
  BY <1>1, <1>2, <1>3, StaysFresh, StaysOfStream
<1>5. SegmentInv'
  <2>1. input' \in Seq(OfStream') /\ ready' \in Seq(Fresh') /\ active' \in Seq(OfStream')
    BY <1>1, <1>4, SeqMonotonic, EmptySeq DEF SegInv, SegmentInv
  <2> QED  BY <1>1, <2>1 DEF SegInv, SegmentInv
<1>6. Held' = Held
  BY <1>1, <1>3, <1>5, HeldIs, HeldIsNext DEF SegInv, HeldOK, Segment, Failing
<1>7. arrived <= arrived' /\ Sent' = Sent  BY <1>1, <1>2, <1>6 DEF Sent
<1> QED  BY <1>1, <1>3, <1>5, <1>7, SameSent, NothingLeaves DEF SegInv

LEMMA FlushStep ==
  ASSUME SegInv, OrderInv, Flush
  PROVE  StepOK
<1>1. PICK H : H = HarvestedReady  OBVIOUS
<1>2. /\ task # "cancelled" /\ ~Failing /\ arrived' = arrived
      /\ lastError' = (lastError /\ task # "done") /\ ready' = <<>>
      /\ task' = IF Idle THEN "none" ELSE task
      /\ active' = IF Idle THEN <<>> ELSE active
      /\ input' = input /\ inputFrames' = inputFrames /\ format' = format
      /\ resets' = resets /\ resetAt' = resetAt /\ out' = out \o Numbers(H)
  BY <1>1 DEF Flush, Harvested, resetVars
<1>3. H \in Seq(Fresh) /\ H \in Seq(Packet)
  BY <1>1, <1>2, HarvestKeeps, HarvestedHeld
<1>4. arrived \in Nat /\ out \in Seq(Nat) /\ input \in Seq(Packet) /\ active \in Seq(Packet)
  BY HeldIs DEF HeldOK
<1>5. ControlInv'
  <2>1. task' \in {"none", "running", "done", "short", "failed", "cancelled"}
    BY <1>2 DEF SegInv, ControlInv
  <2>2. out' \in Seq(1..MaxPackets)  BY <1>2, <1>3, NumbersReleased
  <2> QED  BY <1>2, <2>1, <2>2 DEF SegInv, ControlInv
<1>6. Fresh \subseteq Fresh' /\ OfStream \subseteq OfStream'
  BY <1>2, <1>4, <1>5, StaysFresh, StaysOfStream
<1>7. SegmentInv'
  <2>1. input' \in Seq(OfStream') /\ ready' \in Seq(Fresh')
    BY <1>2, <1>6, SeqMonotonic, EmptySeq DEF SegInv, SegmentInv
  <2>2. active' \in Seq(OfStream')
    <3>1. active \in Seq(OfStream') /\ <<>> \in Seq(OfStream')
      BY <1>6, SeqMonotonic, EmptySeq DEF SegInv, SegmentInv
    <3> QED  BY <1>2, <3>1
  <2>3. task' = "none" => active' = <<>>  BY <1>2 DEF SegInv, SegmentInv
  <2> QED  BY <1>2, <2>1, <2>2, <2>3 DEF SegInv, SegmentInv
<1>8. /\ active' \in Seq(Packet) /\ Held' \in Seq(Packet)
      /\ Held' = Joined(Joined(<<>>, active'), input)
  <2>1. task' \in {"none", "running"}
    BY <1>2 DEF Failing, Idle, SegInv, ControlInv
  <2>2. Packet' = Packet  BY DEF Packet
  <2> QED  BY <1>2, <1>5, <1>7, <2>1, <2>2, HeldIsNext DEF SegInv, HeldOK, Segment
<1>9. Joined(H, Held') = Held
  <2>1. Held' = Joined(active', input)  BY <1>8, JoinedIs
  <2>2. Joined(H, Held') = Joined(Joined(H, active'), input)
    BY <1>3, <1>4, <1>8, <2>1, JoinedAssociative
  <2>3. Joined(H, <<>>) = H  BY <1>3, JoinedIs
  <2> QED  BY <1>1, <1>2, <2>2, <2>3, HarvestedHeld
<1>10. Sent' = Sent
  <2>1. Sending(out, Joined(H, Held')) = Sending(out, H) \o Numbers(Held')
    BY <1>3, <1>4, <1>8, PacketNumbers, Leaving, Zenon
  <2> QED  BY <1>2, <1>9, <2>1 DEF Sent, Sending
<1>11. Numbers(H) \in Seq(Nat)  BY <1>3, PacketNumbers, NumbersOf
<1>12. \E x \in Seq(Nat) : out' = out \o x
  <2>1. Numbers(H) \in Seq(Nat)  BY <1>11
  <2> WITNESS Numbers(H) \in Seq(Nat)
  <2> QED  BY <1>2
<1>13. arrived <= arrived' /\ SegInv'  BY <1>2, <1>4, <1>5, <1>7 DEF SegInv
<1> QED  BY <1>10, <1>12, <1>13, SameSent

LEMMA ClearedStep ==
  ASSUME SegInv, OrderInv, Cleared, resets' \in 0..MaxResets
  PROVE  StepOK
<1>1. /\ task' = "none" /\ active' = <<>> /\ input' = <<>> /\ inputFrames' = 0
      /\ ready' = <<>> /\ format' = NoFormat /\ lastError' = FALSE
      /\ resetAt' = arrived /\ arrived' = arrived /\ out' = out
  BY DEF Cleared, ReadyCleared
<1>2. arrived \in Nat /\ out \in Seq(Nat) /\ Held \in Seq(Packet) /\ Sent \in Seq(Nat)
  BY HeldIs DEF HeldOK
<1>3. SegInv'
  <2>1. ControlInv'
    <3>1. arrived \in 0..arrived  BY <1>2
    <3>2. arrived \in 0..MaxPackets /\ out \in Seq(1..MaxPackets)
      BY DEF SegInv, ControlInv
    <3> QED  BY <1>1, <3>1, <3>2 DEF ControlInv
  <2>2. SegmentInv'  BY <1>1, EmptySeq, SumEmpty DEF SegmentInv
  <2> QED  BY <2>1, <2>2 DEF SegInv
<1>4. Sent' = Sending(out, <<>>)
  <2>1. Joined(Joined(<<>>, <<>>), <<>>) = <<>>
    <3>1. <<>> \in Seq(Packet)  BY EmptySeq
    <3> QED  BY <3>1, JoinedIs
  <2>2. Held' = <<>>  BY <1>1, <1>3, <2>1, HeldIsNext DEF HeldOK, Segment
  <2> QED  BY <1>1, <2>2 DEF Sent
<1>5. Follows(Sent, arrived, Sent, arrived)  BY <1>2, FollowsKept DEF OrderInv
<1>6. Follows(Sent, arrived, Sending(out, <<>>), arrived)
  BY <1>2, <1>5, PacketNumbers, AllLost DEF Sent
<1>7. arrived <= arrived'  BY <1>1, <1>2
<1> QED  BY <1>1, <1>3, <1>4, <1>6, <1>7, NothingLeaves DEF StepOK

\* The segment under inference is given up, or goes on: InferenceEnds, and the
\* cancelling half of Reset.
LEMMA SegmentStep ==
  ASSUME SegInv, OrderInv, task = "running",
         task' \in {"done", "short", "failed", "cancelled"},
         UNCHANGED <<arrived, input, inputFrames, active, ready, format, lastError,
                     resetAt, out>>,
         resets' \in 0..MaxResets
  PROVE  StepOK
<1>1. arrived \in Nat /\ out \in Seq(Nat) /\ Held \in Seq(Packet) /\ Sent \in Seq(Nat)
      /\ ready \in Seq(Packet) /\ active \in Seq(Packet) /\ input \in Seq(Packet)
      /\ Held = Joined(Joined(ready, active), input)
  BY HeldIs DEF HeldOK, Segment
<1>2. SegInv'
  <2>1. ControlInv'  BY DEF SegInv, ControlInv
  <2>2. SegmentInv'  BY DEF SegInv, SegmentInv, Fresh, OfStream, Packet
  <2> QED  BY <2>1, <2>2 DEF SegInv
<1>3. Follows(Sent, arrived, Sent, arrived)  BY <1>1, FollowsKept DEF OrderInv
<1>4. CASE task' = "done"
  <2>1. Held' = Held  BY <1>1, <1>2, <1>4, HeldIsNext DEF HeldOK, Segment
  <2>2. arrived <= arrived' /\ Sent' = Sent  BY <1>1, <2>1 DEF Sent
  <2> QED  BY <1>2, <2>2, SameSent, NothingLeaves
<1>5. CASE task' # "done"
  <2>1. Held' = Joined(ready, input)
    <3>1. Held' = Joined(Joined(ready, <<>>), input)
      BY <1>2, <1>5, HeldIsNext DEF HeldOK, Segment
    <3> QED  BY <1>1, <3>1, JoinedIs
  <2>2. Follows(Sent, arrived, Sending(out, Joined(ready, input)), arrived)
    BY <1>1, <1>3, PacketNumbers, SegmentLost DEF Sent
  <2>3. arrived <= arrived'  BY <1>1
  <2> QED  BY <1>2, <2>1, <2>2, <2>3, NothingLeaves DEF StepOK, Sent
<1> QED  BY <1>4, <1>5

-----------------------------------------------------------------------------
(* The theorems.                                                           *)

LEMMA InitOK == Init => SegInv /\ OrderInv /\ Sent = <<>> /\ Numbers(Held) = <<>>
<1> SUFFICES ASSUME Init PROVE SegInv /\ OrderInv /\ Sent = <<>> /\ Numbers(Held) = <<>>
  OBVIOUS
<1>1. /\ arrived = 0 /\ input = <<>> /\ inputFrames = 0 /\ active = <<>> /\ ready = <<>>
      /\ task = "none" /\ format = NoFormat /\ lastError = FALSE
      /\ resets = 0 /\ resetAt = 0 /\ out = <<>>
  BY DEF Init
<1>2. ControlInv
  <2>1. 0 \in 0..MaxPackets /\ 0 \in 0..MaxResets /\ 0 \in 0..0  BY SegmentedAssumption
  <2>2. <<>> \in Seq(1..MaxPackets)  BY EmptySeq
  <2> QED  BY <1>1, <2>1, <2>2 DEF ControlInv
<1>3. SegmentInv  BY <1>1, EmptySeq, SumEmpty DEF SegmentInv
<1>4. SegInv  BY <1>2, <1>3 DEF SegInv
<1>5. Held = <<>>
  <2>1. Joined(Joined(<<>>, <<>>), <<>>) = <<>>
    <3>1. <<>> \in Seq(Packet)  BY EmptySeq
    <3> QED  BY <3>1, JoinedIs
  <2> QED  BY <1>1, <1>4, <2>1, HeldIs DEF HeldOK, Segment
<1>6. Sent = <<>>
  <2>1. <<>> \o <<>> = <<>>  BY ConcatEmptySeq, EmptySeq
  <2> QED  BY <1>1, <1>5, <2>1, NumbersEmpty DEF Sent, Sending
<1>7. OrderInv  BY <1>6 DEF OrderInv, InOrder
<1> QED  BY <1>4, <1>5, <1>6, <1>7, NumbersEmpty

LEMMA StepsOK ==
  ASSUME SegInv, OrderInv, [Next]_vars
  PROVE  StepOK
<1>1. ASSUME NEW f \in Formats, NEW n \in FrameCounts, Process(f, n) PROVE StepOK
  BY <1>1, ProcessStep
<1>2. ASSUME NEW f \in Formats, ProcessIncompatible(f) PROVE StepOK
  BY <1>2, RefusedStep DEF ProcessIncompatible
<1>3. CASE ProcessUndecodable  BY <1>3, RefusedStep DEF ProcessUndecodable
<1>4. CASE ProcessFails
  <2>1. /\ HarvestFails /\ arrived' = arrived + 1 /\ arrived < MaxPackets
        /\ arrived \in Nat
    BY <1>4, HeldIs DEF ProcessFails, Arrives, HeldOK
  <2>2. arrived' <= MaxPackets  BY <2>1, SegmentedAssumption
  <2> QED  BY <2>1, <2>2, HarvestFailsStep
<1>5. CASE Flush  BY <1>5, FlushStep
<1>6. CASE FlushFails
  <2>1. arrived <= MaxPackets  BY SegmentedAssumption DEF SegInv, ControlInv
  <2> QED  BY <1>6, <2>1, HarvestFailsStep DEF FlushFails
<1>7. CASE Reset
  <2>1. resets' \in 0..MaxResets
    BY <1>7, SegmentedAssumption DEF Reset, SegInv, ControlInv
  <2> QED  BY <1>7, <2>1, ClearedStep, SegmentStep DEF Reset
<1>8. CASE ResetEnds
  BY <1>8, ClearedStep DEF ResetEnds, SegInv, ControlInv
<1>9. CASE InferenceEnds
  BY <1>9, SegmentStep DEF InferenceEnds, SegInv, ControlInv, resetVars
<1>10. CASE UNCHANGED vars
  <2>1. SegInv'
    BY <1>10 DEF vars, segmentVars, resetVars, SegInv, ControlInv, SegmentInv, OfStream,
       Fresh, Packet
  <2>2. Sent' = Sent /\ out' = out /\ arrived' = arrived
    BY <1>10 DEF vars, segmentVars, Sent, Held
  <2>3. arrived <= arrived'  BY <2>2, HeldIs DEF HeldOK
  <2> QED  BY <2>1, <2>2, <2>3, SameSent, NothingLeaves
<1> QED
  BY <1>1, <1>2, <1>3, <1>4, <1>5, <1>6, <1>7, <1>8, <1>9, <1>10 DEF Next

LEMMA Invariant == Spec => [](SegInv /\ OrderInv)
<1>1. SegInv /\ OrderInv /\ [Next]_vars => (SegInv /\ OrderInv)'
  BY StepsOK DEF StepOK, Follows, OrderInv
<1> QED  BY <1>1, InitOK, PTL DEF Spec

\* The type invariant.
THEOREM TypeCorrect == Spec => []TypeOK
<1>1. SegInv => TypeOK
  <2> SUFFICES ASSUME SegInv PROVE TypeOK  OBVIOUS
  <2>1. inputFrames \in Nat
    <3>1. \A p \in OfStream : p.frames \in Nat  BY FreshPackets DEF SegInv
    <3> QED  BY <3>1, SumNat DEF SegInv, SegmentInv
  <2> QED  BY <2>1, HeldIs DEF HeldOK, TypeOK, SegInv, ControlInv
<1> QED  BY <1>1, Invariant, PTL

\* The frame counter, which three methods keep by hand, never drifts.
THEOREM FramesCorrect == Spec => []FramesConsistent
<1>1. SegInv => FramesConsistent  BY DEF SegInv, SegmentInv, FramesConsistent
<1> QED  BY <1>1, Invariant, PTL

\* No segment mixes packets of two formats, whatever was refused or reset before.
THEOREM FormatCorrect == Spec => []OneFormat
<1>1. SegInv => OneFormat
  <2> SUFFICES ASSUME SegInv, NEW q \in {input, active}, NEW k \in 1..Len(q)
               PROVE  q[k].format = format
    BY DEF OneFormat
  <2>1. q \in Seq(OfStream)  BY DEF SegInv, SegmentInv
  <2>2. q[k] \in OfStream  BY <2>1, ElementOfSeq
  <2> QED  BY <2>2 DEF OfStream
<1> QED  BY <1>1, Invariant, PTL

\* What a reset discards does not come back, not even from the inference that was
\* running.
THEOREM ResetIsFinal == Spec => []NothingStale
<1>1. SegInv => NothingStale
  <2> SUFFICES ASSUME SegInv, NEW k \in 1..Len(Held) PROVE Held[k].number > resetAt
    BY DEF NothingStale
  <2>1. Held \in Seq(Fresh)
    <3>1. active \in Seq(Fresh) /\ input \in Seq(Fresh) /\ <<>> \in Seq(Fresh)
      BY FreshPackets, SeqMonotonic, EmptySeq DEF SegInv, SegmentInv
    <3>2. Segment \in Seq(Fresh)  BY <3>1 DEF Segment
    <3>3. Joined(ready, Segment) \in Seq(Fresh)
      BY <3>2, JoinedIs DEF SegInv, SegmentInv
    <3>4. Joined(Joined(ready, Segment), input) \in Seq(Fresh)
      BY <3>1, <3>3, JoinedIs
    <3> QED  BY <3>4, HeldIs DEF HeldOK
  <2>2. Held[k] \in Fresh  BY <2>1, ElementOfSeq
  <2>3. Held[k].number \in (resetAt + 1)..arrived  BY <2>2 DEF Fresh
  <2>4. resetAt \in Nat /\ arrived \in Nat
    BY SegmentedAssumption DEF SegInv, ControlInv
  <2> QED  BY <2>3, <2>4
<1> QED  BY <1>1, Invariant, PTL

\* From process() to what it yields, the processor is a lossy FIFO.
THEOREM ImplementsFifo == Spec => ImplementsLossyFifo
<1>1. Init => Fifo!Init
  BY InitOK DEF Init, Fifo!Init
<1>2. SegInv /\ OrderInv /\ [Next]_vars => [Fifo!Next]_(Fifo!fifoVars)
  <2> SUFFICES ASSUME SegInv, OrderInv, [Next]_vars PROVE Fifo!Next
    BY DEF Fifo!fifoVars
  <2>1. StepOK  BY StepsOK
  <2>2. arrived' \in Nat /\ out \in Seq(Nat)  BY <2>1, HeldIs, HeldIsNext DEF HeldOK, StepOK
  <2>3. Fifo!Extends(out, out')
    <3>1. PICK x \in Seq(Nat) : out' = out \o x  BY <2>1 DEF StepOK
    <3> QED  BY <2>2, <3>1, LeavesBehind DEF Fifo!Extends
  <2>4. /\ Sent = out \o Numbers(Held)
        /\ Sent' = out' \o Numbers(Held)'
    BY DEF Sent, Sending
  <2>5. Fifo!StrictlyIncreasing(Sent')
    BY <2>1 DEF StepOK, Follows, InOrder, Fifo!StrictlyIncreasing
  <2>6. Fifo!Items(Sent') \subseteq Fifo!Items(Sent) \cup (arrived + 1)..arrived'
    BY <2>1 DEF StepOK, Follows, ItemsOf, Fifo!Items
  <2> QED
    BY <2>1, <2>2, <2>3, <2>4, <2>5, <2>6 DEF StepOK, Fifo!Next
<1> QED  BY <1>1, <1>2, Invariant, PTL DEF Spec, ImplementsLossyFifo, Fifo!Spec
=============================================================================
