------------------------- MODULE Mdx23cVocals_proofs -------------------------
(***************************************************************************)
(* Theorems about Mdx23cVocals, for every set of sample rates and packet   *)
(* sizes, every segment length, bound and overlap, and any number of       *)
(* packets and resets.                                                     *)
(***************************************************************************)
EXTENDS Mdx23cVocals, Segments_proofs

\* Packets that came after the last reset.
Fresh == {p \in Packet : p.number \in (resetAt + 1)..arrived}

\* Those of the stream that is being collected.
OfStream == {p \in Fresh : p.format = format}

\* Where the callers are.  The inference is a cancelled one exactly while somebody
\* waits in reset() for its end.
CallInv ==
  /\ task \in {"none", "created", "running", "done", "short", "failed", "cancelled"}
  /\ orphans \in Nat
  /\ resetting \in {"nobody", "worker", "request", "stop"}
  /\ resets \in 0..MaxResets
  /\ worker \in {"looping", "ended"}
  /\ shutdown \in {"no", "joining", "resetting", "raised", "done"}
  /\ task = "cancelled" <=> resetting # "nobody"

StreamInv ==
  /\ arrived \in 0..MaxPackets /\ resetAt \in 0..arrived
  /\ format \in Formats \cup {NoFormat}
  /\ out \in Seq(1..MaxPackets)
  /\ dropped \in Nat /\ lost \in Nat

\* What is buffered is of the stream and fresh, within the bound, and counted; the
\* crossfade tail is fresh.
SegmentInv ==
  /\ input \in Seq(OfStream) /\ active \in Seq(OfStream) /\ ready \in Seq(Fresh)
  /\ inputFrames = FramesOf(input)
  /\ format = NoFormat \/ FramesOf(input) <= Maximum(format)
  /\ task = "none" => active = <<>>

TailInv ==
  /\ tail \in [last : Nat, frames : Nat]
  /\ tail # NoTail => tail.last \in (resetAt + 1)..arrived

\* The packet for which process() waits in reset() is counted when it returns.
AccountInv ==
  arrived = Len(out) + Len(ready) + Len(active) + Len(input) + dropped + lost
              + (IF resetting = "worker" THEN 1 ELSE 0)

SegInv == CallInv /\ StreamInv /\ SegmentInv /\ TailInv /\ AccountInv

-----------------------------------------------------------------------------
(* Facts about packets and sizes.                                          *)

LEMMA PacketFields ==
  ASSUME NEW p \in Packet
  PROVE  p.number \in Nat /\ p.number \in 1..MaxPackets /\ p.frames \in Nat
         /\ p.format \in Formats
<1>1. p.number \in 1..MaxPackets /\ p.frames \in FrameCounts /\ p.format \in Formats
  BY DEF Packet
<1>2. p.number \in Nat  BY <1>1
<1>3. p.frames \in Nat
  <2>1. FrameCounts \subseteq Nat \ {0}  BY MdxAssumption
  <2>2. p.frames \in Nat \ {0}  BY <1>1, <2>1
  <2> QED  BY <2>2
<1> QED  BY <1>1, <1>2, <1>3

LEMMA PacketNumbers == \A p \in Packet : p.number \in Nat
BY PacketFields

LEMMA FreshPackets ==
  /\ OfStream \subseteq Fresh /\ Fresh \subseteq Packet
  /\ \A p \in Fresh : p.number \in Nat /\ p.frames \in Nat
  /\ \A p \in OfStream : p.number \in Nat /\ p.frames \in Nat
<1>1. Fresh \subseteq Packet  BY DEF Fresh
<1>2. OfStream \subseteq Fresh  BY DEF OfStream
<1> QED  BY <1>1, <1>2, PacketFields

LEMMA SizesNat ==
  ASSUME NEW f \in Formats
  PROVE  Target(f) \in Nat /\ Maximum(f) \in Nat
<1>1. PICK r \in Nat : r = Rate[f]  BY MdxAssumption
<1>2. PICK m \in Nat : m = SegmentMillis  BY MdxAssumption
<1>3. PICK s \in Nat : s = MaxSegments  BY MdxAssumption
<1>4. r * m \in Nat  OBVIOUS
<1>5. PICK rm \in Nat : rm = r * m  BY <1>4
<1>6. rm * s \in Nat  OBVIOUS
<1>7. RoundDiv(rm, 1000) \in Nat /\ RoundDiv(rm * s, 1000) \in Nat  BY <1>6, RoundDivNat
<1> QED  BY <1>1, <1>2, <1>3, <1>5, <1>7 DEF Target, Maximum

\* Dropping from the front brings any buffer within the bound.
LEMMA OverflowOK ==
  ASSUME NEW P, \A p \in P : p.frames \in Nat, NEW q \in Seq(P), NEW f \in Formats
  PROVE  /\ Overflow(q, f) \in 0..Len(q)
         /\ FramesOf(After(q, Overflow(q, f))) <= Maximum(f)
<1> DEFINE T == {n \in 0..Len(q) : FramesOf(After(q, n)) <= Maximum(f)}
<1>1. Len(q) \in Nat /\ Maximum(f) \in Nat  BY LenProperties, SizesNat
<1>2. After(q, Len(q)) = <<>>
  <2>1. SubSeq(q, Len(q) + 1, Len(q)) = <<>>  BY <1>1, SubSeqEmpty
  <2> QED  BY <2>1 DEF After
<1>3. T \subseteq Nat /\ Len(q) \in T  BY <1>1, <1>2, SumEmpty
<1>4. PICK n \in T : \A k \in T : n <= k
  <2> HIDE DEF T
  <2> QED  BY <1>3, LeastNumber
<1>5. n \in 0..Len(q) /\ FramesOf(After(q, n)) <= Maximum(f)  OBVIOUS
<1>6. ASSUME NEW m \in 0..(n - 1) PROVE FramesOf(After(q, m)) > Maximum(f)
  <2>1. m \in 0..Len(q) /\ ~(n <= m)  BY <1>1, <1>5
  <2>2. m \notin T
    <3> HIDE DEF T
    <3> QED  BY <1>4, <2>1
  <2>3. ~(FramesOf(After(q, m)) <= Maximum(f))  BY <2>1, <2>2
  <2>4. FramesOf(After(q, m)) \in Nat  BY <2>1, SumSplit
  <2> QED  BY <1>1, <2>3, <2>4
<1>7. \E k \in 0..Len(q) : /\ FramesOf(After(q, k)) <= Maximum(f)
                           /\ \A m \in 0..(k - 1) : FramesOf(After(q, m)) > Maximum(f)
  BY <1>5, <1>6
<1> QED  BY <1>7 DEF Overflow

\* The tail is the last packet of a segment that has one.
LEMMA TailOfSegment ==
  ASSUME StreamInv, NEW q \in Seq(OfStream)
  PROVE  /\ TailOf(q) \in [last : Nat, frames : Nat]
         /\ TailOf(q) # NoTail => TailOf(q).last \in (resetAt + 1)..arrived
<1>1. PICK frames : frames = FramesOf(q)  OBVIOUS
<1>2. frames \in Nat  BY <1>1, FreshPackets, SumNat
<1>3. PICK percent \in Nat : percent = OverlapPercent  BY MdxAssumption
<1>4. PICK rounded : rounded = RoundDiv(frames * percent, 100)  OBVIOUS
<1>5. rounded \in Nat
  <2>1. frames * percent \in Nat  BY <1>2
  <2> QED  BY <1>4, <2>1, RoundDivNat
<1>6. PICK overlap : overlap = IF rounded < frames \div 2 THEN rounded ELSE frames \div 2
  OBVIOUS
<1>7. overlap \in Nat  BY <1>2, <1>5, <1>6
<1>8. TailOf(q) = IF overlap = 0 THEN NoTail
                  ELSE [last |-> q[Len(q)].number, frames |-> overlap]
  BY <1>1, <1>3, <1>4, <1>6 DEF TailOf
<1>9. NoTail \in [last : Nat, frames : Nat]  BY DEF NoTail
<1>10. CASE overlap = 0  BY <1>8, <1>9, <1>10
<1>11. CASE overlap # 0
  <2>1. frames # 0  BY <1>5, <1>6, <1>11
  <2>2. q # <<>>  BY <1>1, <2>1, SumEmpty
  <2>3. Len(q) \in 1..Len(q)  BY <2>2, EmptySeq
  <2>4. q[Len(q)] \in OfStream  BY <2>3, ElementOfSeq
  <2>5. PICK m : m = q[Len(q)].number  OBVIOUS
  <2>6. m \in Nat /\ m \in (resetAt + 1)..arrived
    BY <2>4, <2>5, FreshPackets DEF OfStream, Fresh
  <2>7. TailOf(q) = [last |-> m, frames |-> overlap]  BY <1>8, <1>11, <2>5
  <2> QED  BY <1>7, <2>6, <2>7
<1> QED  BY <1>10, <1>11

\* While arrived does not decrease, the last reset is the same, and the format is
\* the same or was not yet known, what was fresh or of the stream still is.
LEMMA StaysFresh ==
  ASSUME StreamInv, StreamInv', arrived <= arrived', resetAt' = resetAt
  PROVE  /\ Fresh \subseteq Fresh'
         /\ \A n \in (resetAt + 1)..arrived : n \in (resetAt' + 1)..arrived'
<1>1. \A n \in (resetAt + 1)..arrived : n \in (resetAt' + 1)..arrived'
  BY DEF StreamInv
<1> QED  BY <1>1 DEF Fresh, Packet

LEMMA StaysOfStream ==
  ASSUME StreamInv, StreamInv', arrived <= arrived', resetAt' = resetAt,
         format \in {NoFormat, format'}
  PROVE  OfStream \subseteq OfStream'
<1>1. Fresh \subseteq Fresh'  BY StaysFresh
<1>2. \A p \in Fresh : p.format \in Formats  BY DEF Fresh, Packet
<1>3. format = NoFormat => OfStream = {}
  BY <1>2, MdxAssumption DEF OfStream
<1> QED  BY <1>1, <1>3 DEF OfStream

\* What leaves is of the packets there are.
LEMMA NumbersReleased ==
  ASSUME StreamInv, NEW q \in Seq(Fresh), NEW r, r = out \o Numbers(q)
  PROVE  r \in Seq(1..MaxPackets) /\ Len(r) = Len(out) + Len(q)
<1>1. Len(q) \in Nat /\ \A k \in 1..Len(q) : q[k] \in Packet
  <2>1. Len(q) \in Nat /\ \A k \in 1..Len(q) : q[k] \in Fresh
    BY LenProperties, ElementOfSeq
  <2> QED  BY <2>1, FreshPackets
<1>2. PICK m \in Nat : m = Len(q)  BY <1>1
<1>3. PICK T : T = 1..MaxPackets  OBVIOUS
<1>4. PICK g : g = Numbers(q)  OBVIOUS
<1>5. g \in [1..m -> T]  BY <1>1, <1>2, <1>3, <1>4, PacketFields DEF Numbers
<1>6. g \in Seq(T)  BY ONLY <1>5, m \in Nat, SeqDef
<1>7. Len(g) = Len(q)  BY <1>4, FreshPackets, NumbersOf
<1>8. out \in Seq(T)  BY <1>3 DEF StreamInv
<1>9. out \o g \in Seq(T) /\ Len(out \o g) = Len(out) + Len(g)
  BY ONLY <1>6, <1>8, ConcatProperties
<1> QED  BY <1>3, <1>4, <1>7, <1>9

-----------------------------------------------------------------------------
(* The callers.                                                            *)

LEMMA CallStep ==
  ASSUME CallInv, [Next]_vars
  PROVE  CallInv'
<1> USE DEF CallInv, segmentVars, outputVars, streamVars, resetVars, callerVars
<1>1. ASSUME NEW f \in Formats, NEW n \in FrameCounts, Process(f, n) PROVE CallInv'
  BY <1>1 DEF Process, Arrives, Harvested, Buffered, NoLaunch, Idle
<1>2. ASSUME NEW f \in Formats, ProcessFormatChange(f) PROVE CallInv'
  BY <1>2 DEF ProcessFormatChange, Arrives, CancelsInference, Cleared, Idle
<1>3. CASE ProcessUndecodable
  BY <1>3 DEF ProcessUndecodable, Arrives, NoLaunch, Idle
<1>4. CASE ProcessFails  BY <1>4 DEF ProcessFails, Arrives, HarvestFails
<1>5. CASE Reset
  BY <1>5, MdxAssumption DEF Reset, CancelsInference, Cleared, Idle
<1>6. CASE ResetEnds  BY <1>6 DEF ResetEnds, Cleared
<1>7. CASE Flush  BY <1>7 DEF Flush, NoLaunch, Idle
<1>8. CASE FlushFails  BY <1>8 DEF FlushFails, HarvestFails
<1>9. CASE InferenceBegins  BY <1>9 DEF InferenceBegins
<1>10. CASE InferenceEnds  BY <1>10 DEF InferenceEnds
<1>11. CASE OrphanEnds  BY <1>11 DEF OrphanEnds
<1>12. CASE StopBegins  BY <1>12 DEF StopBegins
<1>13. CASE StopProcessor  BY <1>13 DEF StopProcessor, Idle, Failing
<1>14. CASE UNCHANGED vars  BY <1>14 DEF vars
<1> QED
  BY <1>1, <1>2, <1>3, <1>4, <1>5, <1>6, <1>7, <1>8, <1>9, <1>10, <1>11, <1>12, <1>13,
     <1>14 DEF Next
-----------------------------------------------------------------------------
(* What has left and what can still leave, in one sequence.                *)

Segment == IF Failing THEN <<>> ELSE active

\* The segment that a harvest which launches nothing leaves under inference.
Waiting == IF Idle THEN <<>> ELSE active

Sent == Sending(out, Held)

OrderInv == InOrder(Sent, arrived)

\* What a step owes the abstract specification, beside the invariant.
StepOK ==
  /\ SegInv' /\ arrived <= arrived'
  /\ Follows(Sent, arrived, Sent', arrived')
  /\ \E x \in Seq(Nat) : out' = out \o x

HeldOK ==
  /\ ready \in Seq(Packet) /\ active \in Seq(Packet) /\ input \in Seq(Packet)
  /\ Segment \in Seq(Packet)
  /\ Held = Joined(Joined(ready, Segment), input)
  /\ Held \in Seq(Packet) /\ out \in Seq(Nat) /\ arrived \in Nat /\ resetAt \in Nat
  /\ Sent \in Seq(Nat)

LEMMA HeldIs == SegInv => HeldOK
<1> SUFFICES ASSUME SegInv PROVE HeldOK  OBVIOUS
<1>1. ready \in Seq(Packet)
  BY FreshPackets, SeqMonotonic DEF SegInv, SegmentInv
<1>2. active \in Seq(Packet) /\ input \in Seq(Packet)
  <2>1. OfStream \subseteq Packet  BY FreshPackets
  <2> QED  BY <2>1, SeqMonotonic DEF SegInv, SegmentInv
<1>3. Segment \in Seq(Packet)
  <2>1. <<>> \in Seq(Packet)  BY EmptySeq
  <2> QED  BY <1>2, <2>1 DEF Segment
<1>4. Held = Joined(Joined(ready, Segment), input)
  BY DEF Held, Segment, Joined
<1>5. Joined(Joined(ready, Segment), input) \in Seq(Packet)
  <2>1. Joined(ready, Segment) \in Seq(Packet)  BY <1>1, <1>3, JoinedIs
  <2> QED  BY <1>2, <2>1, JoinedIs
<1>6. out \in Seq(Nat)
  <2>1. 1..MaxPackets \subseteq Nat  BY MdxAssumption
  <2> QED  BY <2>1, SeqMonotonic DEF SegInv, StreamInv
<1>7. arrived \in Nat /\ resetAt \in Nat  BY MdxAssumption DEF SegInv, StreamInv
<1>8. Sent \in Seq(Nat)
  <2>1. Numbers(Held) \in Seq(Nat)  BY <1>4, <1>5, PacketNumbers, NumbersOf
  <2> QED  BY <1>6, <2>1, ConcatProperties DEF Sent, Sending
<1> QED  BY <1>1, <1>2, <1>3, <1>4, <1>5, <1>6, <1>7, <1>8 DEF HeldOK

LEMMA HeldIsNext == SegInv' => HeldOK'
BY HeldIs, PTL

LEMMA Lengths ==
  ASSUME SegInv
  PROVE  /\ Len(out) \in Nat /\ Len(ready) \in Nat /\ Len(active) \in Nat
         /\ Len(input) \in Nat /\ dropped \in Nat /\ lost \in Nat /\ arrived \in Nat
BY HeldIs, LenProperties DEF HeldOK, SegInv, StreamInv

LEMMA Counted ==
  ASSUME SegInv, resetting # "worker"
  PROVE  arrived = Len(out) + Len(ready) + Len(active) + Len(input) + dropped + lost
<1>1. arrived = Len(out) + Len(ready) + Len(active) + Len(input) + dropped + lost + 0
  BY DEF SegInv, AccountInv
<1> QED  BY <1>1, Lengths

\* The lengths as numbers.
LEMMA Numbered ==
  ASSUME SegInv
  PROVE  \E o, r, a, i, d, l \in Nat :
           /\ o = Len(out) /\ r = Len(ready) /\ a = Len(active) /\ i = Len(input)
           /\ d = dropped /\ l = lost
           /\ resetting # "worker" => arrived = o + r + a + i + d + l
<1>1. resetting # "worker" =>
        arrived = Len(out) + Len(ready) + Len(active) + Len(input) + dropped + lost
  BY Counted
<1> QED  BY <1>1, Lengths

\* Steps after which what has left and what is held are the same.
LEMMA SameSent ==
  ASSUME SegInv, OrderInv, SegInv', arrived <= arrived', Sent' = Sent,
         \E x \in Seq(Nat) : out' = out \o x
  PROVE  StepOK
<1>1. arrived \in Nat /\ arrived' \in Nat /\ Sent \in Seq(Nat)
  BY HeldIs, HeldIsNext DEF HeldOK
<1> QED  BY <1>1, FollowsKept DEF StepOK, OrderInv

LEMMA NothingLeaves ==
  ASSUME SegInv, out' = out
  PROVE  \E x \in Seq(Nat) : out' = out \o x
<1>1. out = out \o <<>> /\ <<>> \in Seq(Nat)
  BY HeldIs, ConcatEmptySeq, EmptySeq DEF HeldOK
<1> WITNESS <<>> \in Seq(Nat)
<1> QED  BY <1>1

\* A harvest that does not fail: nothing has moved, the tail is one of a segment.
LEMMA HarvestKeeps ==
  ASSUME SegInv, ~Failing, task # "cancelled"
  PROVE  /\ HarvestedReady \in Seq(Fresh) /\ HarvestedReady \in Seq(Packet)
         /\ Waiting \in Seq(OfStream) /\ Waiting \in Seq(Packet)
         /\ Held = Joined(Joined(HarvestedReady, Waiting), input)
         /\ Len(HarvestedReady) \in Nat /\ Len(Waiting) \in Nat
         /\ Len(HarvestedReady) + Len(Waiting) = Len(ready) + Len(active)
<1>1. /\ ready \in Seq(Fresh) /\ active \in Seq(OfStream)
      /\ OfStream \subseteq Fresh /\ Fresh \subseteq Packet
  BY FreshPackets DEF SegInv, SegmentInv
<1>2. active \in Seq(Fresh)  BY <1>1, SeqMonotonic
<1>3. Joined(ready, active) \in Seq(Fresh)
      /\ Len(Joined(ready, active)) = Len(ready) + Len(active)
      /\ Joined(Joined(ready, active), <<>>) = Joined(ready, active)
      /\ Joined(ready, <<>>) = ready
  BY <1>1, <1>2, JoinedIs
<1>4. <<>> \in Seq(OfStream) /\ Len(<<>>) = 0  BY EmptySeq
<1>5. Held = Joined(Joined(ready, active), input)  BY HeldIs DEF HeldOK, Segment
<1>6. task = "done" => HarvestedReady = Joined(ready, active)
  BY DEF HarvestedReady, Joined
<1>7. task = "none" => active = <<>>  BY DEF SegInv, SegmentInv
<1>8. task \in {"none", "created", "running", "done"}
  BY DEF SegInv, CallInv, Failing
<1>9. Len(ready) \in Nat /\ Len(active) \in Nat  BY Lengths
<1>10. /\ HarvestedReady \in Seq(Fresh) /\ Waiting \in Seq(OfStream)
       /\ Held = Joined(Joined(HarvestedReady, Waiting), input)
       /\ Len(HarvestedReady) + Len(Waiting) = Len(ready) + Len(active)
       /\ Len(HarvestedReady) \in Nat /\ Len(Waiting) \in Nat
  <2>1. CASE task = "done"
    <3>1. HarvestedReady = Joined(ready, active) /\ Waiting = <<>>
      BY <1>6, <2>1 DEF Waiting, Idle
    <3> QED  BY <1>3, <1>4, <1>5, <1>9, <3>1
  <2>2. CASE task = "none"
    <3>1. HarvestedReady = ready /\ Waiting = <<>> /\ active = <<>>
      BY <1>7, <2>2 DEF Waiting, Idle, HarvestedReady
    <3> QED  BY <1>1, <1>3, <1>4, <1>5, <1>9, <3>1
  <2>3. CASE task \in {"created", "running"}
    <3>1. HarvestedReady = ready /\ Waiting = active
      BY <2>3 DEF Waiting, Idle, HarvestedReady
    <3> QED  BY <1>1, <1>5, <1>9, <3>1
  <2> QED  BY <1>8, <2>1, <2>2, <2>3
<1>11. HarvestedReady \in Seq(Packet)  BY <1>1, <1>10, SeqMonotonic
<1>12. Waiting \in Seq(Packet)
  <2>1. OfStream \subseteq Packet  BY <1>1
  <2> QED  BY <1>10, <2>1, SeqMonotonic
<1> QED  BY <1>10, <1>11, <1>12

\* The tail a harvest leaves, and what stays of it while packets arrive.
LEMMA HarvestedTail ==
  ASSUME SegInv, Harvested \/ tail' = tail, StreamInv', arrived <= arrived',
         resetAt' = resetAt
  PROVE  TailInv'
<1>1. /\ tail' \in [last : Nat, frames : Nat]
      /\ tail' # NoTail => tail'.last \in (resetAt + 1)..arrived
  BY TailOfSegment DEF Harvested, SegInv, SegmentInv, TailInv
<1>2. \A n \in (resetAt + 1)..arrived : n \in (resetAt' + 1)..arrived'
  BY StaysFresh DEF SegInv
<1>3. NoTail' = NoTail  BY DEF NoTail
<1> QED  BY <1>1, <1>2, <1>3 DEF TailInv

-----------------------------------------------------------------------------
(* process()                                                               *)

\* No packet of the segment is more than the target takes.
Minimal(q, target) == \A m \in 0..(Len(q) - 1) : FramesOf(SubSeq(q, 1, m)) < target

\* The buffer k after the packets d were dropped to make room for p, and the
\* segment that may be cut from it.
BufferedOK(d, k, p) ==
  /\ Joined(d, k) = Append(input, p) /\ dropped' = dropped + Len(d)
  /\ Joined(active', input') = Joined(Waiting, k)
  /\ inputFrames' = FramesOf(input') /\ FramesOf(input') <= Maximum(p.format)
  /\ task' \in {"none", "created", "running"} /\ (task' = "none" => active' = <<>>)
  /\ FramesOf(k) <= Maximum(p.format)
  /\ \/ active' = Waiting
     \/ Waiting = <<>> /\ Minimal(active', Target(p.format))

LEMMA BufferedKeeps ==
  ASSUME SegInv, ~Failing, task # "cancelled",
         NEW S, \A x \in S : x.number \in Nat /\ x.frames \in Nat /\ x.format \in Formats,
         NEW p \in S, Buffered(p), input \in Seq(S), active \in Seq(S)
  PROVE  \E d, k \in Seq(S) :
           BufferedOK(d, k, p) /\ active' \in Seq(S) /\ input' \in Seq(S)
<1>1. PICK packets : packets = Append(input, p)  OBVIOUS
<1>2. packets \in Seq(S)  BY <1>1, AppendProperties
<1>3. PICK f \in Formats : f = p.format  OBVIOUS
<1>4. PICK n : n = Overflow(packets, f)  OBVIOUS
<1>5. n \in 0..Len(packets) /\ FramesOf(After(packets, n)) <= Maximum(f)
  BY <1>2, <1>4, OverflowOK
<1>6. PICK d : d = SubSeq(packets, 1, n)  OBVIOUS
<1>7. PICK k : k = After(packets, n)  OBVIOUS
<1>8. d \in Seq(S) /\ k \in Seq(S) /\ Len(d) = n /\ Joined(d, k) = packets
  BY <1>2, <1>5, <1>6, <1>7, Cut DEF Joined
<1>9. /\ FramesOf(packets) \in Nat /\ FramesOf(d) \in Nat /\ FramesOf(k) \in Nat
      /\ FramesOf(packets) = FramesOf(d) + FramesOf(k)
  BY <1>2, <1>5, <1>6, <1>7, SumSplit
<1>10. FramesOf(packets) = inputFrames + p.frames
  <2>1. FramesOf(Append(input, p)) = FramesOf(input) + p.frames  BY SumAppend
  <2> QED  BY <1>1, <2>1 DEF SegInv, SegmentInv
<1>11. PICK frames : frames = FramesLeft(inputFrames + p.frames, d)  OBVIOUS
<1>12. frames = FramesOf(k)  BY <1>9, <1>10, <1>11 DEF FramesLeft
<1>13. Maximum(f) \in Nat  BY SizesNat
<1>14. PICK taken : taken = PacketsTaken(k, Target(f))  OBVIOUS
<1>15. taken \in 0..Len(k) /\ Minimal(SubSeq(k, 1, taken), Target(f))
  <2>1. PICK t \in Nat : t = Target(f)  BY SizesNat
  <2>2. /\ taken \in 0..Len(k)
        /\ \A m \in 0..(taken - 1) : FramesOf(SubSeq(k, 1, m)) < t
    BY <1>8, <1>14, <2>1, TakenInRange
  <2>3. Len(SubSeq(k, 1, taken)) = taken  BY <1>8, <2>2, Cut
  <2>4. ASSUME NEW m \in 0..(taken - 1)
        PROVE  SubSeq(SubSeq(k, 1, taken), 1, m) = SubSeq(k, 1, m)
    BY <1>8, <2>2, CutTwice
  <2> QED  BY <2>1, <2>2, <2>3, <2>4 DEF Minimal
<1>16. /\ dropped' = dropped + n
       /\ IF Idle /\ frames >= Target(f)
          THEN /\ task' = "created"
               /\ active' = SubSeq(k, 1, taken)
               /\ input' = After(k, taken)
               /\ inputFrames' = FramesLeft(frames, SubSeq(k, 1, taken))
          ELSE NoLaunch /\ input' = k /\ inputFrames' = frames
  BY <1>1, <1>3, <1>4, <1>6, <1>7, <1>11, <1>14 DEF Buffered, Kept, Drops
<1>17. /\ active' \in Seq(S) /\ input' \in Seq(S)
       /\ Joined(active', input') = Joined(Waiting, k)
       /\ inputFrames' = FramesOf(input') /\ FramesOf(input') <= Maximum(f)
       /\ task' \in {"none", "created", "running"} /\ (task' = "none" => active' = <<>>)
       /\ active' = Waiting \/ (Waiting = <<>> /\ Minimal(active', Target(f)))
  <2>1. CASE Idle /\ frames >= Target(f)
    <3>1. /\ task' = "created" /\ active' = SubSeq(k, 1, taken) /\ input' = After(k, taken)
          /\ inputFrames' = frames - FramesOf(SubSeq(k, 1, taken))
      BY <1>16, <2>1 DEF FramesLeft
    <3>2. active' \in Seq(S) /\ input' \in Seq(S) /\ Joined(active', input') = k
      BY <1>8, <1>15, <3>1, Cut DEF Joined
    <3>3. /\ FramesOf(k) = FramesOf(active') + FramesOf(input')
          /\ FramesOf(active') \in Nat /\ FramesOf(input') \in Nat
      BY <1>8, <1>15, <3>1, SumSplit
    <3>4. Joined(Waiting, k) = k  BY <1>8, <2>1, JoinedIs DEF Waiting
    <3>5. inputFrames' = FramesOf(input')  BY <1>12, <3>1, <3>3
    <3>6. FramesOf(k) <= Maximum(f)  BY <1>5, <1>7
    <3>7. FramesOf(input') <= Maximum(f)  BY <1>9, <1>13, <3>3, <3>6
    <3>8. Waiting = <<>> /\ Minimal(active', Target(f))  BY <1>15, <2>1, <3>1 DEF Waiting
    <3> QED  BY <3>1, <3>2, <3>4, <3>5, <3>7, <3>8
  <2>2. CASE ~(Idle /\ frames >= Target(f))
    <3>1. NoLaunch /\ input' = k /\ inputFrames' = frames  BY <1>16, <2>2
    <3>2. active' = Waiting /\ task' = IF Idle THEN "none" ELSE task
      BY <3>1 DEF NoLaunch, Waiting
    <3>3. active' \in Seq(S)
      <4>1. <<>> \in Seq(S)  BY EmptySeq
      <4> QED  BY <3>2, <4>1 DEF Waiting
    <3>4. task' \in {"none", "created", "running"} /\ (task' = "none" => active' = <<>>)
      BY <3>2 DEF Waiting, Idle
    <3> QED  BY <1>5, <1>7, <1>8, <1>12, <3>1, <3>2, <3>3, <3>4
  <2> QED  BY <2>1, <2>2
<1>18. BufferedOK(d, k, p)
  BY <1>1, <1>3, <1>5, <1>7, <1>8, <1>16, <1>17 DEF BufferedOK
<1> QED  BY <1>8, <1>17, <1>18

LEMMA ProcessStep ==
  ASSUME SegInv, OrderInv, CallInv', NEW f \in Formats, NEW n \in FrameCounts,
         Process(f, n)
  PROVE  StepOK
<1>1. PICK p : p = [number |-> arrived', frames |-> n, format |-> f]  OBVIOUS
<1>2. PICK H : H = HarvestedReady  OBVIOUS
<1>3. PICK W : W = Waiting  OBVIOUS
<1>4. /\ resetting = "nobody" /\ ~Failing /\ Harvested
      /\ arrived < MaxPackets /\ arrived' = arrived + 1
      /\ format \in {NoFormat, f} /\ format' = f /\ Buffered(p)
      /\ ready' = Rest(H) /\ out' = out \o Numbers(First(H))
      /\ lost' = lost /\ resetAt' = resetAt /\ resetting' = resetting
  BY <1>1, <1>2 DEF Process, Arrives, Harvested, Compatible, Released, Remaining, resetVars
<1>5. task # "cancelled"  BY <1>4 DEF SegInv, CallInv
<1>6. /\ input \in Seq(Packet) /\ active \in Seq(Packet) /\ out \in Seq(Nat)
      /\ Held \in Seq(Packet) /\ arrived \in Nat /\ resetAt \in Nat /\ Sent \in Seq(Nat)
  BY HeldIs DEF HeldOK
<1>7. /\ H \in Seq(Fresh) /\ H \in Seq(Packet) /\ W \in Seq(Packet)
      /\ Held = Joined(Joined(H, W), input)
      /\ Len(H) + Len(W) = Len(ready) + Len(active) /\ Len(H) \in Nat /\ Len(W) \in Nat
  BY <1>2, <1>3, <1>4, <1>5, HarvestKeeps
<1>8. /\ First(H) \in Seq(Fresh) /\ Rest(H) \in Seq(Fresh)
      /\ Len(First(H)) + Len(Rest(H)) = Len(H)
      /\ First(H) \in Seq(Packet) /\ Rest(H) \in Seq(Packet)
      /\ Joined(First(H), Rest(H)) = H
  BY <1>7, FirstAndRest DEF Joined
<1>9. /\ out' \in Seq(1..MaxPackets) /\ Len(out') = Len(out) + Len(First(H))
  BY <1>4, <1>8, NumbersReleased DEF SegInv
<1>10. Packet' = Packet  BY DEF Packet
<1>11. p \in Packet /\ p.number = arrived + 1 /\ p.format = f
  <2>1. arrived' \in 1..MaxPackets  BY <1>4, <1>6, MdxAssumption
  <2> QED  BY <1>1, <1>4, <2>1 DEF Packet
<1>12. /\ arrived' \in 0..MaxPackets /\ resetAt' \in 0..arrived' /\ arrived <= arrived'
       /\ arrived' \in (resetAt' + 1)..arrived'
  BY <1>4, <1>6, MdxAssumption DEF SegInv, StreamInv
<1>13. PICK S : S = {x \in Packet : x.number \in (resetAt' + 1)..arrived' /\ x.format = f}
  OBVIOUS
<1>14. S = OfStream'  BY <1>4, <1>10, <1>13 DEF OfStream, Fresh
<1>15. p \in S  BY <1>1, <1>11, <1>12, <1>13
<1>16. \A x \in S : x \in Packet /\ x.number \in Nat /\ x.frames \in Nat /\ x.format \in Formats
  BY <1>13, PacketFields
<1>17. input \in Seq(S) /\ active \in Seq(S)
  <2>1. \A m \in (resetAt + 1)..arrived : m \in (resetAt' + 1)..arrived'
    BY <1>4, <1>6
  <2>2. format = NoFormat => OfStream = {}
    BY MdxAssumption DEF OfStream, Fresh, Packet
  <2>3. OfStream \subseteq S  BY <1>4, <1>13, <2>1, <2>2 DEF OfStream, Fresh
  <2> QED  BY <2>3, SeqMonotonic DEF SegInv, SegmentInv
<1>18. PICK d, k \in Seq(S) :
         BufferedOK(d, k, p) /\ active' \in Seq(S) /\ input' \in Seq(S)
  BY <1>4, <1>5, <1>15, <1>16, <1>17, BufferedKeeps
<1>19. d \in Seq(Packet) /\ k \in Seq(Packet) /\ active' \in Seq(Packet)
       /\ input' \in Seq(Packet)
  <2>1. S \subseteq Packet  BY <1>16
  <2> QED  BY <1>18, <2>1, SeqMonotonic
<1>20. /\ Len(d) \in Nat /\ Len(k) \in Nat /\ Len(active') \in Nat /\ Len(input') \in Nat
       /\ Len(First(H)) \in Nat /\ Len(Rest(H)) \in Nat
  BY <1>8, <1>19, LenProperties
<1>21. Len(d) + Len(k) = Len(input) + 1
  <2>1. Len(Joined(d, k)) = Len(d) + Len(k)  BY <1>19, JoinedIs
  <2>2. Len(Append(input, p)) = Len(input) + 1  BY <1>6, <1>11, AppendProperties
  <2> QED  BY <1>18, <2>1, <2>2 DEF BufferedOK
<1>22. Len(active') + Len(input') = Len(W) + Len(k)
  <2>1. Len(Joined(active', input')) = Len(active') + Len(input')  BY <1>19, JoinedIs
  <2>2. Len(Joined(W, k)) = Len(W) + Len(k)  BY <1>7, <1>19, JoinedIs
  <2> QED  BY <1>3, <1>18, <2>1, <2>2 DEF BufferedOK
<1>23. dropped' = dropped + Len(d)  BY <1>18 DEF BufferedOK
<1>24. AccountInv'
  <2>1. PICK o, r, a, i, dr, l \in Nat :
          /\ o = Len(out) /\ r = Len(ready) /\ a = Len(active) /\ i = Len(input)
          /\ dr = dropped /\ l = lost /\ arrived = o + r + a + i + dr + l
    BY <1>4, Numbered
  <2>2. PICK h, w, x, y, dd, kk, aa, ii \in Nat :
          /\ h = Len(H) /\ w = Len(W) /\ x = Len(First(H)) /\ y = Len(Rest(H))
          /\ dd = Len(d) /\ kk = Len(k) /\ aa = Len(active') /\ ii = Len(input')
    BY <1>7, <1>20
  <2>3. h + w = r + a /\ x + y = h /\ dd + kk = i + 1 /\ aa + ii = w + kk
    BY <1>7, <1>8, <1>21, <1>22, <2>1, <2>2
  <2>4. o + r + a + i + dr + l + 1 = (o + x) + y + aa + ii + (dr + dd) + l + 0
    BY ONLY <2>3, o \in Nat, r \in Nat, a \in Nat, i \in Nat, dr \in Nat, l \in Nat,
            h \in Nat, w \in Nat, x \in Nat, y \in Nat, dd \in Nat, kk \in Nat,
            aa \in Nat, ii \in Nat
  <2>5. /\ arrived' = o + r + a + i + dr + l + 1
        /\ Len(out') = o + x /\ Len(ready') = y /\ dropped' = dr + dd
        /\ lost' = l /\ resetting' # "worker"
    BY <1>4, <1>9, <1>23, <2>1, <2>2
  <2> QED  BY <2>2, <2>4, <2>5 DEF AccountInv
<1>25. StreamInv'
  BY <1>4, <1>9, <1>12, <1>20, <1>23 DEF SegInv, StreamInv
<1>26. TailInv'  BY <1>4, <1>12, <1>25, HarvestedTail
<1>27. SegmentInv'
  <2>1. Fresh \subseteq Fresh'  BY <1>4, <1>12, <1>25, StaysFresh DEF SegInv
  <2>2. ready' \in Seq(Fresh')  BY <1>4, <1>8, <2>1, SeqMonotonic
  <2>3. Maximum(format)' = Maximum(f)  BY <1>4 DEF Maximum
  <2>4. FramesOf(input)' <= Maximum(format)'
    BY <1>11, <1>18, <2>3 DEF BufferedOK
  <2>5. inputFrames' = FramesOf(input)' /\ (task' = "none" => active' = <<>>)
    BY <1>18 DEF BufferedOK
  <2> QED  BY <1>14, <1>18, <2>2, <2>4, <2>5 DEF SegmentInv
<1>28. SegInv'  BY <1>24, <1>25, <1>26, <1>27 DEF SegInv
<1>29. /\ Held' = Joined(Joined(Rest(H), active'), input') /\ Held' \in Seq(Packet)
  <2>1. ~Failing'  BY <1>18 DEF BufferedOK, Failing
  <2> QED  BY <1>4, <1>10, <1>28, <2>1, HeldIsNext DEF HeldOK, Segment
<1>30. PICK HW \in Seq(Packet) : HW = Joined(H, W)  BY <1>7, JoinedIs
<1>31. Joined(First(H), Held') = Joined(HW, k)
  <2>1. Joined(Rest(H), active') \in Seq(Packet)  BY <1>8, <1>19, JoinedIs, Zenon
  <2>2. Joined(First(H), Held')
          = Joined(Joined(First(H), Joined(Rest(H), active')), input')
    BY <1>8, <1>19, <1>29, <2>1, JoinedAssociative
  <2>3. Joined(First(H), Joined(Rest(H), active')) = Joined(H, active')
    BY <1>8, <1>19, JoinedAssociative
  <2>4. Joined(Joined(H, active'), input') = Joined(H, Joined(active', input'))
    BY <1>7, <1>19, JoinedAssociative
  <2>5. Joined(active', input') = Joined(W, k)  BY <1>3, <1>18 DEF BufferedOK
  <2>6. Joined(H, Joined(W, k)) = Joined(HW, k)
    BY <1>7, <1>19, <1>30, JoinedAssociative
  <2> QED  BY <2>2, <2>3, <2>4, <2>5, <2>6, Zenon
<1>32. Append(Held, p) = Joined(Joined(HW, d), k)
  <2>1. Joined(HW, Append(input, p)) = Append(Joined(HW, input), p)
    BY <1>6, <1>11, JoinedAppend
  <2>2. Append(input, p) = Joined(d, k)  BY <1>18 DEF BufferedOK
  <2>3. Joined(Joined(HW, d), k) = Joined(HW, Joined(d, k))
    BY <1>19, JoinedAssociative
  <2> QED  BY <1>7, <1>30, <2>1, <2>2, <2>3, Zenon
<1>33. Follows(Sent, arrived, Sending(out, Joined(Joined(HW, d), k)), arrived')
  <2>1. Sending(out, Append(Held, p)) = Append(Sending(out, Held), p.number)
    BY <1>6, <1>11, PacketNumbers, AppendedBehind, Zenon
  <2>2. Follows(Sent, arrived, Append(Sent, arrived + 1), arrived + 1)
    BY <1>6, FollowsAppended DEF OrderInv
  <2> QED  BY <1>4, <1>11, <1>32, <2>1, <2>2 DEF Sent
<1>34. Follows(Sent, arrived, Sending(out, Joined(HW, k)), arrived')
  BY <1>6, <1>19, <1>33, PacketNumbers, SegmentLost
<1>35. Sending(out, Joined(HW, k)) = Sent'
  <2>1. Sending(out, Joined(First(H), Held')) = Sending(out, First(H)) \o Numbers(Held')
    BY <1>6, <1>8, <1>29, PacketNumbers, Leaving, Zenon
  <2> QED  BY <1>4, <1>31, <2>1 DEF Sent, Sending
<1>36. Numbers(First(H)) \in Seq(Nat)  BY <1>8, PacketNumbers, NumbersOf
<1>37. \E x \in Seq(Nat) : out' = out \o x
  <2> WITNESS Numbers(First(H)) \in Seq(Nat)
  <2> QED  BY <1>4
<1> QED  BY <1>12, <1>28, <1>34, <1>35, <1>37 DEF StepOK

-----------------------------------------------------------------------------
(* The steps that buffer nothing.                                          *)

\* The stream and what it has collected stay; the segment may be given up.
LEMMA SegmentKept ==
  ASSUME SegInv, StreamInv', arrived <= arrived', resetAt' = resetAt, format' = format,
         input' = input, inputFrames' = inputFrames,
         active' \in {active, <<>>}, task' = "none" => active' = <<>>,
         ready' \in Seq(Fresh)
  PROVE  SegmentInv'
<1>1. Fresh \subseteq Fresh' /\ OfStream \subseteq OfStream'
  BY StaysFresh, StaysOfStream DEF SegInv
<1>2. input' \in Seq(OfStream') /\ ready' \in Seq(Fresh')
  BY <1>1, SeqMonotonic DEF SegInv, SegmentInv
<1>3. active' \in Seq(OfStream')
  <2>1. active \in Seq(OfStream') /\ <<>> \in Seq(OfStream')
    BY <1>1, SeqMonotonic, EmptySeq DEF SegInv, SegmentInv
  <2> QED  BY <2>1
<1>4. /\ inputFrames' = FramesOf(input)'
      /\ (format = NoFormat \/ FramesOf(input) <= Maximum(format))'
  BY DEF SegInv, SegmentInv, Maximum
<1> QED  BY <1>2, <1>3, <1>4 DEF SegmentInv

LEMMA UndecodableStep ==
  ASSUME SegInv, OrderInv, CallInv', ProcessUndecodable
  PROVE  StepOK
<1>1. /\ resetting = "nobody" /\ ~Failing /\ Harvested
      /\ arrived < MaxPackets /\ arrived' = arrived + 1
      /\ ready' = HarvestedReady /\ active' = Waiting
      /\ task' = IF Idle THEN "none" ELSE task
      /\ lost' = lost + 1 /\ input' = input /\ inputFrames' = inputFrames
      /\ out' = out /\ format' = format /\ dropped' = dropped
      /\ resetAt' = resetAt /\ resetting' = resetting
  BY DEF ProcessUndecodable, Arrives, Harvested, NoLaunch, Waiting, resetVars
<1>2. task # "cancelled"  BY <1>1 DEF SegInv, CallInv
<1>3. arrived \in Nat /\ arrived' \in 0..MaxPackets /\ arrived <= arrived'
      /\ resetAt' \in 0..arrived'
  BY <1>1, MdxAssumption DEF SegInv, StreamInv
<1>4. StreamInv'  BY <1>1, <1>3 DEF SegInv, StreamInv
<1>5. TailInv'  BY <1>1, <1>3, <1>4, HarvestedTail
<1>6. SegmentInv'
  <2>1. HarvestedReady \in Seq(Fresh)  BY <1>1, <1>2, HarvestKeeps
  <2>2. active' \in {active, <<>>} /\ (task' = "none" => active' = <<>>)
    BY <1>1 DEF Waiting, Idle
  <2> QED  BY <1>1, <1>3, <1>4, <2>1, <2>2, SegmentKept
<1>7. AccountInv'
  <2>1. PICK o, r, a, i, d, l \in Nat :
          /\ o = Len(out) /\ r = Len(ready) /\ a = Len(active) /\ i = Len(input)
          /\ d = dropped /\ l = lost /\ arrived = o + r + a + i + d + l
    BY <1>1, Numbered
  <2>2. PICK h, w \in Nat : h = Len(ready') /\ w = Len(active') /\ h + w = r + a
    BY <1>1, <1>2, <2>1, HarvestKeeps
  <2>3. o + r + a + i + d + l + 1 = o + h + w + i + d + (l + 1) + 0
    BY ONLY <2>2
  <2>4. /\ arrived' = o + r + a + i + d + l + 1
        /\ Len(out') = o /\ Len(input') = i /\ dropped' = d
        /\ lost' = l + 1 /\ resetting' # "worker"
    BY <1>1, <2>1
  <2> QED  BY <2>2, <2>3, <2>4 DEF AccountInv
<1>8. SegInv'  BY <1>4, <1>5, <1>6, <1>7 DEF SegInv
<1>9. Held' = Held
  <2>1. Held' = Joined(Joined(ready', active'), input')
    <3>1. ~Failing'  BY <1>1 DEF Failing, Idle
    <3> QED  BY <1>8, <3>1, HeldIsNext DEF HeldOK, Segment
  <2> QED  BY <1>1, <1>2, <2>1, HarvestKeeps
<1>10. Sent' = Sent  BY <1>1, <1>9 DEF Sent
<1> QED  BY <1>1, <1>3, <1>8, <1>10, SameSent, NothingLeaves

\* What the steps have in common in which the harvest raises.
HarvestFailed ==
  /\ Failing /\ task' = "none" /\ active' = <<>>
  /\ UNCHANGED <<input, inputFrames, ready, tail, out, format, dropped, resetAt, resetting>>

\* The failed segment is lost, and the packet at hand if there is one.
LEMMA HarvestFailsStep ==
  ASSUME SegInv, OrderInv, CallInv', HarvestFailed,
         NEW p \in {0, 1}, arrived' = arrived + p, arrived' <= MaxPackets,
         lost' = lost + p + Len(active)
  PROVE  StepOK
<1>1. /\ Failing /\ task' = "none" /\ active' = <<>>
      /\ input' = input /\ inputFrames' = inputFrames /\ ready' = ready /\ tail' = tail
      /\ out' = out /\ format' = format /\ dropped' = dropped
      /\ resetAt' = resetAt /\ resetting' = resetting
  BY DEF HarvestFailed
<1>2. resetting = "nobody"  BY <1>1 DEF Failing, SegInv, CallInv
<1>3. arrived \in Nat /\ arrived' \in 0..MaxPackets /\ arrived <= arrived'
      /\ resetAt' \in 0..arrived' /\ lost' \in Nat
  <2>1. Len(active) \in Nat /\ lost \in Nat /\ arrived \in Nat  BY Lengths
  <2>2. lost' \in Nat  BY ONLY <2>1, p \in {0, 1}, lost' = lost + p + Len(active)
  <2> QED  BY <1>1, <2>1, <2>2, MdxAssumption DEF SegInv, StreamInv
<1>4. StreamInv'  BY <1>1, <1>3 DEF SegInv, StreamInv
<1>5. TailInv'  BY <1>1, <1>3, <1>4, HarvestedTail
<1>6. SegmentInv'
  BY <1>1, <1>3, <1>4, SegmentKept DEF SegInv, SegmentInv
<1>7. AccountInv'
  <2>1. PICK o, r, a, i, d, l \in Nat :
          /\ o = Len(out) /\ r = Len(ready) /\ a = Len(active) /\ i = Len(input)
          /\ d = dropped /\ l = lost /\ arrived = o + r + a + i + d + l
    BY <1>2, Numbered
  <2>2. Len(active') = 0  BY <1>1, EmptySeq
  <2>3. o + r + a + i + d + l + p = o + r + 0 + i + d + (l + p + a) + 0
    BY ONLY <2>1, p \in {0, 1}
  <2>4. /\ arrived' = o + r + a + i + d + l + p
        /\ Len(out') = o /\ Len(ready') = r /\ Len(input') = i /\ dropped' = d
        /\ lost' = l + p + a /\ resetting' # "worker"
    BY <1>1, <1>2, <2>1
  <2> QED  BY <2>2, <2>3, <2>4 DEF AccountInv
<1>8. SegInv'  BY <1>4, <1>5, <1>6, <1>7 DEF SegInv
<1>9. Held' = Held
  BY <1>1, <1>8, HeldIs, HeldIsNext DEF HeldOK, Segment, Failing
<1>10. Sent' = Sent  BY <1>1, <1>9 DEF Sent
<1> QED  BY <1>1, <1>3, <1>8, <1>10, SameSent, NothingLeaves

\* The inference starts, ends, or is cancelled by the worker or by a request, the
\* worker with a packet at hand; or a step beside the segments.
LEMMA SegmentStep ==
  ASSUME SegInv, OrderInv, CallInv', NEW b \in {0, 1},
         UNCHANGED <<input, inputFrames, active, ready, tail, format, dropped, lost,
                     resetAt, out>>,
         task' = "none" => task = "none",
         Failing => Failing',
         b = IF resetting = "worker" \/ resetting' # "worker" THEN 0 ELSE 1,
         resetting = "worker" => resetting' = "worker",
         arrived' = arrived + b, arrived' <= MaxPackets
  PROVE  StepOK
<1>1. /\ input' = input /\ inputFrames' = inputFrames /\ active' = active
      /\ ready' = ready /\ tail' = tail /\ format' = format /\ dropped' = dropped
      /\ lost' = lost /\ resetAt' = resetAt /\ out' = out
  OBVIOUS
<1>2. /\ arrived \in Nat /\ arrived' \in 0..MaxPackets /\ resetAt' \in 0..arrived'
      /\ arrived <= arrived'
  BY Lengths, MdxAssumption DEF SegInv, StreamInv
<1>3. StreamInv'  BY <1>1, <1>2 DEF SegInv, StreamInv
<1>4. TailInv'  BY <1>1, <1>2, <1>3, HarvestedTail
<1>5. SegmentInv'
  BY <1>1, <1>2, <1>3, SegmentKept DEF SegInv, SegmentInv
<1>6. AccountInv'
  <2>1. arrived = Len(out) + Len(ready) + Len(active) + Len(input) + dropped + lost
                    + (IF resetting = "worker" THEN 1 ELSE 0)
    BY DEF SegInv, AccountInv
  <2>2. PICK w \in {0, 1} : w = IF resetting = "worker" THEN 1 ELSE 0  OBVIOUS
  <2>3. w + b = IF resetting' = "worker" THEN 1 ELSE 0  BY <2>2
  <2>4. arrived + b = Len(out) + Len(ready) + Len(active) + Len(input) + dropped + lost
                        + (w + b)
    BY ONLY <2>1, <2>2, Lengths, SegInv, b \in {0, 1}
  <2> QED  BY <1>1, <2>3, <2>4 DEF AccountInv
<1>7. SegInv'  BY <1>3, <1>4, <1>5, <1>6 DEF SegInv
<1>8. /\ ready \in Seq(Packet) /\ active \in Seq(Packet) /\ input \in Seq(Packet)
      /\ Held = Joined(Joined(ready, Segment), input) /\ Held \in Seq(Packet)
      /\ out \in Seq(Nat) /\ Sent \in Seq(Nat)
      /\ Held' = Joined(Joined(ready, Segment'), input)
  BY <1>1, <1>7, HeldIs, HeldIsNext DEF HeldOK
<1>9. Segment' = Segment \/ (Segment = active /\ Segment' = <<>>)
  BY <1>1 DEF Segment, Failing
<1>10. CASE Segment' = Segment
  <2>1. Sent' = Sent  BY <1>1, <1>8, <1>10 DEF Sent
  <2> QED  BY <1>1, <1>2, <1>7, <2>1, SameSent, NothingLeaves
<1>11. CASE Segment = active /\ Segment' = <<>>
  <2>1. Held' = Joined(ready, input)  BY <1>8, <1>11, JoinedIs
  <2>2. Follows(Sent, arrived, Sending(out, Joined(Joined(ready, active), input)), arrived')
    BY <1>2, <1>8, <1>11, FollowsKept DEF OrderInv, Sent
  <2>3. Follows(Sent, arrived, Sending(out, Joined(ready, input)), arrived')
    BY <1>8, <2>2, PacketNumbers, SegmentLost
  <2> QED  BY <1>1, <1>2, <1>7, <2>1, <2>3, NothingLeaves DEF StepOK, Sent
<1> QED  BY <1>9, <1>10, <1>11

\* Everything up to x has left: a flush by a request, and by stop() when an inference
\* has to be cancelled.
LEMMA FlushedStep ==
  ASSUME SegInv, OrderInv, CallInv', resetting # "worker", resetting' # "worker",
         NEW H \in Seq(Fresh), NEW W, active' = W, W \in {active, <<>>}, ~Failing',
         W \in Seq(Packet), Held = Joined(Joined(H, W), input),
         Len(H) + Len(W) = Len(ready) + Len(active),
         task' = "none" => active' = <<>>, Harvested \/ tail' = tail,
         ready' = <<>>, out' = out \o Numbers(H),
         UNCHANGED <<arrived, input, inputFrames, format, dropped, lost, resetAt>>
  PROVE  StepOK
<1>1. /\ arrived' = arrived /\ input' = input /\ inputFrames' = inputFrames
      /\ format' = format /\ dropped' = dropped /\ lost' = lost /\ resetAt' = resetAt
  OBVIOUS
<1>2. /\ arrived \in Nat /\ arrived <= arrived' /\ out \in Seq(Nat)
      /\ input \in Seq(Packet) /\ active \in Seq(Packet) /\ Held \in Seq(Packet)
  BY <1>1, HeldIs DEF HeldOK
<1>3. H \in Seq(Packet)
  <2>1. Fresh \subseteq Packet  BY FreshPackets
  <2> QED  BY <2>1, SeqMonotonic
<1>4. out' \in Seq(1..MaxPackets) /\ Len(out') = Len(out) + Len(H)
  BY NumbersReleased DEF SegInv
<1>5. StreamInv'  BY <1>1, <1>4 DEF SegInv, StreamInv
<1>6. TailInv'  BY <1>1, <1>2, <1>5, HarvestedTail
<1>7. SegmentInv'
  <2>1. ready' \in Seq(Fresh)  BY EmptySeq
  <2> QED  BY <1>1, <1>2, <1>5, <2>1, SegmentKept
<1>8. AccountInv'
  <2>1. PICK o, r, a, i, d, l \in Nat :
          /\ o = Len(out) /\ r = Len(ready) /\ a = Len(active) /\ i = Len(input)
          /\ d = dropped /\ l = lost /\ arrived = o + r + a + i + d + l
    BY Numbered
  <2>2. Len(H) \in Nat /\ Len(W) \in Nat  BY <1>3, LenProperties
  <2>3. PICK h, w \in Nat : h = Len(H) /\ w = Len(W) /\ h + w = r + a
    BY <2>1, <2>2
  <2>4. o + r + a + i + d + l = (o + h) + 0 + w + i + d + l + 0
    BY ONLY <2>3, o \in Nat, r \in Nat, a \in Nat, i \in Nat, d \in Nat, l \in Nat,
            h \in Nat, w \in Nat
  <2>5. Len(ready') = 0  BY EmptySeq
  <2> QED  BY <1>1, <1>4, <2>1, <2>3, <2>4, <2>5 DEF AccountInv
<1>9. SegInv'  BY <1>5, <1>6, <1>7, <1>8 DEF SegInv
<1>10. Packet' = Packet  BY DEF Packet
<1>11. Held' = Joined(Joined(<<>>, W), input) /\ Held' \in Seq(Packet)
  BY <1>1, <1>9, <1>10, HeldIsNext DEF HeldOK, Segment
<1>12. Joined(H, Held') = Held
  <2>1. Held' = Joined(W, input)  BY <1>11, JoinedIs
  <2>2. Joined(H, Joined(W, input)) = Joined(Joined(H, W), input)
    BY <1>2, <1>3, JoinedAssociative
  <2> QED  BY <2>1, <2>2
<1>13. Sent' = Sent
  <2>1. Sending(out, Joined(H, Held')) = Sending(out, H) \o Numbers(Held')
    BY <1>2, <1>3, <1>11, PacketNumbers, Leaving, Zenon
  <2> QED  BY <1>12, <2>1 DEF Sent, Sending
<1>14. \E x \in Seq(Nat) : out' = out \o x
  <2>1. Numbers(H) \in Seq(Nat)  BY <1>3, PacketNumbers, NumbersOf
  <2> WITNESS Numbers(H) \in Seq(Nat)
  <2> QED  OBVIOUS
<1> QED  BY <1>2, <1>9, <1>13, <1>14, SameSent

\* The end of a reset, with the packet at hand if there is one; the last flush of
\* stop() lets H go before it.
LEMMA EmptiedStep ==
  ASSUME SegInv, OrderInv, CallInv', NEW p \in {0, 1}, arrived' = arrived + p,
         arrived' <= MaxPackets, resetting' # "worker",
         task' = "none", active' = <<>>, input' = <<>>, inputFrames' = 0, ready' = <<>>,
         format' = NoFormat, tail' = TailCleared, resetAt' = arrived', dropped' = dropped,
         NEW H \in Seq(Fresh), out' = out \o Numbers(H),
         NEW rest \in Seq(Packet), Held = Joined(H, rest),
         lost' \in Nat,
         arrived' = Len(out) + Len(H) + dropped + lost'
  PROVE  StepOK
<1>1. /\ arrived \in Nat /\ arrived <= arrived' /\ out \in Seq(Nat)
      /\ Held \in Seq(Packet) /\ Sent \in Seq(Nat)
  <2>1. /\ arrived \in Nat /\ out \in Seq(Nat) /\ Held \in Seq(Packet)
        /\ Sent \in Seq(Nat)
    BY HeldIs DEF HeldOK
  <2>2. arrived <= arrived + p  BY ONLY <2>1, p \in {0, 1}
  <2> QED  BY <2>1, <2>2
<1>2. H \in Seq(Packet)
  <2>1. Fresh \subseteq Packet  BY FreshPackets
  <2> QED  BY <2>1, SeqMonotonic
<1>3. out' \in Seq(1..MaxPackets) /\ Len(out') = Len(out) + Len(H)
  BY NumbersReleased DEF SegInv
<1>4. arrived' \in 0..MaxPackets /\ resetAt' \in 0..arrived'
  BY <1>1, MdxAssumption DEF SegInv, StreamInv
<1>5. StreamInv'  BY <1>3, <1>4 DEF SegInv, StreamInv
<1>6. TailInv'
  <2>1. tail' = NoTail /\ NoTail' = NoTail  BY DEF TailCleared, NoTail
  <2>2. NoTail \in [last : Nat, frames : Nat]  BY DEF NoTail
  <2> QED  BY <2>1, <2>2 DEF TailInv
<1>7. SegmentInv'
  BY EmptySeq, SumEmpty DEF SegmentInv
<1>8. AccountInv'
  <2>1. PICK o, h, d, l \in Nat : o = Len(out) /\ h = Len(H) /\ d = dropped /\ l = lost'
    BY <1>2, Lengths, LenProperties
  <2>2. o + h + d + l = (o + h) + 0 + 0 + 0 + d + l + 0
    BY ONLY o \in Nat, h \in Nat, d \in Nat, l \in Nat
  <2>3. Len(ready') = 0 /\ Len(active') = 0 /\ Len(input') = 0  BY EmptySeq
  <2> QED  BY <1>3, <2>1, <2>2, <2>3 DEF AccountInv
<1>9. SegInv'  BY <1>5, <1>6, <1>7, <1>8 DEF SegInv
<1>10. Sent' = Sending(out', <<>>)
  <2>1. Joined(Joined(<<>>, <<>>), <<>>) = <<>>
    <3>1. <<>> \in Seq(Packet)  BY EmptySeq
    <3> QED  BY <3>1, JoinedIs
  <2>2. Held' = <<>>  BY <1>9, <2>1, HeldIsNext DEF HeldOK, Segment
  <2> QED  BY <2>2 DEF Sent
<1>11. Sent = Sending(out', rest)
  <2>1. Sending(out, Joined(H, rest)) = Sending(out, H) \o Numbers(rest)
    BY <1>1, <1>2, PacketNumbers, Leaving, Zenon
  <2> QED  BY <2>1 DEF Sent, Sending
<1>12. Numbers(H) \in Seq(Nat)  BY <1>2, PacketNumbers, NumbersOf
<1>13. out' \in Seq(Nat)  BY <1>1, <1>12, ConcatProperties
<1>14. Follows(Sent, arrived, Sending(out', rest), arrived')
  BY <1>1, <1>11, FollowsKept DEF OrderInv
<1>15. Follows(Sent, arrived, Sending(out', <<>>), arrived')
  BY <1>13, <1>14, PacketNumbers, AllLost
<1>16. \E x \in Seq(Nat) : out' = out \o x
  <2>1. Numbers(H) \in Seq(Nat)  BY <1>12
  <2> WITNESS Numbers(H) \in Seq(Nat)
  <2> QED  OBVIOUS
<1> QED  BY <1>1, <1>9, <1>10, <1>15, <1>16 DEF StepOK

LEMMA ClearedStep ==
  ASSUME SegInv, OrderInv, CallInv', NEW p \in {0, 1}, arrived' = arrived + p,
         arrived' <= MaxPackets, resetting' # "worker",
         NEW g \in {0, 1}, Cleared(g), g = IF resetting = "worker" THEN 1 ELSE p,
         resetting = "worker" => p = 0
  PROVE  StepOK
<1>1. /\ task' = "none" /\ active' = <<>> /\ input' = <<>> /\ inputFrames' = 0
      /\ ready' = <<>> /\ format' = NoFormat /\ tail' = TailCleared
      /\ resetAt' = arrived' /\ dropped' = dropped /\ out' = out
      /\ lost' = lost + g + Len(ready) + Len(active) + Len(input)
  BY DEF Cleared
<1>2. PICK H : H = <<>>  OBVIOUS
<1>3. H \in Seq(Fresh) /\ Numbers(H) = <<>> /\ Len(H) = 0
  BY <1>2, EmptySeq, NumbersEmpty
<1>4. Held \in Seq(Packet) /\ Held = Joined(H, Held) /\ out \in Seq(Nat)
  BY <1>2, HeldIs, JoinedIs DEF HeldOK
<1>5. out' = out \o Numbers(H)  BY <1>1, <1>3, <1>4, ConcatEmptySeq
<1>6. PICK o, r, a, i, d, l \in Nat :
        /\ o = Len(out) /\ r = Len(ready) /\ a = Len(active) /\ i = Len(input)
        /\ d = dropped /\ l = lost
        /\ resetting # "worker" => arrived = o + r + a + i + d + l
  BY Numbered
<1>7. lost' \in Nat /\ lost' = l + g + r + a + i
  BY <1>1, <1>6
<1>8. arrived' = o + 0 + d + (l + g + r + a + i)
  <2>1. CASE resetting = "worker"
    <3>1. g = 1 /\ p = 0  BY <2>1
    <3>2. arrived = o + r + a + i + d + l + 1  BY <1>6, <2>1 DEF SegInv, AccountInv
    <3>3. o + r + a + i + d + l + 1 + 0 = o + 0 + d + (l + 1 + r + a + i)
      BY ONLY o \in Nat, r \in Nat, a \in Nat, i \in Nat, d \in Nat, l \in Nat
    <3> QED  BY <3>1, <3>2, <3>3
  <2>2. CASE resetting # "worker"
    <3>1. g = p /\ arrived = o + r + a + i + d + l  BY <1>6, <2>2
    <3>2. o + r + a + i + d + l + p = o + 0 + d + (l + p + r + a + i)
      BY ONLY o \in Nat, r \in Nat, a \in Nat, i \in Nat, d \in Nat, l \in Nat, p \in {0, 1}
    <3> QED  BY <3>1, <3>2
  <2> QED  BY <2>1, <2>2
<1>9. arrived' = Len(out) + Len(H) + dropped + lost'
  BY <1>3, <1>6, <1>7, <1>8
<1> QED  BY <1>1, <1>3, <1>4, <1>5, <1>7, <1>9, EmptiedStep

-----------------------------------------------------------------------------
(* The theorems.                                                           *)

LEMMA InitOK == Init => SegInv /\ OrderInv /\ Sent = <<>> /\ Numbers(Held) = <<>>
<1> SUFFICES ASSUME Init PROVE SegInv /\ OrderInv /\ Sent = <<>> /\ Numbers(Held) = <<>>
  OBVIOUS
<1>1. /\ arrived = 0 /\ input = <<>> /\ inputFrames = 0 /\ active = <<>> /\ ready = <<>>
      /\ task = "none" /\ orphans = 0 /\ format = NoFormat /\ tail = NoTail
      /\ dropped = 0 /\ lost = 0 /\ resetting = "nobody" /\ resets = 0 /\ resetAt = 0
      /\ worker = "looping" /\ shutdown = "no" /\ out = <<>>
  BY DEF Init
<1>2. 0 \in 0..MaxPackets /\ 0 \in 0..MaxResets /\ 0 \in 0..0 /\ 0 \in Nat
  BY MdxAssumption
<1>3. CallInv  BY <1>1, <1>2 DEF CallInv
<1>4. StreamInv  BY <1>1, <1>2, EmptySeq DEF StreamInv
<1>5. SegmentInv  BY <1>1, EmptySeq, SumEmpty DEF SegmentInv
<1>6. TailInv  BY <1>1 DEF TailInv, NoTail
<1>7. AccountInv
  <2>1. Len(out) = 0 /\ Len(ready) = 0 /\ Len(active) = 0 /\ Len(input) = 0
    BY <1>1, EmptySeq
  <2> QED  BY <1>1, <2>1 DEF AccountInv
<1>8. SegInv  BY <1>3, <1>4, <1>5, <1>6, <1>7 DEF SegInv
<1>9. Held = <<>>
  <2>1. Joined(Joined(<<>>, <<>>), <<>>) = <<>>
    <3>1. <<>> \in Seq(Packet)  BY EmptySeq
    <3> QED  BY <3>1, JoinedIs
  <2> QED  BY <1>1, <1>8, <2>1, HeldIs DEF HeldOK, Segment
<1>10. Sent = <<>>
  <2>1. <<>> \o <<>> = <<>>  BY ConcatEmptySeq, EmptySeq
  <2> QED  BY <1>1, <1>9, <2>1, NumbersEmpty DEF Sent, Sending
<1>11. OrderInv  BY <1>10 DEF OrderInv, InOrder
<1> QED  BY <1>8, <1>9, <1>10, <1>11, NumbersEmpty

LEMMA FormatChangeStep ==
  ASSUME SegInv, OrderInv, CallInv', NEW f \in Formats, ProcessFormatChange(f)
  PROVE  StepOK
<1>1. arrived \in Nat /\ arrived' = arrived + 1 /\ arrived' <= MaxPackets
      /\ resetting = "nobody"
  BY Lengths, MdxAssumption DEF ProcessFormatChange, Arrives
<1>2. CASE CancelsInference("worker")
  <2>1. /\ ~Idle /\ task' = "cancelled" /\ resetting' = "worker"
        /\ UNCHANGED <<input, inputFrames, active, ready, tail, format, dropped, lost,
                       resetAt, out>>
    BY <1>2 DEF CancelsInference, outputVars, streamVars
  <2>2. ~Failing  BY <2>1 DEF Failing, Idle
  <2> QED  BY <1>1, <2>1, <2>2, SegmentStep
<1>3. CASE Cleared(1) /\ UNCHANGED resetting
  BY <1>1, <1>3, ClearedStep
<1> QED  BY <1>2, <1>3 DEF ProcessFormatChange

LEMMA ResetStep ==
  ASSUME SegInv, OrderInv, CallInv', Reset
  PROVE  StepOK
<1>1. /\ arrived' = arrived /\ arrived' = arrived + 0 /\ arrived' <= MaxPackets
      /\ resetting = "nobody"
  BY Lengths, MdxAssumption DEF Reset, SegInv, StreamInv
<1>2. CASE CancelsInference("request")
  <2>1. /\ ~Idle /\ task' = "cancelled" /\ resetting' = "request"
        /\ UNCHANGED <<input, inputFrames, active, ready, tail, format, dropped, lost,
                       resetAt, out>>
    BY <1>2 DEF CancelsInference, outputVars, streamVars
  <2>2. ~Failing  BY <2>1 DEF Failing, Idle
  <2> QED  BY <1>1, <2>1, <2>2, SegmentStep
<1>3. CASE Cleared(0) /\ UNCHANGED resetting
  BY <1>1, <1>3, ClearedStep
<1> QED  BY <1>2, <1>3 DEF Reset

LEMMA ResetEndsStep ==
  ASSUME SegInv, OrderInv, CallInv', ResetEnds
  PROVE  StepOK
<1>1. /\ arrived' = arrived /\ arrived' = arrived + 0 /\ arrived' <= MaxPackets
      /\ resetting' = "nobody"
  BY Lengths, MdxAssumption DEF ResetEnds, SegInv, StreamInv
<1>2. PICK g \in {0, 1} : g = IF resetting = "worker" THEN 1 ELSE 0  OBVIOUS
<1>3. Cleared(g)  BY <1>2 DEF ResetEnds
<1> QED  BY <1>1, <1>2, <1>3, ClearedStep

LEMMA FlushStep ==
  ASSUME SegInv, OrderInv, CallInv', Flush
  PROVE  StepOK
<1>1. /\ resetting = "nobody" /\ resetting' = "nobody" /\ ~Failing /\ Harvested
      /\ active' = Waiting /\ task' = IF Idle THEN "none" ELSE task
      /\ ready' = <<>> /\ out' = out \o Numbers(HarvestedReady)
      /\ UNCHANGED <<arrived, input, inputFrames, format, dropped, lost, resetAt>>
  BY DEF Flush, Harvested, NoLaunch, Waiting, resetVars, streamVars
<1>2. task # "cancelled"  BY <1>1 DEF SegInv, CallInv
<1>3. ~Failing' /\ Waiting \in {active, <<>>} /\ (task' = "none" => active' = <<>>)
  BY <1>1 DEF Failing, Idle, Waiting
<1> QED  BY <1>1, <1>2, <1>3, HarvestKeeps, FlushedStep

LEMMA StopStep ==
  ASSUME SegInv, OrderInv, CallInv', StopProcessor
  PROVE  StepOK
<1>1. /\ arrived' = arrived /\ arrived' = arrived + 0 /\ arrived' <= MaxPackets
      /\ resetting = "nobody" /\ task # "cancelled"
  BY Lengths, MdxAssumption DEF StopProcessor, SegInv, StreamInv, CallInv
<1>2. CASE Failing
  <2>1. HarvestFailed /\ lost' = lost + Len(active)
    BY <1>2 DEF StopProcessor, HarvestFailed, outputVars, resetVars, Failing, Idle
  <2>2. lost' = lost + 0 + Len(active)  BY <2>1, Lengths
  <2> QED  BY <1>1, <2>1, <2>2, HarvestFailsStep
<1>3. CASE ~Failing /\ Idle
  <2>1. /\ task' = "none" /\ active' = <<>> /\ input' = <<>> /\ inputFrames' = 0
        /\ ready' = <<>> /\ tail' = TailCleared /\ format' = NoFormat
        /\ out' = out \o Numbers(HarvestedReady) /\ lost' = lost + Len(input)
        /\ resetAt' = arrived' /\ dropped' = dropped /\ resetting' # "worker"
    BY <1>1, <1>3 DEF StopProcessor
  <2>2. /\ HarvestedReady \in Seq(Fresh) /\ HarvestedReady \in Seq(Packet)
        /\ Waiting = <<>> /\ Held = Joined(Joined(HarvestedReady, <<>>), input)
        /\ Len(HarvestedReady) \in Nat /\ Len(Waiting) = 0
        /\ Len(HarvestedReady) + 0 = Len(ready) + Len(active)
    BY <1>1, <1>3, HarvestKeeps, EmptySeq DEF Waiting
  <2>3. input \in Seq(Packet) /\ Held = Joined(HarvestedReady, input)
    BY <2>2, HeldIs, JoinedIs DEF HeldOK
  <2>4. PICK o, r, a, i, d, l \in Nat :
          /\ o = Len(out) /\ r = Len(ready) /\ a = Len(active) /\ i = Len(input)
          /\ d = dropped /\ l = lost /\ arrived = o + r + a + i + d + l
    BY <1>1, Numbered
  <2>5. PICK h \in Nat : h = Len(HarvestedReady) /\ h + 0 = r + a  BY <2>2, <2>4
  <2>6. o + r + a + i + d + l = o + h + d + (l + i) /\ l + i \in Nat
    BY ONLY <2>5, o \in Nat, r \in Nat, a \in Nat, i \in Nat, d \in Nat, l \in Nat, h \in Nat
  <2>7. lost' \in Nat /\ arrived' = Len(out) + Len(HarvestedReady) + dropped + lost'
    BY <1>1, <2>1, <2>4, <2>5, <2>6
  <2> QED  BY <1>1, <2>1, <2>2, <2>3, <2>7, EmptiedStep
<1>4. CASE ~Idle
  <2>1. /\ task' = "cancelled" /\ resetting' = "stop" /\ active' = active /\ tail' = tail
        /\ ready' = <<>> /\ out' = out \o Numbers(ready)
        /\ UNCHANGED <<arrived, input, inputFrames, format, dropped, lost, resetAt>>
    BY <1>4 DEF StopProcessor, streamVars, Failing, Idle
  <2>2. ~Failing /\ ~Failing' /\ HarvestedReady = ready /\ Waiting = active
    BY <1>4, <2>1 DEF Failing, Idle, HarvestedReady, Waiting
  <2> QED  BY <1>1, <2>1, <2>2, HarvestKeeps, FlushedStep
<1> QED  BY <1>2, <1>3, <1>4

LEMMA StepsOK ==
  ASSUME SegInv, OrderInv, [Next]_vars
  PROVE  StepOK
<1>1. CallInv'  BY CallStep DEF SegInv
<1>2. arrived \in Nat /\ arrived <= MaxPackets
  BY Lengths, MdxAssumption DEF SegInv, StreamInv
<1>3. ASSUME NEW f \in Formats, NEW n \in FrameCounts, Process(f, n) PROVE StepOK
  BY <1>1, <1>3, ProcessStep
<1>4. ASSUME NEW f \in Formats, ProcessFormatChange(f) PROVE StepOK
  BY <1>1, <1>4, FormatChangeStep
<1>5. CASE ProcessUndecodable  BY <1>1, <1>5, UndecodableStep
<1>6. CASE ProcessFails
  <2>1. /\ HarvestFailed /\ arrived' = arrived + 1 /\ arrived' <= MaxPackets
        /\ lost' = lost + 1 + Len(active)
    BY <1>2, <1>6, MdxAssumption
    DEF ProcessFails, Arrives, HarvestFails, HarvestFailed, outputVars, resetVars
  <2> QED  BY <1>1, <2>1, HarvestFailsStep
<1>7. CASE Reset  BY <1>1, <1>7, ResetStep
<1>8. CASE ResetEnds  BY <1>1, <1>8, ResetEndsStep
<1>9. CASE Flush  BY <1>1, <1>9, FlushStep
<1>10. CASE FlushFails
  <2>1. /\ HarvestFailed /\ arrived' = arrived + 0 /\ arrived' <= MaxPackets
        /\ lost' = lost + Len(active)
    BY <1>2, <1>10 DEF FlushFails, HarvestFails, HarvestFailed, outputVars, resetVars
  <2>2. lost' = lost + 0 + Len(active)  BY <2>1, Lengths
  <2> QED  BY <1>1, <2>1, <2>2, HarvestFailsStep
<1>11. CASE \/ InferenceBegins \/ InferenceEnds \/ OrphanEnds \/ StopBegins
            \/ UNCHANGED vars
  <2>1. UNCHANGED <<arrived, input, inputFrames, active, ready, tail, format, dropped, lost,
                    resetAt, out, resetting>>
    BY <1>11 DEF InferenceBegins, InferenceEnds, OrphanEnds, StopBegins, vars,
       segmentVars, outputVars, streamVars, resetVars, callerVars
  <2>2. task' = "none" => task = "none"
    BY <1>11 DEF InferenceBegins, InferenceEnds, OrphanEnds, StopBegins, vars,
       segmentVars
  <2>3. Failing => Failing'
    BY <1>11 DEF InferenceBegins, InferenceEnds, OrphanEnds, StopBegins, vars,
       segmentVars, Failing
  <2>4. arrived' = arrived + 0 /\ arrived' <= MaxPackets  BY <1>2, <2>1
  <2> QED  BY <1>1, <2>1, <2>2, <2>3, <2>4, SegmentStep
<1>12. CASE StopProcessor  BY <1>1, <1>12, StopStep
<1> QED
  BY <1>3, <1>4, <1>5, <1>6, <1>7, <1>8, <1>9, <1>10, <1>11, <1>12 DEF Next

LEMMA Invariant == Spec => [](SegInv /\ OrderInv)
<1>1. SegInv /\ OrderInv /\ [Next]_vars => (SegInv /\ OrderInv)'
  BY StepsOK DEF StepOK, Follows, OrderInv
<1> QED  BY <1>1, InitOK, PTL DEF Spec

\* The type invariant.
THEOREM TypeCorrect == Spec => []TypeOK
<1>1. SegInv => TypeOK
  <2> SUFFICES ASSUME SegInv PROVE TypeOK  OBVIOUS
  <2>1. inputFrames \in Nat  BY FreshPackets, SumNat DEF SegInv, SegmentInv
  <2>2. tail \in [last : 0..arrived, frames : Nat]
    <3>1. CASE tail = NoTail
      <4>1. 0 \in 0..arrived  BY Lengths
      <4> QED  BY <3>1, <4>1 DEF NoTail
    <3>2. CASE tail # NoTail
      <4>1. tail \in [last : Nat, frames : Nat] /\ tail.last \in (resetAt + 1)..arrived
        BY <3>2 DEF SegInv, TailInv
      <4>2. tail.last \in 0..arrived
        BY <4>1, Lengths, MdxAssumption DEF SegInv, StreamInv
      <4> QED  BY <4>1, <4>2
    <3> QED  BY <3>1, <3>2
  <2>3. dropped \in 0..arrived /\ lost \in 0..arrived
    <3>1. PICK o, r, a, i, d, l \in Nat :
            /\ o = Len(out) /\ r = Len(ready) /\ a = Len(active) /\ i = Len(input)
            /\ d = dropped /\ l = lost
      BY Numbered
    <3>2. PICK w \in {0, 1} : w = IF resetting = "worker" THEN 1 ELSE 0  OBVIOUS
    <3>3. arrived = o + r + a + i + d + l + w
      BY <3>1, <3>2 DEF SegInv, AccountInv
    <3>4. d \in 0..arrived /\ l \in 0..arrived
      BY ONLY <3>3, o \in Nat, r \in Nat, a \in Nat, i \in Nat, d \in Nat, l \in Nat,
              w \in {0, 1}
    <3> QED  BY <3>1, <3>4
  <2> QED
    BY <2>1, <2>2, <2>3, HeldIs DEF HeldOK, TypeOK, SegInv, CallInv, StreamInv
<1> QED  BY <1>1, Invariant, PTL

\* However slow the inference, the buffer stays within its segments, and the counter
\* that four methods keep by hand is its length.
THEOREM BoundCorrect == Spec => []InputBounded
<1>1. SegInv => InputBounded  BY DEF SegInv, SegmentInv, InputBounded
<1> QED  BY <1>1, Invariant, PTL

\* No segment mixes packets of two formats, whatever was refused or reset before.
THEOREM FormatCorrect == Spec => []OneFormat
<1>1. SegInv => OneFormat
  <2> SUFFICES ASSUME SegInv, NEW q \in {input, active}, NEW k \in 1..Len(q)
               PROVE  q[k].format = format
    BY DEF OneFormat
  <2>1. q \in Seq(OfStream)  BY DEF SegInv, SegmentInv
  <2>2. q[k] \in OfStream  BY <2>1, ElementOfSeq
  <2> QED  BY <2>2 DEF OfStream
<1> QED  BY <1>1, Invariant, PTL

\* What a reset or a change of format discards does not come back, neither from the
\* inference that was running nor in the crossfade.
THEOREM ResetIsFinal == Spec => []NothingStale
<1>1. SegInv => NothingStale
  <2> SUFFICES ASSUME SegInv PROVE NothingStale  OBVIOUS
  <2>1. resetAt \in Nat /\ arrived \in Nat  BY HeldIs DEF HeldOK
  <2>2. ASSUME NEW k \in 1..Len(Held) PROVE Held[k].number > resetAt
    <3>1. active \in Seq(Fresh) /\ input \in Seq(Fresh) /\ <<>> \in Seq(Fresh)
      BY FreshPackets, SeqMonotonic, EmptySeq DEF SegInv, SegmentInv
    <3>2. Segment \in Seq(Fresh)  BY <3>1 DEF Segment
    <3>3. Joined(ready, Segment) \in Seq(Fresh)
      BY <3>2, JoinedIs DEF SegInv, SegmentInv
    <3>4. Held \in Seq(Fresh)  BY <3>1, <3>3, JoinedIs, HeldIs DEF HeldOK
    <3>5. Held[k] \in Fresh  BY <3>4, ElementOfSeq
    <3>6. Held[k].number \in (resetAt + 1)..arrived  BY <3>5 DEF Fresh
    <3> QED  BY <2>1, <3>6
  <2>3. tail # NoTail => tail.last > resetAt  BY <2>1 DEF SegInv, TailInv
  <2> QED  BY <2>2, <2>3 DEF NothingStale
<1> QED  BY <1>1, Invariant, PTL

\* No packet disappears without being counted: what did not leave and is not held was
\* dropped at the bound, refused, reset, or of a segment that failed.
THEOREM AccountCorrect == Spec => []PacketsAccounted
<1>1. SegInv => PacketsAccounted  BY Counted DEF PacketsAccounted
<1> QED  BY <1>1, Invariant, PTL

-----------------------------------------------------------------------------
(* How many packets the processor holds, in units of the frames n of the   *)
(* shortest.  A call that finds an output takes one packet and gives one,  *)
(* so the number grows only while there is no output: then all there is is *)
(* a segment and the bounded buffer.                                       *)

Shortest(n) == n \in FrameCounts /\ \A m \in FrameCounts : n <= m

Total == Len(ready) + Len(active) + Len(input)

HoldInv(n) ==
  /\ format = NoFormat => ready = <<>> /\ active = <<>>
  /\ format # NoFormat => /\ Len(active) * n < Target(format) + n
                          /\ Total * n < Maximum(format) + Target(format) + n

LEMMA ShortestNat ==
  ASSUME NEW n, Shortest(n)
  PROVE  /\ n \in Nat /\ 0 < n
         /\ \A p \in Packet : p.frames \in Nat /\ n <= p.frames
<1>1. n \in Nat \ {0} /\ \A m \in FrameCounts : m \in Nat /\ n <= m
  BY MdxAssumption DEF Shortest
<1>2. \A p \in Packet : p.frames \in FrameCounts  BY DEF Packet
<1> QED  BY <1>1, <1>2

LEMMA TotalNat == SegInv => Total \in Nat
BY Lengths DEF Total

LEMMA TotalNatNext == SegInv' => (Total \in Nat)'
BY TotalNat, PTL

\* A step within one format that adds no packet, neither to the segment nor to all.
LEMMA HoldsNoMore ==
  ASSUME SegInv, SegInv', NEW n, Shortest(n), HoldInv(n), format' = format,
         format = NoFormat => ready' = <<>> /\ active' = <<>>,
         Len(active') <= Len(active), Total' <= Total
  PROVE  HoldInv(n)'
<1>1. CASE format = NoFormat  BY <1>1 DEF HoldInv
<1>2. CASE format # NoFormat
  <2>1. format \in Formats  BY <1>2 DEF SegInv, StreamInv
  <2>2. PICK t, m \in Nat : t = Target(format) /\ m = Maximum(format)  BY <2>1, SizesNat
  <2>3. /\ Len(active) \in Nat /\ Len(active') \in Nat /\ Total \in Nat /\ Total' \in Nat
    BY HeldIs, HeldIsNext, LenProperties, TotalNat, TotalNatNext DEF HeldOK
  <2>4. n \in Nat /\ t + n \in Nat /\ m + t + n \in Nat  BY ShortestNat
  <2>5. Len(active) * n < t + n /\ Total * n < m + t + n  BY <1>2, <2>2 DEF HoldInv
  <2>6. Len(active') * n < t + n  BY <2>3, <2>4, <2>5, StaysBelow
  <2>7. Total' * n < m + t + n  BY <2>3, <2>4, <2>5, StaysBelow
  <2>8. Target(format)' = t /\ Maximum(format)' = m  BY <2>2 DEF Target, Maximum
  <2> QED  BY <1>2, <2>6, <2>7, <2>8 DEF HoldInv
<1> QED  BY <1>1, <1>2

\* A segment that takes no packet beyond the target.
LEMMA SegmentSmall ==
  ASSUME NEW n, Shortest(n), NEW t \in Nat, NEW q \in Seq(Packet), Minimal(q, t)
  PROVE  Len(q) * n < t + n
<1>1. Len(q) \in Nat  BY LenProperties
<1>2. n \in Nat /\ 0 < n /\ \A p \in Packet : p.frames \in Nat /\ n <= p.frames
  BY ShortestNat
<1>3. CASE Len(q) = 0
  <2>1. 0 * n = 0 /\ 0 < t + n  BY <1>2
  <2> QED  BY <1>3, <2>1
<1>4. CASE Len(q) # 0
  <2>1. PICK l \in Nat : Len(q) = l + 1 /\ l \in 0..(Len(q) - 1) /\ l \in 0..Len(q)
    <3> WITNESS Len(q) - 1 \in Nat
    <3> QED  BY <1>1, <1>4
  <2>2. SubSeq(q, 1, l) \in Seq(Packet) /\ Len(SubSeq(q, 1, l)) = l  BY <2>1, Cut
  <2>3. l * n <= FramesOf(SubSeq(q, 1, l))  BY <1>2, <2>2, FewPackets
  <2>4. FramesOf(SubSeq(q, 1, l)) \in Nat  BY <1>2, <2>2, SumNat
  <2>5. FramesOf(SubSeq(q, 1, l)) < t  BY <2>1 DEF Minimal
  <2>6. PICK x, y \in Nat : /\ x = l * n /\ y = FramesOf(SubSeq(q, 1, l))
                            /\ (l + 1) * n = x + n
    BY <1>2, <2>4
  <2>7. x + n < t + n  BY ONLY <1>2, <2>3, <2>5, <2>6, t \in Nat
  <2> QED  BY <2>1, <2>6, <2>7
<1> QED  BY <1>3, <1>4

LEMMA HoldsProcess ==
  ASSUME SegInv, SegInv', NEW n, Shortest(n), HoldInv(n),
         NEW f \in Formats, NEW c \in FrameCounts, Process(f, c)
  PROVE  HoldInv(n)'
<1>1. PICK p : p = [number |-> arrived', frames |-> c, format |-> f]  OBVIOUS
<1>2. PICK H : H = HarvestedReady  OBVIOUS
<1>3. PICK W : W = Waiting  OBVIOUS
<1>4. /\ resetting = "nobody" /\ ~Failing /\ format \in {NoFormat, f} /\ format' = f
      /\ Buffered(p) /\ ready' = Rest(H) /\ arrived' = arrived + 1 /\ arrived < MaxPackets
  BY <1>1, <1>2 DEF Process, Arrives, Harvested, Compatible, Remaining
<1>5. task # "cancelled"  BY <1>4 DEF SegInv, CallInv
<1>6. input \in Seq(Packet) /\ active \in Seq(Packet) /\ arrived \in Nat
  BY HeldIs DEF HeldOK
<1>7. /\ H \in Seq(Packet) /\ W \in Seq(Packet)
      /\ Len(H) + Len(W) = Len(ready) + Len(active) /\ Len(H) \in Nat /\ Len(W) \in Nat
  BY <1>2, <1>3, <1>4, <1>5, HarvestKeeps
<1>8. p \in Packet /\ p.format = f
  <2>1. arrived' \in 1..MaxPackets  BY <1>4, <1>6, MdxAssumption
  <2> QED  BY <1>1, <2>1 DEF Packet
<1>9. PICK d, k \in Seq(Packet) :
        BufferedOK(d, k, p) /\ active' \in Seq(Packet) /\ input' \in Seq(Packet)
  BY <1>4, <1>5, <1>6, <1>8, PacketFields, BufferedKeeps
<1>10. /\ Len(k) \in Nat /\ Len(d) \in Nat /\ Len(input) \in Nat /\ Len(active') \in Nat
       /\ Len(input') \in Nat /\ Len(Rest(H)) \in Nat
  BY <1>6, <1>7, <1>9, FirstAndRest, LenProperties
<1>11. Len(d) + Len(k) = Len(input) + 1 /\ Len(active') + Len(input') = Len(W) + Len(k)
  <2>1. /\ Len(Joined(d, k)) = Len(d) + Len(k)
        /\ Len(Joined(active', input')) = Len(active') + Len(input')
        /\ Len(Joined(W, k)) = Len(W) + Len(k)
    BY <1>7, <1>9, JoinedIs
  <2>2. Len(Append(input, p)) = Len(input) + 1  BY <1>6, <1>8, AppendProperties
  <2> QED  BY <1>3, <1>9, <2>1, <2>2 DEF BufferedOK
<1>12. PICK t, m \in Nat : t = Target(f) /\ m = Maximum(f)  BY SizesNat
<1>13. Target(format)' = t /\ Maximum(format)' = m  BY <1>4, <1>12 DEF Target, Maximum
<1>14. n \in Nat /\ 0 < n /\ \A x \in Packet : x.frames \in Nat /\ n <= x.frames
  BY ShortestNat
<1>15. f # NoFormat  BY MdxAssumption
<1>16. Len(W) * n < t + n
  <2>1. CASE W = <<>>
    <3>1. Len(W) = 0 /\ 0 * n = 0 /\ 0 < t + n  BY <1>14, <2>1, EmptySeq
    <3> QED  BY <3>1
  <2>2. CASE W # <<>>
    <3>1. W = active  BY <1>3, <2>2 DEF Waiting
    <3>2. format = f  BY <1>4, <2>2, <3>1 DEF HoldInv
    <3> QED  BY <1>12, <1>15, <3>1, <3>2 DEF HoldInv
  <2> QED  BY <2>1, <2>2
<1>17. Len(active') * n < t + n
  <2>1. active' = W \/ Minimal(active', t)
    BY <1>3, <1>8, <1>9, <1>12 DEF BufferedOK
  <2> QED  BY <1>9, <1>16, <2>1, SegmentSmall
<1>18. Total' * n < m + t + n
  <2>1. CASE H = <<>>
    <3>1. Total' = Len(W) + Len(k)
      <4>1. Len(Rest(H)) = 0  BY <1>7, <2>1, RestLength
      <4> QED  BY <1>4, <1>7, <1>10, <1>11, <4>1 DEF Total
    <3>2. Len(k) * n <= FramesOf(k) /\ FramesOf(k) <= m /\ FramesOf(k) \in Nat
      BY <1>8, <1>9, <1>12, <1>14, FewPackets, SumNat DEF BufferedOK
    <3>3. PICK x \in Nat : x = Len(W) * n  BY <1>7, <1>14, Times
    <3>4. PICK y \in Nat : y = Len(k) * n  BY <1>10, <1>14, Times
    <3>5. y <= m
      <4>1. PICK z \in Nat : z = FramesOf(k)  BY <3>2
      <4> QED  BY <3>2, <3>4, <4>1
    <3>6. x < t + n  BY <1>16, <3>3
    <3>7. x + y < m + t + n
      BY ONLY <1>14, <3>5, <3>6, x \in Nat, y \in Nat, t \in Nat, m \in Nat
    <3>8. Total' * n = x + y  BY <1>7, <1>10, <1>14, <3>1, <3>3, <3>4, Times
    <3> QED  BY <3>7, <3>8
  <2>2. CASE H # <<>>
    <3>1. Len(H) # 0  BY <1>7, <2>2, EmptySeq
    <3>2. Total' <= Total
      <4>1. Len(ready') = Len(H) - 1  BY <1>4, <1>7, <2>2, RestLength
      <4>2. PICK h, w, k1, d1, a, i, r, a1, i1 \in Nat :
              /\ h = Len(H) /\ w = Len(W) /\ k1 = Len(k) /\ d1 = Len(d)
              /\ a = Len(active) /\ i = Len(input) /\ r = Len(ready)
              /\ a1 = Len(active') /\ i1 = Len(input')
        BY <1>7, <1>10, Lengths
      <4>3. h + w = r + a /\ d1 + k1 = i + 1 /\ a1 + i1 = w + k1
        BY <1>7, <1>11, <4>2
      <4>4. (h - 1) + a1 + i1 <= r + a + i
        BY ONLY <4>3, h \in Nat, w \in Nat, k1 \in Nat, d1 \in Nat, a \in Nat, i \in Nat,
                r \in Nat, a1 \in Nat, i1 \in Nat
      <4> QED  BY <4>1, <4>2, <4>4 DEF Total
    <3>3. format = f
      <4>1. CASE format = NoFormat
        <5>1. Len(ready) = 0 /\ Len(active) = 0  BY <4>1, EmptySeq DEF HoldInv
        <5> QED  BY <1>7, <3>1, <5>1
      <4> QED  BY <1>4, <4>1
    <3>4. Total \in Nat /\ Total' \in Nat /\ m + t + n \in Nat
      BY <1>14, TotalNat, TotalNatNext
    <3>5. Total * n < m + t + n  BY <1>12, <1>15, <3>3 DEF HoldInv
    <3> QED  BY <1>14, <3>2, <3>4, <3>5, StaysBelow
  <2> QED  BY <2>1, <2>2
<1> QED  BY <1>4, <1>13, <1>15, <1>17, <1>18 DEF HoldInv

LEMMA HoldsStep ==
  ASSUME SegInv, SegInv', NEW n, Shortest(n), HoldInv(n), [Next]_vars
  PROVE  HoldInv(n)'
<1> USE DEF segmentVars, outputVars, streamVars, resetVars, callerVars
<1>1. ASSUME NEW f \in Formats, NEW c \in FrameCounts, Process(f, c) PROVE HoldInv(n)'
  BY <1>1, HoldsProcess
<1>2. ASSUME format' = NoFormat, ready' = <<>>, active' = <<>> PROVE HoldInv(n)'
  BY <1>2 DEF HoldInv
<1>3. ASSUME NEW g, Cleared(g) PROVE HoldInv(n)'
  BY <1>2, <1>3 DEF Cleared
<1>4. /\ Len(ready) \in Nat /\ Len(active) \in Nat /\ Len(input) \in Nat /\ Len(<<>>) = 0
  BY Lengths, EmptySeq
<1>5. ASSUME format' = format, input' = input, active' \in {active, <<>>},
             ready' \in {ready, <<>>}
      PROVE  HoldInv(n)'
  <2>1. Len(active') <= Len(active) /\ Total' <= Total  BY <1>4, <1>5 DEF Total
  <2>2. format = NoFormat => ready' = <<>> /\ active' = <<>>  BY <1>5 DEF HoldInv
  <2> QED  BY <1>5, <2>1, <2>2, HoldsNoMore
<1>6. ASSUME NEW c, CancelsInference(c) PROVE HoldInv(n)'
  BY <1>5, <1>6 DEF CancelsInference
<1>7. ASSUME NEW f \in Formats, ProcessFormatChange(f) PROVE HoldInv(n)'
  BY <1>3, <1>6, <1>7 DEF ProcessFormatChange
<1>8. CASE ProcessUndecodable
  <2>1. /\ ~Failing /\ resetting = "nobody" /\ format' = format /\ input' = input
        /\ ready' = HarvestedReady /\ active' = Waiting
    BY <1>8 DEF ProcessUndecodable, Arrives, Harvested, NoLaunch, Waiting
  <2>2. task # "cancelled"  BY <2>1 DEF SegInv, CallInv
  <2>3. /\ Len(HarvestedReady) + Len(Waiting) = Len(ready) + Len(active)
        /\ HarvestedReady \in Seq(Packet) /\ Waiting \in Seq(Packet)
        /\ Len(HarvestedReady) \in Nat /\ Len(Waiting) \in Nat
    BY <2>1, <2>2, HarvestKeeps
  <2>4. Len(active') <= Len(active)  BY <1>4, <2>1 DEF Waiting
  <2>5. Total' <= Total  BY <1>4, <2>1, <2>3 DEF Total
  <2>6. format = NoFormat => ready' = <<>> /\ active' = <<>>
    <3> HAVE format = NoFormat
    <3>1. Len(ready) = 0 /\ Len(active) = 0  BY <1>4 DEF HoldInv
    <3>2. Len(HarvestedReady) = 0 /\ Len(Waiting) = 0  BY <2>3, <3>1
    <3> QED  BY <2>1, <2>3, <3>2, EmptySeq
  <2> QED  BY <2>1, <2>4, <2>5, <2>6, HoldsNoMore
<1>9. CASE ProcessFails  BY <1>5, <1>9 DEF ProcessFails, HarvestFails
<1>10. CASE Reset  BY <1>3, <1>6, <1>10 DEF Reset
<1>11. CASE ResetEnds  BY <1>3, <1>11 DEF ResetEnds
<1>12. CASE Flush
  <2>1. active' \in {active, <<>>}  BY <1>12 DEF Flush, NoLaunch
  <2> QED  BY <1>5, <1>12, <2>1 DEF Flush
<1>13. CASE FlushFails  BY <1>5, <1>13 DEF FlushFails, HarvestFails
<1>14. CASE StopProcessor  BY <1>2, <1>5, <1>14 DEF StopProcessor
<1>15. CASE InferenceBegins \/ InferenceEnds \/ OrphanEnds \/ StopBegins \/ UNCHANGED vars
  BY <1>5, <1>15 DEF InferenceBegins, InferenceEnds, OrphanEnds, StopBegins, vars
<1> QED
  BY <1>1, <1>7, <1>8, <1>9, <1>10, <1>11, <1>12, <1>13, <1>14, <1>15 DEF Next

\* Though no line of the code bounds _ready_output, the packets the processor holds are
\* bounded, whatever the inference does and however the packets are cut: by what the
\* buffer and a segment have room for.
THEOREM MemoryBounded == Spec => []HeldBounded
<1> DEFINE Holds == \A n \in FrameCounts : Shortest(n) => HoldInv(n)
<1>1. Init => Holds  BY DEF Init, HoldInv
<1>2. SegInv /\ SegInv' /\ Holds /\ [Next]_vars => Holds'
  <2>1. \A n : Shortest(n) <=> Shortest(n)'  BY DEF Shortest
  <2> QED  BY <2>1, HoldsStep
<1>3. Holds => HeldBounded
  <2> SUFFICES ASSUME Holds, NEW n \in FrameCounts, \A m \in FrameCounts : n <= m,
                      format # NoFormat
               PROVE  (Len(ready) + Len(active) + Len(input)) * n
                         < Maximum(format) + Target(format) + n
    BY DEF HeldBounded
  <2>1. HoldInv(n)  BY DEF Shortest
  <2> QED  BY <2>1 DEF HoldInv, Total
<1> HIDE DEF Holds
<1> QED  BY <1>1, <1>2, <1>3, Invariant, PTL DEF Spec

\* Whatever is dropped, packets leave at most once and in order.
THEOREM ImplementsFifo == Spec => ImplementsLossyFifo
<1>1. Init => Fifo!Init
  BY InitOK DEF Init, Fifo!Init
<1>2. SegInv /\ OrderInv /\ [Next]_vars => [Fifo!Next]_(Fifo!fifoVars)
  <2> SUFFICES ASSUME SegInv, OrderInv, [Next]_vars PROVE Fifo!Next
    BY DEF Fifo!fifoVars
  <2>1. StepOK  BY StepsOK
  <2>2. arrived' \in Nat /\ out \in Seq(Nat)  BY <2>1, HeldIs, HeldIsNext DEF HeldOK, StepOK
  <2>3. Fifo!Extends(out, out')
    <3>1. PICK x \in Seq(Nat) : out' = out \o x  BY <2>1 DEF StepOK
    <3> QED  BY <2>2, <3>1, LeavesBehind DEF Fifo!Extends
  <2>4. /\ Sent = out \o Numbers(Held)
        /\ Sent' = out' \o Numbers(Held)'
    BY DEF Sent, Sending
  <2>5. Fifo!StrictlyIncreasing(Sent')
    BY <2>1 DEF StepOK, Follows, InOrder, Fifo!StrictlyIncreasing
  <2>6. Fifo!Items(Sent') \subseteq Fifo!Items(Sent) \cup (arrived + 1)..arrived'
    BY <2>1 DEF StepOK, Follows, ItemsOf, Fifo!Items
  <2> QED
    BY <2>1, <2>2, <2>3, <2>4, <2>5, <2>6 DEF StepOK, Fifo!Next
<1> QED  BY <1>1, <1>2, Invariant, PTL DEF Spec, ImplementsLossyFifo, Fifo!Spec

\* Once service.stop() has cancelled the worker, the worker has ended: no packet is
\* processed beside the shutdown, which waits for nothing but the inference.
WorkerEnds == shutdown # "no" => worker = "ended"

\* While all packets have one sample rate no change of format suspends the worker in
\* reset(), where it would take its own cancellation for that of the inference: once
\* stop() has begun, the worker has ended.
THEOREM OneFormatStops ==
  (\A f, g \in Formats : f = g) => (Spec => []WorkerEnds)
<1> SUFFICES ASSUME \A f, g \in Formats : f = g PROVE Spec => []WorkerEnds
  OBVIOUS
<1> DEFINE Alone == /\ resetting # "worker" /\ WorkerEnds
                    /\ resetting = "stop" => shutdown # "no"
<1>1. Init => Alone
  BY DEF Init, WorkerEnds
<1>2. SegInv /\ Alone /\ [Next]_vars => Alone'
  <2> SUFFICES ASSUME SegInv, Alone, [Next]_vars PROVE Alone'  OBVIOUS
  <2> USE DEF WorkerEnds, segmentVars, outputVars, streamVars, resetVars, callerVars
  <2>1. format \in Formats \cup {NoFormat}  BY DEF SegInv, StreamInv
  <2>2. \A f \in Formats : ~ProcessFormatChange(f)
    BY <2>1 DEF ProcessFormatChange, Compatible
  <2>3. CASE StopBegins  BY <2>3 DEF StopBegins
  <2>4. CASE StopProcessor  BY <2>4 DEF StopProcessor
  <2>5. CASE Reset  BY <2>5 DEF Reset, CancelsInference, Cleared
  <2>6. CASE ResetEnds  BY <2>6 DEF ResetEnds, SegInv, CallInv
  <2>7. CASE \/ \E f \in Formats, n \in FrameCounts : Process(f, n)
             \/ ProcessUndecodable \/ ProcessFails \/ Flush \/ FlushFails
             \/ InferenceBegins \/ InferenceEnds \/ OrphanEnds \/ UNCHANGED vars
    <3>1. UNCHANGED <<resetting, worker, shutdown>>
      BY <2>7 DEF Process, ProcessUndecodable, ProcessFails, HarvestFails, Flush, FlushFails,
         InferenceBegins, InferenceEnds, OrphanEnds, vars
    <3> QED  BY <3>1
  <2> QED  BY <2>2, <2>3, <2>4, <2>5, <2>6, <2>7 DEF Next
<1>3. Alone => WorkerEnds  OBVIOUS
<1> HIDE DEF Alone
<1> QED  BY <1>1, <1>2, <1>3, Invariant, PTL DEF Spec
=============================================================================
