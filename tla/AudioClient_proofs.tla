------------------------- MODULE AudioClient_proofs -------------------------
(***************************************************************************)
(* Theorems about AudioClient, for every format, limit and size of packets *)
(* and callbacks.  Playback: the queue is bounded, its samples are played  *)
(* once and in order, and, if the limit is one of whole frames, it holds   *)
(* whole frames.  Capture: callback, channel and socket are a lossy FIFO.  *)
(* Threads: an error is reported when the session ends.                    *)
(***************************************************************************)
EXTENDS AudioClient, SequenceTheorems, TLAPS

QueueInv ==
  /\ queue \in Seq(Nat) /\ received \in Nat
  /\ PlaybackBounded

\* Sizes are numbers.
LEMMA SamplesType == OutputSizes \subseteq Nat /\ FrameCounts \subseteq Nat
BY SizesAssumption

\* The limit compute_packet_sizing derives is a number.
LEMMA SizesType == MaxPlaybackSamples \in Nat /\ Channels \in Nat
<1>1. Rate \in Nat /\ Channels \in Nat /\ PlaybackMs \in Nat  BY FormatAssumption
<1>2. Rate * Channels * PlaybackMs \in Nat  BY <1>1
<1> QED  BY <1>1, <1>2 DEF MaxPlaybackSamples

\* What is left of a sequence without its n oldest items.
LEMMA AfterType ==
  ASSUME NEW q \in Seq(Nat), NEW n \in 0..Len(q)
  PROVE  After(q, n) \in Seq(Nat) /\ Len(After(q, n)) = Len(q) - n
<1>1. Len(q) \in Nat /\ n \in Nat /\ n <= Len(q)  OBVIOUS
<1>2. \A i \in (n + 1)..Len(q) : q[i] \in Nat  BY <1>1
<1> QED  BY <1>1, <1>2, SubSeqProperties DEF After

\* buffer_samples makes room for what it keeps of the packet.
LEMMA EvictEnough ==
  ASSUME QueueInv, NEW keep \in Nat, keep <= MaxPlaybackSamples
  PROVE  /\ Evict(keep) \in 0..Len(queue)
         /\ Len(queue) - Evict(keep) + keep <= MaxPlaybackSamples
<1>1. Len(queue) \in Nat  BY DEF QueueInv
<1> QED  BY <1>1, SizesType DEF Evict

\* What is kept of a packet is a sequence of that many samples.
LEMMA NewestType ==
  ASSUME received \in Nat, NEW n \in Nat, NEW keep \in Nat, keep <= n
  PROVE  NewestKept(n, keep) \in Seq(Nat) /\ Len(NewestKept(n, keep)) = keep
<1>1. \A k \in 1..keep : received + n - keep + k \in Nat  OBVIOUS
<1> QED  BY <1>1, IsASeq DEF NewestKept

\* One round of the receiver, and one callback.
LEMMA BuffersStep ==
  ASSUME QueueInv, NEW frames \in FrameCounts, ReceiverBuffers(frames)
  PROVE  QueueInv'
<1> DEFINE n == frames * Channels
           keep == IF n < MaxPlaybackSamples THEN n ELSE MaxPlaybackSamples
           kept == After(queue, Evict(keep))
<1>1. frames \in Nat  BY SamplesType
<1>2. n \in Nat  BY <1>1, SizesType
<1>3. keep \in Nat /\ keep <= n /\ keep <= MaxPlaybackSamples  BY <1>2, SizesType
<1>4. queue \in Seq(Nat) /\ received \in Nat  BY DEF QueueInv
<1>5. /\ Evict(keep) \in 0..Len(queue)
      /\ Len(queue) - Evict(keep) + keep <= MaxPlaybackSamples
  <2> HIDE DEF keep
  <2> QED  BY <1>3, EvictEnough
<1>6. kept \in Seq(Nat) /\ Len(kept) = Len(queue) - Evict(keep)
  BY <1>4, <1>5, AfterType
<1>7. NewestKept(n, keep) \in Seq(Nat) /\ Len(NewestKept(n, keep)) = keep
  <2> HIDE DEF n, keep
  <2> QED  BY <1>2, <1>3, <1>4, NewestType
<1>8. queue' = kept \o NewestKept(n, keep) /\ received' = received + n
  BY DEF ReceiverBuffers
<1>9. /\ kept \o NewestKept(n, keep) \in Seq(Nat)
      /\ Len(kept \o NewestKept(n, keep)) = Len(kept) + keep
  <2> HIDE DEF n, keep, kept
  <2> QED  BY <1>6, <1>7, ConcatProperties
<1>10. MaxPlaybackSamples' = MaxPlaybackSamples  BY DEF MaxPlaybackSamples
<1>11. received' \in Nat
  <2> HIDE DEF n
  <2> QED  BY <1>2, <1>4, <1>8
<1>12. Len(queue') <= MaxPlaybackSamples
  <2> HIDE DEF n, keep, kept
  <2> QED  BY <1>5, <1>6, <1>8, <1>9
<1> QED  BY <1>8, <1>9, <1>10, <1>11, <1>12 DEF QueueInv, PlaybackBounded

LEMMA PlaybackStep ==
  ASSUME QueueInv, NEW n \in OutputSizes, Playback(n)
  PROVE  QueueInv'
<1>1. n \in Nat  BY SamplesType
<1>2. queue \in Seq(Nat) /\ received \in Nat /\ Len(queue) <= MaxPlaybackSamples
  BY DEF QueueInv, PlaybackBounded
<1>3. queue' = Popped(n) \/ queue' = queue  BY DEF Playback
<1>4. received' = received  BY DEF Playback, arrivalVars
<1>5. Popped(n) \in Seq(Nat) /\ Len(Popped(n)) <= Len(queue)
  <2>1. CASE n < Len(queue)
    <3>1. n \in 0..Len(queue)  BY <1>1, <1>2, <2>1
    <3> QED  BY <1>1, <1>2, <2>1, <3>1, AfterType DEF Popped
  <2>2. CASE ~(n < Len(queue))
    <3>1. Popped(n) = <<>>  BY <2>2 DEF Popped
    <3> QED  BY <1>2, <3>1, EmptySeq
  <2> QED  BY <2>1, <2>2
<1>6. Len(queue') <= MaxPlaybackSamples /\ queue' \in Seq(Nat)
  BY <1>2, <1>3, <1>5, SizesType
<1>7. MaxPlaybackSamples' = MaxPlaybackSamples  BY DEF MaxPlaybackSamples
<1> QED  BY <1>2, <1>4, <1>6, <1>7 DEF QueueInv, PlaybackBounded

\* All other steps leave the queue alone.
LEMMA QueueKept ==
  ASSUME QueueInv, UNCHANGED <<queue, received>>
  PROVE  QueueInv'
BY DEF QueueInv, PlaybackBounded, MaxPlaybackSamples

\* QueueInv is inductive: one step per group of actions.
LEMMA QueueStep == QueueInv /\ [Next]_vars => QueueInv'
<1> SUFFICES ASSUME QueueInv, [Next]_vars PROVE QueueInv'  OBVIOUS
<1>1. CASE Capture
  BY <1>1, QueueKept DEF Capture, CutPacket, CaptureData, arrivalVars
<1>2. CASE Callback  BY <1>2, PlaybackStep DEF Callback
<1>3. CASE Sender
  BY <1>3, QueueKept DEF Sender, SenderChecks, SenderSends, SenderTimeout, Disconnected,
       SenderMoves, arrivalVars
<1>4. CASE Receiver
  <2>1. CASE \E f \in FrameCounts : ReceiverBuffers(f)  BY <2>1, BuffersStep
  <2>2. CASE ReceiverChecks \/ ReceiverTimeout \/ ReceiverIgnores
    BY <2>2, QueueKept DEF ReceiverChecks, ReceiverTimeout, ReceiverIgnores, ReceiverMoves,
         arrivalVars
  <2> QED  BY <1>4, <2>1, <2>2 DEF Receiver
<1>5. CASE Main
  BY <1>5, QueueKept DEF Main, CaptureStarts, PlaybackStarts, DropStreams, JoinSender,
       JoinReceiver, MainMoves, arrivalVars
<1>6. CASE Failure
  BY <1>6, QueueKept DEF Failure, SenderFails, ReceiverFails, StartFails, SenderMoves,
       ReceiverMoves, MainMoves, arrivalVars
<1>7. CASE CtrlC  BY <1>7, QueueKept DEF CtrlC, arrivalVars
<1>8. CASE UNCHANGED vars  BY <1>8, QueueKept DEF vars, arrivalVars
<1> QED  BY <1>1, <1>2, <1>3, <1>4, <1>5, <1>6, <1>7, <1>8 DEF Next

LEMMA QueueInit == Init => QueueInv
<1> SUFFICES ASSUME Init PROVE QueueInv  OBVIOUS
<1>1. queue = <<>> /\ received = 0  BY DEF Init
<1> QED  BY <1>1, SizesType, EmptySeq DEF QueueInv, PlaybackBounded

\* The playback queue never exceeds its limit: buffer_samples evicts enough for
\* every packet that it appends, and the callback only takes samples out.
THEOREM PlaybackCorrect == Spec => []PlaybackBounded
<1>1. QueueInv => PlaybackBounded  BY DEF QueueInv
<1> QED  BY <1>1, QueueInit, QueueStep, PTL DEF Spec

-----------------------------------------------------------------------------
(* Errors of the network threads.                                          *)

\* The main thread is past a join only if that thread ended without an error,
\* and a thread that ended stays where it is.
ThreadInv ==
  /\ main \in {"joining receiver", "ok"} => sender = "ended"
  /\ main = "ok" => receiver = "ended"

LEMMA ThreadStep == ThreadInv /\ [Next]_vars => ThreadInv'
<1> SUFFICES ASSUME ThreadInv, [Next]_vars PROVE ThreadInv'  OBVIOUS
<1> USE DEF ThreadInv, threadVars
<1>1. CASE Capture  BY <1>1 DEF Capture, CutPacket, CaptureData
<1>2. CASE Callback  BY <1>2 DEF Callback, Playback
<1>3. CASE Sender
  <2>1. sender # "ended" /\ UNCHANGED <<main, receiver>>
    BY <1>3 DEF Sender, SenderChecks, SenderSends, SenderTimeout, Disconnected, SenderMoves
  <2>2. Alive  BY <1>3 DEF Sender, SenderChecks, SenderSends, SenderTimeout, Disconnected,
                           SenderMoves
  <2> QED  BY <2>1, <2>2 DEF Alive
<1>4. CASE Receiver
  <2>1. receiver # "ended" /\ UNCHANGED <<main, sender>>
    BY <1>4 DEF Receiver, ReceiverChecks, ReceiverTimeout, ReceiverIgnores,
         ReceiverBuffers, ReceiverMoves
  <2> QED  BY <2>1
<1>5. CASE Main
  <2>1. CASE JoinSender
    <3>1. main' = JoinResult(sender, "joining receiver") /\ UNCHANGED <<sender, receiver>>
      BY <2>1 DEF JoinSender, MainMoves
    <3>2. sender = "ended" \/ main' = "error"
      BY <2>1, <3>1 DEF JoinSender, JoinResult, Ends
    <3>3. main' # "ok"  BY <3>1 DEF JoinResult
    <3> QED  BY <3>1, <3>2, <3>3
  <2>2. CASE JoinReceiver
    <3>1. main' = JoinResult(receiver, "ok") /\ UNCHANGED <<sender, receiver>>
      BY <2>2 DEF JoinReceiver, MainMoves
    <3>2. receiver = "ended" \/ main' = "error"
      BY <2>2, <3>1 DEF JoinReceiver, JoinResult, Ends
    <3>3. sender = "ended"  BY <2>2 DEF JoinReceiver
    <3> QED  BY <3>1, <3>2, <3>3
  <2>3. CASE CaptureStarts \/ PlaybackStarts \/ DropStreams
    BY <2>3 DEF CaptureStarts, PlaybackStarts, DropStreams, MainMoves
  <2> QED  BY <1>5, <2>1, <2>2, <2>3 DEF Main
<1>6. CASE Failure
  <2>1. CASE SenderFails  BY <2>1 DEF SenderFails, SenderMoves
  <2>2. CASE ReceiverFails  BY <2>2 DEF ReceiverFails, ReceiverMoves
  <2>3. CASE StartFails  BY <2>3 DEF StartFails, MainMoves
  <2> QED  BY <1>6, <2>1, <2>2, <2>3 DEF Failure
<1>7. CASE CtrlC  BY <1>7 DEF CtrlC
<1>8. CASE UNCHANGED vars  BY <1>8 DEF vars
<1> QED  BY <1>1, <1>2, <1>3, <1>4, <1>5, <1>6, <1>7, <1>8 DEF Next

\* run() never returns Ok over the error of a network thread.
THEOREM ErrorsReported == Spec => []ErrorReported
<1>1. Init => ThreadInv  BY DEF Init, ThreadInv
<1>2. ThreadInv => ErrorReported  BY DEF ThreadInv, ErrorReported
<1> QED  BY <1>1, <1>2, ThreadStep, PTL DEF Spec

-----------------------------------------------------------------------------
(* The order of what is played.                                            *)

\* What is queued is newer than what was played, in the order of arrival.
Ordered(q, low, high) ==
  /\ \A k \in 1..Len(q) : low < q[k] /\ q[k] <= high
  /\ \A j, k \in 1..Len(q) : j < k => q[j] < q[k]

OrderInv == lastPlayed \in Nat /\ Ordered(queue, lastPlayed, received)

\* What is left has moved to the front.
LEMMA AfterShifted ==
  ASSUME NEW q \in Seq(Nat), NEW n \in 0..Len(q)
  PROVE  \A k \in 1..Len(After(q, n)) : After(q, n)[k] = q[n + k]
<1> DEFINE r == After(q, n)
<1>1. Len(q) \in Nat /\ n \in Nat /\ n <= Len(q)  OBVIOUS
<1>2. \A i \in (n + 1)..Len(q) : q[i] \in Nat  BY <1>1
<1>3. Len(r) = Len(q) - n  BY AfterType
<1>4. \A i \in 1..Len(q) - (n + 1) + 1 : r[i] = q[n + 1 + i - 1]
  BY <1>1, <1>2, SubSeqProperties DEF After
<1> HIDE DEF r
<1>5. ASSUME NEW k \in 1..Len(r) PROVE r[k] = q[n + k]
  <2>1. k \in 1..Len(q) - (n + 1) + 1 /\ n + 1 + k - 1 = n + k  BY <1>1, <1>3
  <2> QED  BY <1>4, <2>1
<1> QED  BY <1>5 DEF r

\* Dropping the oldest keeps the order, and what remains is newer than the last
\* one dropped.
LEMMA AfterOrdered ==
  ASSUME NEW q \in Seq(Nat), NEW low \in Nat, NEW high \in Nat, Ordered(q, low, high),
         NEW n \in 0..Len(q)
  PROVE  /\ Ordered(After(q, n), low, high)
         /\ n > 0 => Ordered(After(q, n), q[n], high)
<1>1. Len(q) \in Nat /\ n \in Nat /\ n <= Len(q)  OBVIOUS
<1> DEFINE r == After(q, n)
<1>2. Len(r) = Len(q) - n /\ \A k \in 1..Len(r) : r[k] = q[n + k]
  BY AfterType, AfterShifted
<1>3. \A k \in 1..Len(r) : n + k \in 1..Len(q)
  <2> HIDE DEF r
  <2> QED  BY <1>1, <1>2
<1> HIDE DEF r
<1>4. \A k \in 1..Len(r) : low < r[k] /\ r[k] <= high  BY <1>2, <1>3 DEF Ordered
<1>5. \A j, k \in 1..Len(r) : j < k => r[j] < r[k]
  <2> SUFFICES ASSUME NEW j \in 1..Len(r), NEW k \in 1..Len(r), j < k
               PROVE  r[j] < r[k]
    OBVIOUS
  <2>1. n + j \in 1..Len(q) /\ n + k \in 1..Len(q) /\ n + j < n + k
    BY <1>1, <1>2, <1>3
  <2> QED  BY <1>2, <2>1 DEF Ordered
<1>6. ASSUME n > 0 PROVE \A k \in 1..Len(r) : q[n] < r[k]
  <2> SUFFICES ASSUME NEW k \in 1..Len(r) PROVE q[n] < r[k]  OBVIOUS
  <2>1. n \in 1..Len(q) /\ n + k \in 1..Len(q) /\ n < n + k
    BY <1>1, <1>2, <1>3, <1>6
  <2> QED  BY <1>2, <2>1 DEF Ordered
<1> QED  BY <1>4, <1>5, <1>6 DEF Ordered, r

\* The second part of a concatenation.
LEMMA SecondPart ==
  ASSUME NEW a \in Seq(Nat), NEW b \in Seq(Nat), NEW k \in Len(a) + 1..Len(a) + Len(b)
  PROVE  (a \o b)[k] = b[k - Len(a)]
BY ConcatProperties

\* What a packet adds is newer than all that arrived before it.
LEMMA NewestOrdered ==
  ASSUME NEW q \in Seq(Nat), NEW low \in Nat, received \in Nat, low <= received,
         Ordered(q, low, received), NEW n \in Nat, NEW keep \in Nat, keep <= n
  PROVE  Ordered(q \o NewestKept(n, keep), low, received + n)
<1> DEFINE new == NewestKept(n, keep)
           all == q \o new
<1>1. new \in Seq(Nat) /\ Len(new) = keep  BY NewestType
<1>2. \A k \in 1..keep : new[k] = received + n - keep + k  BY DEF NewestKept
<1> HIDE DEF new
<1>3. /\ Len(all) = Len(q) + keep
      /\ \A k \in 1..Len(q) : all[k] = q[k]
      /\ \A k \in Len(q) + 1..Len(q) + keep : all[k] = new[k - Len(q)]
  <2>1. Len(q \o new) = Len(q) + Len(new)
    <3>1. new \in Seq(Nat)  BY <1>1
    <3> QED  BY ONLY <3>1, q \in Seq(Nat)
  <2>2. \A k \in 1..Len(q) : all[k] = q[k]  BY <1>1
  <2>3. ASSUME NEW k \in Len(q) + 1..Len(q) + keep PROVE all[k] = new[k - Len(q)]
    <3>1. k \in Len(q) + 1..Len(q) + Len(new)  BY <1>1, <2>3
    <3>2. (q \o new)[k] = new[k - Len(q)]  BY <1>1, <3>1, SecondPart
    <3> QED  BY <3>2 DEF all
  <2> QED  BY <1>1, <2>1, <2>2, <2>3 DEF all
<1> HIDE DEF all
<1>4. Len(q) \in Nat  OBVIOUS
<1>5. \A k \in 1..Len(all) :
        \/ k \in 1..Len(q) /\ all[k] = q[k]
        \/ /\ k \in Len(q) + 1..Len(q) + keep
           /\ all[k] = received + n - keep + (k - Len(q))
  BY <1>2, <1>3, <1>4
<1>6. \A k \in 1..Len(q) : q[k] \in Nat /\ low < q[k] /\ q[k] <= received
  BY DEF Ordered
<1>7. \A k \in 1..Len(all) : low < all[k] /\ all[k] <= received + n
  BY <1>4, <1>5, <1>6
<1>8. ASSUME NEW j \in 1..Len(all), NEW k \in 1..Len(all), j < k
      PROVE  all[j] < all[k]
  <2>1. CASE k \in 1..Len(q)
    <3>1. j \in 1..Len(q)  BY <1>4, <1>8, <2>1
    <3>2. all[j] = q[j] /\ all[k] = q[k]  BY <1>3, <2>1, <3>1
    <3> QED  BY <1>8, <2>1, <3>1, <3>2 DEF Ordered
  <2>2. CASE k \notin 1..Len(q)
    <3>1. k > Len(q) /\ all[k] = received + n - keep + (k - Len(q))
      BY <1>4, <1>5, <2>2
    <3>2. CASE j \in 1..Len(q)
      <4>1. all[j] = q[j]  BY <1>3, <3>2
      <4> QED  BY <1>4, <1>6, <3>1, <3>2, <4>1
    <3>3. CASE j \notin 1..Len(q)
      <4>1. all[j] = received + n - keep + (j - Len(q))  BY <1>5, <3>3
      <4> QED  BY <1>4, <1>8, <3>1, <4>1
    <3> QED  BY <3>2, <3>3
  <2> QED  BY <2>1, <2>2
<1> QED  BY <1>7, <1>8 DEF Ordered, all, new

\* One round of the receiver, one callback, and the steps of the others.
LEMMA BuffersOrder ==
  ASSUME QueueInv, OrderInv, lastPlayed <= received, NEW frames \in FrameCounts,
         ReceiverBuffers(frames)
  PROVE  OrderInv' /\ lastPlayed' <= received'
<1> DEFINE n == frames * Channels
           keep == IF n < MaxPlaybackSamples THEN n ELSE MaxPlaybackSamples
           kept == After(queue, Evict(keep))
<1>1. frames \in Nat  BY SamplesType
<1>2. n \in Nat  BY <1>1, SizesType
<1>3. keep \in Nat /\ keep <= n /\ keep <= MaxPlaybackSamples  BY <1>2, SizesType
<1>4. /\ queue \in Seq(Nat) /\ received \in Nat /\ lastPlayed \in Nat
      /\ Ordered(queue, lastPlayed, received)
  BY DEF QueueInv, OrderInv
<1>5. queue' = kept \o NewestKept(n, keep) /\ received' = received + n
  BY DEF ReceiverBuffers
<1>6. lastPlayed' = lastPlayed  BY DEF ReceiverBuffers, playbackVars
<1> HIDE DEF n, keep
<1>7. Evict(keep) \in 0..Len(queue)  BY <1>3, EvictEnough
<1>8. kept \in Seq(Nat) /\ Ordered(kept, lastPlayed, received)
  BY <1>4, <1>7, AfterType, AfterOrdered
<1> HIDE DEF kept
<1>9. Ordered(kept \o NewestKept(n, keep), lastPlayed, received + n)
  BY <1>2, <1>3, <1>4, <1>8, NewestOrdered
<1>10. lastPlayed <= received + n  BY <1>2, <1>4
<1> QED  BY <1>4, <1>5, <1>6, <1>9, <1>10 DEF OrderInv

LEMMA PlaybackOrder ==
  ASSUME QueueInv, OrderInv, lastPlayed <= received, NEW n \in OutputSizes, Playback(n)
  PROVE  OrderInv' /\ lastPlayed' <= received'
<1> DEFINE last == IF n < Len(queue) THEN n ELSE Len(queue)
<1>1. n \in Nat /\ n > 0  BY SizesAssumption
<1>2. /\ queue \in Seq(Nat) /\ received \in Nat /\ lastPlayed \in Nat
      /\ Ordered(queue, lastPlayed, received)
  BY DEF QueueInv, OrderInv
<1>3. received' = received  BY DEF Playback, arrivalVars
<1>4. CASE UNCHANGED <<queue, lastPlayed>>  BY <1>3, <1>4 DEF OrderInv
<1>5. CASE queue # <<>> /\ queue' = Popped(n) /\ lastPlayed' = queue[last]
  <2>1. Len(queue) \in Nat /\ Len(queue) > 0  BY <1>2, <1>5, EmptySeq
  <2>2. last \in 1..Len(queue)  BY <1>1, <2>1
  <2>3. queue[last] \in Nat /\ queue[last] <= received  BY <1>2, <2>2 DEF Ordered
  <2>4. CASE n < Len(queue)
    <3>1. n \in 0..Len(queue) /\ last = n  BY <1>1, <2>1, <2>4
    <3>2. queue' = After(queue, n)  BY <1>5, <2>4 DEF Popped
    <3> HIDE DEF last
    <3>3. Ordered(After(queue, n), queue[n], received)
      BY <1>1, <1>2, <3>1, AfterOrdered
    <3> QED  BY <1>3, <1>5, <2>3, <3>1, <3>2, <3>3 DEF OrderInv
  <2>5. CASE ~(n < Len(queue))
    <3>1. queue' = <<>>  BY <1>5, <2>5 DEF Popped
    <3>2. Ordered(queue', lastPlayed', received')  BY <3>1 DEF Ordered
    <3> HIDE DEF last
    <3> QED  BY <1>3, <1>5, <2>3, <3>2 DEF OrderInv
  <2> QED  BY <2>4, <2>5
<1> QED  BY <1>4, <1>5 DEF Playback

LEMMA OrderKept ==
  ASSUME OrderInv, lastPlayed <= received, UNCHANGED <<queue, received, lastPlayed>>
  PROVE  OrderInv' /\ lastPlayed' <= received'
BY DEF OrderInv

LEMMA OrderStep ==
  ASSUME QueueInv, OrderInv, lastPlayed <= received, [Next]_vars
  PROVE  OrderInv' /\ lastPlayed' <= received'
<1> USE DEF arrivalVars, playbackVars
<1>1. CASE Capture  BY <1>1, OrderKept DEF Capture, CutPacket, CaptureData
<1>2. CASE Callback  BY <1>2, PlaybackOrder DEF Callback
<1>3. CASE Sender
  BY <1>3, OrderKept DEF Sender, SenderChecks, SenderSends, SenderTimeout, Disconnected,
       SenderMoves
<1>4. CASE Receiver
  <2>1. CASE \E f \in FrameCounts : ReceiverBuffers(f)  BY <2>1, BuffersOrder
  <2>2. CASE ReceiverChecks \/ ReceiverTimeout \/ ReceiverIgnores
    BY <2>2, OrderKept DEF ReceiverChecks, ReceiverTimeout, ReceiverIgnores, ReceiverMoves
  <2> QED  BY <1>4, <2>1, <2>2 DEF Receiver
<1>5. CASE Main
  BY <1>5, OrderKept DEF Main, CaptureStarts, PlaybackStarts, DropStreams, JoinSender,
       JoinReceiver, MainMoves
<1>6. CASE Failure
  BY <1>6, OrderKept DEF Failure, SenderFails, ReceiverFails, StartFails, SenderMoves,
       ReceiverMoves, MainMoves
<1>7. CASE CtrlC  BY <1>7, OrderKept DEF CtrlC
<1>8. CASE UNCHANGED vars  BY <1>8, OrderKept DEF vars
<1> QED  BY <1>1, <1>2, <1>3, <1>4, <1>5, <1>6, <1>7, <1>8 DEF Next

\* Nothing is played twice, and nothing is played after a newer sample, whatever
\* was evicted under the callback.
THEOREM PlayedOnce == Spec => []NoReplay
<1> DEFINE Inv == QueueInv /\ OrderInv /\ lastPlayed <= received
<1>1. Init => Inv
  <2> SUFFICES ASSUME Init PROVE Inv  OBVIOUS
  <2>1. queue = <<>> /\ lastPlayed = 0 /\ received = 0  BY DEF Init
  <2> QED  BY <2>1, QueueInit DEF OrderInv, Ordered
<1>2. Inv /\ [Next]_vars => Inv'  BY QueueStep, OrderStep
<1>3. Inv => NoReplay
  <2> SUFFICES ASSUME QueueInv, OrderInv, NEW k \in 1..Len(queue)
               PROVE  queue[k] > (IF k = 1 THEN lastPlayed ELSE queue[k - 1])
    BY DEF NoReplay
  <2>1. /\ queue \in Seq(Nat) /\ lastPlayed \in Nat
        /\ Ordered(queue, lastPlayed, received)
    BY DEF QueueInv, OrderInv
  <2>2. CASE k = 1  BY <2>1, <2>2 DEF Ordered
  <2>3. CASE k # 1
    <3>1. k - 1 \in 1..Len(queue) /\ k - 1 < k  BY <2>1, <2>3
    <3>2. queue[k - 1] \in Nat /\ queue[k] \in Nat  BY <2>1, <3>1
    <3> QED  BY <2>1, <2>3, <3>1, <3>2 DEF Ordered
  <2> QED  BY <2>2, <2>3
<1> QED  BY <1>1, <1>2, <1>3, PTL DEF Spec

-----------------------------------------------------------------------------
(* The capture path implements LossyFifo.                                  *)

\* Packets are numbered as they are cut; what is sent and what waits is in that
\* order.
SentThenWaiting == wire \o channel

CaptureInv ==
  /\ cut \in Nat /\ channel \in Seq(Nat) /\ wire \in Seq(Nat)
  /\ Ordered(SentThenWaiting, 0, cut)

LEMMA Appended ==
  ASSUME NEW q \in Seq(Nat), NEW top \in Nat, Ordered(q, 0, top)
  PROVE  Ordered(Append(q, top + 1), 0, top + 1)
<1> DEFINE r == Append(q, top + 1)
<1>1. /\ Len(q) \in Nat /\ Len(r) = Len(q) + 1 /\ r[Len(q) + 1] = top + 1
      /\ \A k \in 1..Len(q) : r[k] = q[k]
  OBVIOUS
<1> HIDE DEF r
<1>2. \A k \in 1..Len(q) : q[k] \in Nat /\ 0 < q[k] /\ q[k] <= top  BY DEF Ordered
<1>3. \A k \in 1..Len(r) : k \in 1..Len(q) \/ k = Len(q) + 1  BY <1>1
<1>4. ASSUME NEW k \in 1..Len(r) PROVE 0 < r[k] /\ r[k] <= top + 1
  <2>1. CASE k \in 1..Len(q)  BY <1>1, <1>2, <2>1
  <2>2. CASE k = Len(q) + 1  BY <1>1, <2>2
  <2> QED  BY <1>3, <2>1, <2>2
<1>5. ASSUME NEW j \in 1..Len(r), NEW k \in 1..Len(r), j < k PROVE r[j] < r[k]
  <2>1. j \in 1..Len(q)  BY <1>1, <1>5
  <2>2. CASE k \in 1..Len(q)  BY <1>1, <1>5, <2>1, <2>2 DEF Ordered
  <2>3. CASE k = Len(q) + 1  BY <1>1, <1>2, <2>1, <2>3
  <2> QED  BY <1>3, <2>2, <2>3
<1> QED  BY <1>4, <1>5 DEF Ordered, r

\* A shorter queue behind what was sent keeps the order.
LEMMA Shortened ==
  ASSUME NEW w \in Seq(Nat), NEW c \in Seq(Nat), NEW top \in Nat, Ordered(w \o c, 0, top)
  PROVE  /\ Ordered(w, 0, top)
         /\ \A k \in 1..Len(w) : k \in 1..Len(w \o c) /\ w[k] = (w \o c)[k]
<1>1. \A k \in 1..Len(w) : k \in 1..Len(w \o c) /\ w[k] = (w \o c)[k]
  BY ONLY w \in Seq(Nat), c \in Seq(Nat)
<1> DEFINE r == w \o c
<1> HIDE DEF r
<1>2. \A k \in 1..Len(w) : k \in 1..Len(r) /\ w[k] = r[k]  BY <1>1 DEF r
<1>3. Ordered(r, 0, top)  BY DEF r
<1>4. Ordered(w, 0, top)  BY <1>2, <1>3 DEF Ordered
<1> QED  BY <1>1, <1>4

\* Moving the head of the second sequence to the end of the first.
LEMMA HeadMoves ==
  ASSUME NEW w \in Seq(Nat), NEW c \in Seq(Nat), c # <<>>
  PROVE  Append(w, Head(c)) \o Tail(c) = w \o c
BY ONLY w \in Seq(Nat), c \in Seq(Nat), c # <<>>

LEMMA AppendMoves ==
  ASSUME NEW w \in Seq(Nat), NEW c \in Seq(Nat), NEW x \in Nat
  PROVE  w \o Append(c, x) = Append(w \o c, x)
BY ONLY w \in Seq(Nat), c \in Seq(Nat), x \in Nat

\* What a step owes the abstract specification.
CaptureStep == CaptureInv' /\ (CaptureFifo!Next \/ UNCHANGED <<cut, channel, wire>>)

LEMMA CutStep == ASSUME CaptureInv, CutPacket PROVE CaptureStep
<1>1. /\ cut \in Nat /\ channel \in Seq(Nat) /\ wire \in Seq(Nat)
      /\ Ordered(wire \o channel, 0, cut)
  BY DEF CaptureInv, SentThenWaiting
<1>2. cut' = cut + 1 /\ wire' = wire /\ (channel' = channel \/ channel' = Append(channel, cut + 1))
  BY DEF CutPacket, Sent
<1> DEFINE q == wire \o channel
<1>3. q \in Seq(Nat)  BY <1>1
<1>4. wire' \o channel' = q \/ wire' \o channel' = Append(q, cut + 1)
  <2>1. wire \o Append(channel, cut + 1) = Append(wire \o channel, cut + 1)
    <3>1. cut + 1 \in Nat  BY <1>1
    <3> QED  BY <1>1, <3>1, AppendMoves
  <2>2. CASE channel' = channel  BY <1>2, <2>2
  <2>3. CASE channel' = Append(channel, cut + 1)  BY <1>2, <2>1, <2>3
  <2> QED  BY <1>2, <2>2, <2>3
<1> HIDE DEF q
<1>5. Ordered(q, 0, cut) /\ q = wire \o channel  BY <1>1 DEF q
<1>6. Ordered(q, 0, cut') /\ Ordered(Append(q, cut + 1), 0, cut')
  <2>1. Ordered(Append(q, cut + 1), 0, cut')  BY <1>1, <1>2, <1>3, <1>5, Appended
  <2>2. Ordered(q, 0, cut')
    <3>1. \A k \in 1..Len(q) : q[k] \in Nat /\ 0 < q[k] /\ q[k] <= cut
      BY <1>3, <1>5 DEF Ordered
    <3>2. \A k \in 1..Len(q) : 0 < q[k] /\ q[k] <= cut + 1  BY <1>1, <3>1
    <3>3. \A j, k \in 1..Len(q) : j < k => q[j] < q[k]  BY <1>5 DEF Ordered
    <3> QED  BY <1>2, <3>2, <3>3 DEF Ordered
  <2> QED  BY <2>1, <2>2
<1>7. Ordered(wire' \o channel', 0, cut')  BY <1>4, <1>6
<1>8. channel' \in Seq(Nat)
  <2>1. Append(channel, cut + 1) \in Seq(Nat)
    <3>1. cut + 1 \in Nat  BY <1>1
    <3> QED  BY <1>1, <3>1
  <2> QED  BY <1>1, <1>2, <2>1
<1>9. CaptureInv'
  BY <1>1, <1>2, <1>7, <1>8 DEF CaptureInv, SentThenWaiting
<1>10. CaptureFifo!Items(wire' \o channel')
         \subseteq CaptureFifo!Items(q) \cup (cut + 1)..cut'
  <2>1. CaptureFifo!Items(Append(q, cut + 1))
          \subseteq CaptureFifo!Items(q) \cup (cut + 1)..(cut + 1)
    <3> SUFFICES ASSUME NEW k \in 1..Len(Append(q, cut + 1))
                 PROVE  Append(q, cut + 1)[k] \in CaptureFifo!Items(q) \cup {cut + 1}
      <4>1. cut + 1 \in (cut + 1)..(cut + 1)  BY <1>1
      <4>2. \A x \in CaptureFifo!Items(Append(q, cut + 1)) :
              \E k \in 1..Len(Append(q, cut + 1)) : x = Append(q, cut + 1)[k]
        BY DEF CaptureFifo!Items
      <4> QED  BY <4>1, <4>2, Zenon
    <3>1. k \in 1..Len(q) \/ k = Len(q) + 1  BY <1>3
    <3>2. CASE k \in 1..Len(q)
      <4>1. Append(q, cut + 1)[k] = q[k]  BY <1>3, <3>2
      <4> QED  BY <3>2, <4>1 DEF CaptureFifo!Items
    <3>3. CASE k = Len(q) + 1
      <4>1. Append(q, cut + 1)[k] = cut + 1  BY <1>3, <3>3
      <4> QED  BY <4>1
    <3> QED  BY <3>1, <3>2, <3>3
  <2> QED  BY <1>2, <1>4, <2>1
<1>11. CaptureFifo!Extends(wire, wire')  BY <1>1, <1>2 DEF CaptureFifo!Extends
<1>12. CaptureFifo!StrictlyIncreasing(wire' \o channel')
  BY <1>7 DEF Ordered, CaptureFifo!StrictlyIncreasing
<1>13. cut' \in Nat /\ cut <= cut'  BY <1>1, <1>2
<1> QED
  BY <1>5, <1>9, <1>10, <1>11, <1>12, <1>13 DEF CaptureStep, CaptureFifo!Next

\* A step of the sender: it sends the oldest packet, drops all, or does nothing.
LEMMA SendStep ==
  ASSUME CaptureInv, channel # <<>>, cut' = cut,
         wire' = Append(wire, Head(channel)), channel' = Tail(channel)
  PROVE  CaptureStep
<1>1. /\ cut \in Nat /\ channel \in Seq(Nat) /\ wire \in Seq(Nat)
      /\ Ordered(wire \o channel, 0, cut)
  BY DEF CaptureInv, SentThenWaiting
<1>2. wire' \o channel' = wire \o channel  BY <1>1, HeadMoves
<1>3. wire' \in Seq(Nat) /\ channel' \in Seq(Nat)  BY <1>1
<1>4. CaptureInv'  BY <1>1, <1>2, <1>3 DEF CaptureInv, SentThenWaiting
<1>5. CaptureFifo!Extends(wire, wire')  BY <1>1 DEF CaptureFifo!Extends
<1>6. CaptureFifo!StrictlyIncreasing(wire' \o channel')
  BY <1>1, <1>2 DEF Ordered, CaptureFifo!StrictlyIncreasing
<1>7. CaptureFifo!Items(wire' \o channel')
        \subseteq CaptureFifo!Items(wire \o channel) \cup (cut + 1)..cut'
  BY <1>2
<1> QED  BY <1>1, <1>4, <1>5, <1>6, <1>7 DEF CaptureStep, CaptureFifo!Next

LEMMA DropStep ==
  ASSUME CaptureInv, cut' = cut, wire' = wire, channel' = <<>>
  PROVE  CaptureStep
<1>1. /\ cut \in Nat /\ channel \in Seq(Nat) /\ wire \in Seq(Nat)
      /\ Ordered(wire \o channel, 0, cut)
  BY DEF CaptureInv, SentThenWaiting
<1>2. /\ Ordered(wire, 0, cut)
      /\ \A k \in 1..Len(wire) : k \in 1..Len(wire \o channel)
                                /\ wire[k] = (wire \o channel)[k]
  BY <1>1, Shortened
<1>3. wire' \o channel' = wire  BY <1>1, ConcatEmptySeq
<1>4. CaptureInv'  BY <1>1, <1>2, <1>3, EmptySeq DEF CaptureInv, SentThenWaiting
<1>5. CaptureFifo!Extends(wire, wire')  BY <1>1 DEF CaptureFifo!Extends
<1>6. CaptureFifo!StrictlyIncreasing(wire' \o channel')
  BY <1>2, <1>3 DEF Ordered, CaptureFifo!StrictlyIncreasing
<1>7. CaptureFifo!Items(wire) \subseteq CaptureFifo!Items(wire \o channel)
  <2> DEFINE r == wire \o channel
  <2> HIDE DEF r
  <2>1. \A k \in 1..Len(wire) : k \in 1..Len(r) /\ wire[k] = r[k]  BY <1>2 DEF r
  <2>2. CaptureFifo!Items(wire) \subseteq CaptureFifo!Items(r)
    BY <2>1 DEF CaptureFifo!Items
  <2> QED  BY <2>2 DEF r
<1>8. CaptureFifo!Items(wire' \o channel')
        \subseteq CaptureFifo!Items(wire \o channel) \cup (cut + 1)..cut'
  BY <1>3, <1>7
<1> QED  BY <1>1, <1>4, <1>5, <1>6, <1>8 DEF CaptureStep, CaptureFifo!Next

LEMMA CaptureKept ==
  ASSUME CaptureInv, UNCHANGED <<cut, channel, wire>>
  PROVE  CaptureStep
BY DEF CaptureStep, CaptureInv, SentThenWaiting

\* SenderMoves changes the channel only by dropping it.
LEMMA MovesStep ==
  ASSUME CaptureInv, NEW state, SenderMoves(state)
  PROVE  CaptureStep
<1>1. cut' = cut /\ wire' = wire /\ (channel' = <<>> \/ channel' = channel)
  BY DEF SenderMoves, captureVars
<1> QED  BY <1>1, DropStep, CaptureKept

LEMMA CaptureStepOfAll == ASSUME CaptureInv, [Next]_vars PROVE CaptureStep
<1> USE DEF captureVars
<1>1. CASE Capture
  <2>1. CASE CutPacket  BY <2>1, CutStep
  <2>2. CASE \E n \in CaptureSizes : CaptureData(n)
    BY <2>2, CaptureKept DEF CaptureData
  <2> QED  BY <1>1, <2>1, <2>2 DEF Capture
<1>2. CASE Callback  BY <1>2, CaptureKept DEF Callback, Playback
<1>3. CASE Sender
  <2>1. CASE SenderSends
    <3>1. /\ channel # <<>> /\ cut' = cut
          /\ wire' = Append(wire, Head(channel)) /\ channel' = Tail(channel)
      BY <2>1 DEF SenderSends
    <3> QED  BY <3>1, SendStep
  <2>2. CASE SenderChecks \/ SenderTimeout \/ Disconnected
    BY <2>2, MovesStep DEF SenderChecks, SenderTimeout, Disconnected
  <2> QED  BY <1>3, <2>1, <2>2 DEF Sender
<1>4. CASE Receiver
  BY <1>4, CaptureKept DEF Receiver, ReceiverChecks, ReceiverTimeout, ReceiverIgnores,
       ReceiverBuffers, ReceiverMoves
<1>5. CASE Main
  BY <1>5, CaptureKept DEF Main, CaptureStarts, PlaybackStarts, DropStreams, JoinSender,
       JoinReceiver, MainMoves
<1>6. CASE Failure
  <2>1. CASE SenderFails  BY <2>1, MovesStep DEF SenderFails
  <2>2. CASE ReceiverFails \/ StartFails
    BY <2>2, CaptureKept DEF ReceiverFails, StartFails, ReceiverMoves, MainMoves
  <2> QED  BY <1>6, <2>1, <2>2 DEF Failure
<1>7. CASE CtrlC  BY <1>7, CaptureKept DEF CtrlC
<1>8. CASE UNCHANGED vars  BY <1>8, CaptureKept DEF vars
<1> QED  BY <1>1, <1>2, <1>3, <1>4, <1>5, <1>6, <1>7, <1>8 DEF Next

\* From callback to socket nothing is sent twice or out of order, and what
\* try_send or a dying sender gave up is not sent later.
THEOREM CaptureImplements == Spec => ImplementsLossyFifo
<1>1. Init => CaptureInv /\ CaptureFifo!Init
  <2> SUFFICES ASSUME Init PROVE CaptureInv /\ CaptureFifo!Init  OBVIOUS
  <2>1. cut = 0 /\ channel = <<>> /\ wire = <<>>  BY DEF Init
  <2>2. wire \o channel = <<>>  BY <2>1
  <2>3. Ordered(wire \o channel, 0, cut)  BY <2>2 DEF Ordered
  <2> QED  BY <2>1, <2>3, EmptySeq DEF CaptureInv, SentThenWaiting, CaptureFifo!Init
<1>2. CaptureInv /\ [Next]_vars => CaptureInv'  BY CaptureStepOfAll DEF CaptureStep
<1>3. CaptureInv /\ [Next]_vars => [CaptureFifo!Next]_(CaptureFifo!fifoVars)
  BY CaptureStepOfAll DEF CaptureStep, CaptureFifo!fifoVars
<1> QED  BY <1>1, <1>2, <1>3, PTL DEF Spec, ImplementsLossyFifo, CaptureFifo!Spec
-----------------------------------------------------------------------------
(* Types.                                                                  *)

\* compute_packet_sizing yields at least one frame, whatever it rounds.
LEMMA PacketSizeType == SamplesPerPacket \in Nat \ {0}
<1> DEFINE rounded == (2 * Rate * PacketMicros + 1000000) \div 2000000
<1>1. FramesPerPacket = IF rounded < 1 THEN 1
                        ELSE IF rounded > 65535 THEN 65535 ELSE rounded
  BY DEF FramesPerPacket
<1>2. rounded \in Int
  <2>1. 2 * Rate * PacketMicros + 1000000 \in Nat  BY FormatAssumption
  <2>2. \A x \in Nat : x \div 2000000 \in Int  OBVIOUS
  <2> QED  BY <2>1, <2>2
<1> HIDE DEF rounded
<1>3. FramesPerPacket \in Nat \ {0}  BY <1>1, <1>2
<1>4. Channels \in Nat \ {0}  BY FormatAssumption
<1>5. \A x, y \in Nat \ {0} : x * y \in Nat \ {0}  OBVIOUS
<1> QED  BY <1>3, <1>4, <1>5 DEF SamplesPerPacket

\* A sequence in order stays below the bound on its items.
LEMMA OrderedType ==
  ASSUME NEW q \in Seq(Nat), NEW low \in Nat, NEW high \in Nat, Ordered(q, low, high)
  PROVE  q \in Seq(1..high)
<1>1. \A k \in 1..Len(q) : q[k] \in Nat /\ low < q[k] /\ q[k] <= high  BY DEF Ordered
<1>2. \A k \in 1..Len(q) : q[k] \in 1..high  BY <1>1
<1>3. Len(q) \in Nat /\ q = [k \in 1..Len(q) |-> q[k]]  OBVIOUS
<1> QED  BY <1>2, <1>3, IsASeq

\* So does what follows a part that was cut off in front.
LEMMA ChannelOrdered ==
  ASSUME NEW w \in Seq(Nat), NEW c \in Seq(Nat), NEW top \in Nat, Ordered(w \o c, 0, top)
  PROVE  Ordered(c, 0, top)
<1> DEFINE r == w \o c
<1>1. Len(w) \in Nat /\ Len(c) \in Nat /\ Len(r) = Len(w) + Len(c)
  BY ONLY w \in Seq(Nat), c \in Seq(Nat)
<1>2. ASSUME NEW k \in 1..Len(c) PROVE Len(w) + k \in 1..Len(r) /\ c[k] = r[Len(w) + k]
  <2>1. Len(w) + k \in Len(w) + 1..Len(w) + Len(c) /\ Len(w) + k - Len(w) = k
    BY <1>1, <1>2
  <2>2. r[Len(w) + k] = c[Len(w) + k - Len(w)]  BY <2>1, SecondPart
  <2> QED  BY <1>1, <2>1, <2>2
<1>3. Ordered(r, 0, top)  OBVIOUS
<1> HIDE DEF r
<1>4. \A k \in 1..Len(c) : 0 < c[k] /\ c[k] <= top  BY <1>2, <1>3 DEF Ordered
<1>5. ASSUME NEW j \in 1..Len(c), NEW k \in 1..Len(c), j < k PROVE c[j] < c[k]
  <2>1. Len(w) + j < Len(w) + k  BY <1>1, <1>5
  <2> QED  BY <1>2, <1>3, <2>1 DEF Ordered
<1> QED  BY <1>4, <1>5 DEF Ordered

\* What neither the queue nor the capture path speaks of.
RestTyped ==
  /\ captured \in 0..MaxCaptured /\ pending \in Nat /\ datagrams \in 0..MaxDatagrams
  /\ started \in BOOLEAN /\ running \in BOOLEAN
  /\ streams \subseteq {"capture", "playback"}
  /\ sender \in {"checking", "waiting", "ended", "failed"}
  /\ receiver \in {"checking", "waiting", "ended", "failed"}
  /\ main \in {"starting", "streaming", "joining sender", "joining receiver", "ok", "error"}

LEMMA BoundTypes ==
  CaptureSizes \subseteq Nat /\ MaxCaptured \in Nat /\ MaxDatagrams \in Nat
BY SizesAssumption

LEMMA RestStep == RestTyped /\ [Next]_vars => RestTyped'
<1> SUFFICES ASSUME RestTyped, [Next]_vars PROVE RestTyped'  OBVIOUS
<1>0. /\ captured \in 0..MaxCaptured /\ pending \in Nat /\ datagrams \in 0..MaxDatagrams
  BY DEF RestTyped
<1> USE DEF RestTyped, captureVars, arrivalVars, playbackVars, threadVars
<1>1. CASE Capture
  <2>1. CASE CutPacket
    <3>1. pending \in Nat /\ pending >= SamplesPerPacket  BY <2>1 DEF CutPacket
    <3>2. pending - SamplesPerPacket \in Nat  BY ONLY <3>1, PacketSizeType
    <3> QED  BY <2>1, <3>2 DEF CutPacket
  <2>2. ASSUME NEW n \in CaptureSizes, CaptureData(n) PROVE RestTyped'
    <3>1. captured + n <= MaxCaptured  BY <2>2 DEF CaptureData
    <3>2. captured + n \in 0..MaxCaptured /\ pending + n \in Nat
      BY ONLY <3>1, BoundTypes, <1>0, n \in CaptureSizes
    <3> QED  BY <2>2, <3>2 DEF CaptureData
  <2> QED  BY <1>1, <2>1, <2>2 DEF Capture
<1>2. CASE Callback
  <2>1. PICK n \in OutputSizes : Playback(n)  BY <1>2 DEF Callback
  <2>2. (started \/ Prebuffered) \in BOOLEAN  OBVIOUS
  <2>3. started' \in BOOLEAN  BY <2>1, <2>2 DEF Playback
  <2> QED  BY <2>1, <2>3 DEF Playback
<1>3. CASE Sender
  <2>1. CASE SenderSends  BY <2>1 DEF SenderSends
  <2>2. CASE SenderChecks \/ SenderTimeout \/ Disconnected
    BY <2>2 DEF SenderChecks, SenderTimeout, Disconnected, SenderMoves
  <2> QED  BY <1>3, <2>1, <2>2 DEF Sender
<1>4. CASE Receiver
  <2>1. CASE ReceiverChecks \/ ReceiverTimeout
    BY <2>1 DEF ReceiverChecks, ReceiverTimeout, ReceiverMoves, TimedOut
  <2>2. CASE ReceiverIgnores \/ \E f \in FrameCounts : ReceiverBuffers(f)
    <3>1. /\ datagrams < MaxDatagrams /\ datagrams' = datagrams + 1
          /\ receiver' = "checking"
          /\ UNCHANGED <<captured, pending, started, running, streams, sender, main>>
      BY <2>2 DEF ReceiverIgnores, ReceiverBuffers
    <3>2. datagrams' \in 0..MaxDatagrams
      BY ONLY <3>1, BoundTypes, <1>0
    <3> QED  BY <3>1, <3>2
  <2> QED  BY <1>4, <2>1, <2>2 DEF Receiver
<1>5. CASE Main
  BY <1>5 DEF Main, CaptureStarts, PlaybackStarts, DropStreams, JoinSender, JoinReceiver,
       JoinResult, MainMoves
<1>6. CASE Failure
  BY <1>6 DEF Failure, SenderFails, ReceiverFails, StartFails, SenderMoves, ReceiverMoves,
       MainMoves
<1>7. CASE CtrlC  BY <1>7 DEF CtrlC
<1>8. CASE UNCHANGED vars  BY <1>8 DEF vars
<1> QED  BY <1>1, <1>2, <1>3, <1>4, <1>5, <1>6, <1>7, <1>8 DEF Next

\* The invariant of the client: its queue, its capture path, its threads.
ClientInv ==
  QueueInv /\ OrderInv /\ lastPlayed <= received /\ CaptureInv /\ RestTyped

LEMMA ClientStep == ClientInv /\ [Next]_vars => ClientInv'
<1>1. CaptureInv /\ [Next]_vars => CaptureInv'  BY CaptureStepOfAll DEF CaptureStep
<1> QED  BY <1>1, QueueStep, OrderStep, RestStep DEF ClientInv

LEMMA ClientInit == Init => ClientInv
<1> SUFFICES ASSUME Init PROVE ClientInv  OBVIOUS
<1>1. queue = <<>> /\ lastPlayed = 0 /\ received = 0  BY DEF Init
<1>2. cut = 0 /\ channel = <<>> /\ wire = <<>>  BY DEF Init
<1>3. OrderInv /\ lastPlayed <= received  BY <1>1 DEF OrderInv, Ordered
<1>4. wire \o channel = <<>>  BY <1>2
<1>5. CaptureInv
  BY <1>2, <1>4, EmptySeq DEF CaptureInv, SentThenWaiting, Ordered
<1>6. started \in BOOLEAN  BY DEF Init
<1>7. RestTyped  BY <1>6, SizesAssumption DEF Init, RestTyped
<1> QED  BY <1>3, <1>5, <1>7, QueueInit DEF ClientInv

\* The types of the client.  That `channel`, `wire` and `queue` hold only what was
\* cut or received is a consequence of their order.
THEOREM ClientTypes == Spec => []TypeOK
<1>1. ClientInv => TypeOK
  <2> SUFFICES ASSUME ClientInv PROVE TypeOK  OBVIOUS
  <2>1. /\ queue \in Seq(Nat) /\ received \in Nat /\ lastPlayed \in Nat
        /\ Ordered(queue, lastPlayed, received) /\ lastPlayed <= received
    BY DEF ClientInv, QueueInv, OrderInv
  <2>2. queue \in Seq(1..received) /\ lastPlayed \in 0..received
    BY <2>1, OrderedType
  <2>3. /\ cut \in Nat /\ channel \in Seq(Nat) /\ wire \in Seq(Nat)
        /\ Ordered(wire \o channel, 0, cut)
    BY DEF ClientInv, CaptureInv, SentThenWaiting
  <2>4. Ordered(wire, 0, cut) /\ Ordered(channel, 0, cut)
    BY <2>3, Shortened, ChannelOrdered
  <2>5. wire \in Seq(1..cut) /\ channel \in Seq(1..cut)  BY <2>3, <2>4, OrderedType
  <2> QED  BY <2>1, <2>2, <2>3, <2>5 DEF TypeOK, ClientInv, RestTyped
<1> QED  BY <1>1, ClientInit, ClientStep, PTL DEF Spec
-----------------------------------------------------------------------------
(* Whole frames.                                                           *)

\* Division with remainder, and adding a multiple of the number of channels.
LEMMA Division ==
  ASSUME NEW C \in Nat \ {0}, NEW x \in Nat
  PROVE  x = C * (x \div C) + (x % C) /\ x % C \in 0..(C - 1) /\ x \div C \in Nat
BY SMTT(30)

LEMMA RemainderUnique ==
  ASSUME NEW C \in Nat \ {0}, NEW q \in Nat, NEW r \in 0..(C - 1)
  PROVE  (C * q + r) % C = r
BY SMTT(30)

LEMMA AddFrames ==
  ASSUME NEW x \in Nat, NEW y \in Nat, y % Channels = 0
  PROVE  (x + y) % Channels = x % Channels
<1> DEFINE C == Channels
           q == x \div C
           i == y \div C
           r == x % C
<1>0. C \in Nat \ {0}  BY FormatAssumption
<1>1. x = C * q + r /\ r \in 0..(C - 1) /\ q \in Nat  BY <1>0, Division
<1>2. y = C * i + (y % C) /\ i \in Nat  BY <1>0, Division
<1> HIDE DEF q, r, i
<1>3. y = C * i
  <2>1. C * i \in Nat  BY <1>0, <1>2
  <2> QED  BY <1>2, <2>1
<1> HIDE DEF C
<1>4. C * (q + i) = C * q + C * i /\ q + i \in Nat  BY <1>0, <1>1, <1>2
<1>5. C * q \in Nat /\ C * i \in Nat  BY <1>0, <1>1, <1>2
<1>6. x + y = C * (q + i) + r  BY <1>1, <1>3, <1>4, <1>5
<1>7. (C * (q + i) + r) % C = r  BY <1>0, <1>1, <1>4, RemainderUnique
<1> QED  BY <1>6, <1>7 DEF C, r

LEMMA FramesTimesChannels ==
  ASSUME NEW n \in Nat
  PROVE  (n * Channels) % Channels = 0
<1>1. Channels \in Nat \ {0}  BY FormatAssumption
<1>2. 0 \in 0..(Channels - 1)  BY <1>1
<1>3. (Channels * n + 0) % Channels = 0  BY <1>1, <1>2, RemainderUnique
<1>4. Channels * n + 0 = n * Channels  BY <1>1
<1> QED  BY <1>3, <1>4

\* A sequence of samples that starts with a first channel, changes channel with
\* every sample and ends with a last channel.
Frames(q) ==
  /\ Len(q) % Channels = 0
  /\ \A k \in 1..Len(q) : q[k] % Channels = k % Channels

LEMMA NoFrames == Frames(<<>>)
<1>1. (0 * Channels) % Channels = 0  BY FramesTimesChannels
<1>2. 0 * Channels = 0  BY FormatAssumption
<1> QED  BY <1>1, <1>2 DEF Frames

\* Dropping whole frames leaves whole frames.
LEMMA AfterFrames ==
  ASSUME NEW q \in Seq(Nat), Frames(q), NEW n \in 0..Len(q), n % Channels = 0
  PROVE  Frames(After(q, n))
<1>1. Len(q) \in Nat /\ n \in Nat /\ n <= Len(q)  OBVIOUS
<1> DEFINE r == After(q, n)
<1>2. Len(r) = Len(q) - n  BY AfterType
<1>3. \A k \in 1..Len(r) : r[k] = q[n + k]  BY AfterShifted
<1> HIDE DEF r
<1>4. Len(r) % Channels = 0
  <2>1. Len(r) \in Nat /\ Len(r) + n = Len(q)  BY <1>1, <1>2
  <2>2. (Len(r) + n) % Channels = Len(r) % Channels  BY <1>1, <2>1, AddFrames
  <2> QED  BY <2>1, <2>2 DEF Frames
<1>5. ASSUME NEW k \in 1..Len(r) PROVE r[k] % Channels = k % Channels
  <2>1. k \in Nat /\ n + k \in 1..Len(q) /\ n + k = k + n  BY <1>1, <1>2
  <2>2. q[n + k] % Channels = (k + n) % Channels  BY <2>1 DEF Frames
  <2>3. (k + n) % Channels = k % Channels  BY <1>1, <2>1, AddFrames
  <2> QED  BY <1>3, <2>2, <2>3
<1> QED  BY <1>4, <1>5 DEF Frames, r

\* So does appending the newest frames of a packet.
LEMMA NewestFrames ==
  ASSUME NEW q \in Seq(Nat), Frames(q), received \in Nat, received % Channels = 0,
         NEW n \in Nat, n % Channels = 0, NEW keep \in Nat, keep % Channels = 0, keep <= n
  PROVE  Frames(q \o NewestKept(n, keep))
<1> DEFINE new == NewestKept(n, keep)
           all == q \o new
           skip == received + n - keep
<1>1. new \in Seq(Nat) /\ Len(new) = keep  BY NewestType
<1>2. \A k \in 1..keep : new[k] = skip + k  BY DEF NewestKept
<1> HIDE DEF new
<1>3. Len(q) \in Nat /\ Len(all) = Len(q) + keep /\ \A k \in 1..Len(q) : all[k] = q[k]
  <2>1. Len(q) \in Nat /\ Len(q \o new) = Len(q) + Len(new)
    BY ONLY <1>1, q \in Seq(Nat)
  <2>2. \A k \in 1..Len(q) : (q \o new)[k] = q[k]  BY ONLY <1>1, q \in Seq(Nat)
  <2> QED  BY <1>1, <2>1, <2>2
<1>4. ASSUME NEW k \in Len(q) + 1..Len(q) + keep PROVE all[k] = new[k - Len(q)]
  <2>1. k \in Len(q) + 1..Len(q) + Len(new)  BY <1>1, <1>4
  <2> QED  BY <1>1, <2>1, SecondPart
<1> HIDE DEF all
<1>5. skip \in Nat /\ skip % Channels = 0
  <2>1. skip \in Nat /\ skip + keep = received + n  OBVIOUS
  <2> HIDE DEF skip
  <2>2. (skip + keep) % Channels = skip % Channels  BY <2>1, AddFrames
  <2>3. (received + n) % Channels = received % Channels  BY AddFrames
  <2> QED  BY <2>1, <2>2, <2>3
<1> HIDE DEF skip
<1>6. Len(all) % Channels = 0
  <2>1. (Len(q) + keep) % Channels = Len(q) % Channels  BY <1>3, AddFrames
  <2> QED  BY <1>3, <2>1 DEF Frames
<1>7. ASSUME NEW k \in 1..Len(all) PROVE all[k] % Channels = k % Channels
  <2>1. CASE k \in 1..Len(q)  BY <1>3, <2>1 DEF Frames
  <2>2. CASE k \notin 1..Len(q)
    <3> DEFINE j == k - Len(q)
    <3>1. k \in Len(q) + 1..Len(q) + keep /\ j \in 1..keep /\ k = j + Len(q)
      BY <1>3, <2>2
    <3>2. all[k] = skip + j  BY <1>2, <1>4, <3>1
    <3> HIDE DEF j
    <3>3. j \in Nat /\ skip + j = j + skip  BY <1>5, <3>1
    <3>4. (j + skip) % Channels = j % Channels  BY <1>5, <3>3, AddFrames
    <3>5. (j + Len(q)) % Channels = j % Channels  BY <1>3, <3>3, AddFrames DEF Frames
    <3> QED  BY <3>1, <3>2, <3>3, <3>4, <3>5
  <2> QED  BY <2>1, <2>2
<1> QED  BY <1>6, <1>7 DEF Frames, all, new

FramesInv == received % Channels = 0 /\ Frames(queue)

\* A limit of whole frames makes buffer_samples evict whole frames, and only then
\* keep whole frames of a packet longer than the limit.
LEMMA BuffersFrames ==
  ASSUME MaxPlaybackSamples % Channels = 0, QueueInv, FramesInv,
         NEW frames \in FrameCounts, ReceiverBuffers(frames)
  PROVE  FramesInv'
<1> DEFINE n == frames * Channels
           keep == IF n < MaxPlaybackSamples THEN n ELSE MaxPlaybackSamples
           kept == After(queue, Evict(keep))
<1>1. frames \in Nat  BY SamplesType
<1>2. n \in Nat /\ n % Channels = 0  BY <1>1, SizesType, FramesTimesChannels
<1>3. keep \in Nat /\ keep <= n /\ keep <= MaxPlaybackSamples /\ keep % Channels = 0
  <2> HIDE DEF n
  <2> QED  BY <1>2, SizesType
<1>4. queue' = kept \o NewestKept(n, keep) /\ received' = received + n
  BY DEF ReceiverBuffers
<1>5. queue \in Seq(Nat) /\ Len(queue) \in Nat /\ received \in Nat  BY DEF QueueInv
<1> HIDE DEF n, keep
<1>6. Evict(keep) \in 0..Len(queue)  BY <1>3, EvictEnough
<1>7. Evict(keep) % Channels = 0
  <2> DEFINE excess == Len(queue) + keep - MaxPlaybackSamples
  <2>1. \/ Evict(keep) = 0
        \/ Evict(keep) = Len(queue)
        \/ Evict(keep) = excess /\ excess \in Nat
    BY <1>3, <1>5, SizesType DEF Evict
  <2>2. CASE Evict(keep) = 0
    <3>1. Len(<<>>) % Channels = 0  BY NoFrames DEF Frames
    <3> QED  BY <2>2, <3>1
  <2>3. CASE Evict(keep) = Len(queue)  BY <2>3 DEF FramesInv, Frames
  <2>4. CASE Evict(keep) = excess /\ excess \in Nat
    <3>1. excess + MaxPlaybackSamples = Len(queue) + keep  BY <1>3, <1>5, SizesType
    <3> HIDE DEF excess
    <3>2. (excess + MaxPlaybackSamples) % Channels = excess % Channels
      BY <2>4, SizesType, AddFrames
    <3>3. (Len(queue) + keep) % Channels = Len(queue) % Channels
      BY <1>3, <1>5, AddFrames
    <3> QED  BY <2>4, <3>1, <3>2, <3>3 DEF FramesInv, Frames
  <2> QED  BY <2>1, <2>2, <2>3, <2>4
<1>8. kept \in Seq(Nat) /\ Frames(kept)
  BY <1>5, <1>6, <1>7, AfterType, AfterFrames DEF FramesInv
<1> HIDE DEF kept
<1>9. Frames(kept \o NewestKept(n, keep))
  BY <1>2, <1>3, <1>5, <1>8, NewestFrames DEF FramesInv
<1>10. (received + n) % Channels = 0  BY <1>2, <1>5, AddFrames DEF FramesInv
<1>11. Frames(queue')  BY <1>4, <1>9
<1> QED  BY <1>4, <1>10, <1>11 DEF FramesInv, Frames

\* The callback takes whole frames, because the device asks for whole frames.
LEMMA PlaybackFrames ==
  ASSUME QueueInv, FramesInv, NEW n \in OutputSizes, Playback(n)
  PROVE  FramesInv'
<1>1. n \in Nat /\ n % Channels = 0  BY SamplesType, FramesAssumption
<1>2. queue \in Seq(Nat) /\ Len(queue) \in Nat  BY DEF QueueInv
<1>3. received' = received /\ (queue' = Popped(n) \/ queue' = queue)
  BY DEF Playback, arrivalVars
<1>4. Frames(Popped(n))
  <2>1. CASE n < Len(queue)
    <3>1. n \in 0..Len(queue)  BY <1>1, <1>2, <2>1
    <3>2. Frames(After(queue, n))  BY <1>1, <1>2, <3>1, AfterFrames DEF FramesInv
    <3> QED  BY <2>1, <3>2 DEF Popped
  <2>2. CASE ~(n < Len(queue))  BY <2>2, NoFrames DEF Popped
  <2> QED  BY <2>1, <2>2
<1>5. Frames(queue')  BY <1>3, <1>4 DEF FramesInv
<1> QED  BY <1>3, <1>5 DEF FramesInv, Frames

LEMMA FramesKept ==
  ASSUME FramesInv, UNCHANGED <<queue, received>>
  PROVE  FramesInv'
BY DEF FramesInv, Frames

LEMMA FramesStep ==
  ASSUME MaxPlaybackSamples % Channels = 0, QueueInv, FramesInv, [Next]_vars
  PROVE  FramesInv'
<1> USE DEF arrivalVars
<1>1. CASE Callback  BY <1>1, PlaybackFrames DEF Callback
<1>2. CASE \E f \in FrameCounts : ReceiverBuffers(f)  BY <1>2, BuffersFrames
<1>3. CASE Capture  BY <1>3, FramesKept DEF Capture, CutPacket, CaptureData
<1>4. CASE Sender
  BY <1>4, FramesKept DEF Sender, SenderChecks, SenderSends, SenderTimeout, Disconnected,
       SenderMoves
<1>5. CASE ReceiverChecks \/ ReceiverTimeout \/ ReceiverIgnores
  BY <1>5, FramesKept DEF ReceiverChecks, ReceiverTimeout, ReceiverIgnores, ReceiverMoves
<1>6. CASE Main
  BY <1>6, FramesKept DEF Main, CaptureStarts, PlaybackStarts, DropStreams, JoinSender,
       JoinReceiver, MainMoves
<1>7. CASE Failure
  BY <1>7, FramesKept DEF Failure, SenderFails, ReceiverFails, StartFails, SenderMoves,
       ReceiverMoves, MainMoves
<1>8. CASE CtrlC  BY <1>8, FramesKept DEF CtrlC
<1>9. CASE UNCHANGED vars  BY <1>9, FramesKept DEF vars
<1> QED
  BY <1>1, <1>2, <1>3, <1>4, <1>5, <1>6, <1>7, <1>8, <1>9 DEF Next, Receiver

\* With a playback limit of whole frames every sample plays on its own channel,
\* through every eviction: rounding the limit is all that buffer_samples lacks.
THEOREM WholeFrames ==
  MaxPlaybackSamples % Channels = 0 => (Spec => []FramesWhole)
<1> SUFFICES ASSUME MaxPlaybackSamples % Channels = 0 PROVE Spec => []FramesWhole
  OBVIOUS
<1> DEFINE Inv == QueueInv /\ FramesInv
<1>1. Init => Inv
  <2> SUFFICES ASSUME Init PROVE Inv  OBVIOUS
  <2>1. queue = <<>> /\ received = Len(<<>>)  BY DEF Init
  <2> QED  BY <2>1, QueueInit, NoFrames DEF FramesInv, Frames
<1>2. Inv /\ [Next]_vars => Inv'  BY QueueStep, FramesStep
<1>3. Inv => FramesWhole
  <2> SUFFICES ASSUME Inv PROVE FramesWhole  OBVIOUS
  <2>1. queue \in Seq(Nat) /\ Frames(queue)  BY DEF QueueInv, FramesInv
  <2>2. ASSUME queue # <<>> PROVE Head(queue) % Channels = 1 % Channels
    <3>1. Head(queue) = queue[1] /\ 1 \in 1..Len(queue)  BY <2>1, <2>2
    <3> QED  BY <2>1, <3>1 DEF Frames
  <2> QED  BY <2>1, <2>2 DEF FramesWhole, Frames
<1> HIDE DEF Inv
<1> QED  BY <1>1, <1>2, <1>3, PTL DEF Spec
=============================================================================
