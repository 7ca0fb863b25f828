----------------------- MODULE TromboneService_proofs -----------------------
(***************************************************************************)
(* Proofs about TromboneService, for every value of its constants.         *)
(***************************************************************************)
EXTENDS TromboneService, SequenceTheorems, TLAPS

-----------------------------------------------------------------------------
(* The processor objects stay well-formed.                                 *)

LEMMA CreateType ==
  ASSUME NEW s, NEW n \in Names, \A m \in Live : s[m] \in Levels
  PROVE  Create(s, n) \in Object
BY DEF Create, LevelIn, Object

LEMMA HarvestedType ==
  ASSUME NEW s \in Object
  PROVE  Harvested(s) \in Object
BY ConcatProperties, EmptySeq DEF Harvested, Object

LEMMA AcceptedType ==
  ASSUME NEW s \in Object, NEW p \in Packets
  PROVE  Accepted(s, p) \in Object
<1> DEFINE input == Append(s.input, p)
<1>1. input \in Seq(Packets) BY DEF Object
<1>2. CASE s.task = "none" /\ Len(input) >= SegmentPackets
  <2>1. /\ SubSeq(input, 1, SegmentPackets) \in Seq(Packets)
        /\ SubSeq(input, SegmentPackets + 1, Len(input)) \in Seq(Packets)
    BY <1>1, <1>2, SizesAssumption, SubSeqProperties, LenProperties
  <2> QED BY <1>1, <1>2, <2>1 DEF Accepted, Object
<1>3. CASE ~(s.task = "none" /\ Len(input) >= SegmentPackets)
  BY <1>1, <1>3 DEF Accepted, Object
<1> QED BY <1>2, <1>3

LEMMA ReleaseType ==
  ASSUME NEW q \in Seq(Packets)
  PROVE  FirstOf(q) \in Seq(Packets) /\ RestOf(q) \in Seq(Packets)
BY HeadTailProperties DEF FirstOf, RestOf

LEMMA EndedType ==
  ASSUME NEW s \in Object
  PROVE  /\ Cleared(s) \in Object
         /\ Stopped(s) \in Object
         /\ Drained(s) \in Object
BY EmptySeq DEF Cleared, Stopped, Drained, Object

\* Every processor object in the initial state and after an update of one.
LEMMA ReplaceType ==
  ASSUME NEW f \in [Instances -> Object], NEW i \in Instances, NEW s \in Object
  PROVE  [f EXCEPT ![i] = s] \in [Instances -> Object]
OBVIOUS

LEMMA FunctionIsSeq ==
  ASSUME NEW S, NEW k \in Nat, NEW f \in [1..k -> S]
  PROVE  f \in Seq(S) /\ Len(f) = k
OBVIOUS

\* What is sent is a sequence of outputs, no longer than what was emitted.
LEMMA OnWireType ==
  ASSUME NEW outs \in Seq(Packets), NEW chosen \in Choices(Len(outs)),
         NEW via \in Packets \cup {NoPacket}
  PROVE  /\ Len(chosen) \in 0..Len(outs)
         /\ OnWire(outs, chosen, via) \in Seq([packet : Packets, via : Packets \cup {NoPacket}])
         /\ Len(OnWire(outs, chosen, via)) = Len(chosen)
<1>1. PICK k \in 0..Len(outs) : chosen \in [1..k -> 1..Len(outs)]
  BY DEF Choices
<1>2. Len(outs) \in Nat /\ k \in Nat
  BY LenProperties
<1>3. Len(chosen) = k
  BY <1>1, <1>2
<1>4. \A j \in 1..k : outs[chosen[j]] \in Packets
  BY <1>1, ElementOfSeq
<1>5. OnWire(outs, chosen, via) \in [1..k -> [packet : Packets, via : Packets \cup {NoPacket}]]
  BY <1>3, <1>4 DEF OnWire
<1>6. /\ OnWire(outs, chosen, via) \in Seq([packet : Packets, via : Packets \cup {NoPacket}])
      /\ Len(OnWire(outs, chosen, via)) = k
  BY <1>2, <1>5, FunctionIsSeq
<1> QED BY <1>2, <1>3, <1>6

-----------------------------------------------------------------------------
(* The queue of the lock.                                                  *)

LEMMA LockAppend ==
  ASSUME NEW q \in Seq(Contenders), Distinct(q), NEW t \in Contenders, t \notin ToSet(q)
  PROVE  /\ Append(q, t) \in Seq(Contenders)
         /\ Append(q, t) # <<>>
         /\ Distinct(Append(q, t))
         /\ ToSet(Append(q, t)) = ToSet(q) \cup {t}
         /\ q # <<>> => Head(Append(q, t)) = Head(q)
         /\ q = <<>> => Head(Append(q, t)) = t
<1> DEFINE r == Append(q, t)
<1>1. /\ r \in Seq(Contenders)
      /\ Len(q) \in Nat
      /\ Len(r) = Len(q) + 1
      /\ r[Len(q) + 1] = t
      /\ \A j \in 1..Len(q) : r[j] = q[j]
  OBVIOUS
<1>2. r # <<>>
  BY <1>1
<1>3. Distinct(r)
  <2> SUFFICES ASSUME NEW j \in 1..Len(r), NEW k \in 1..Len(r), r[j] = r[k]
               PROVE  j = k
    BY DEF Distinct
  <2>1. CASE j \in 1..Len(q) /\ k \in 1..Len(q)
    BY <1>1, <2>1 DEF Distinct
  <2>2. CASE j \notin 1..Len(q) \/ k \notin 1..Len(q)
    BY <1>1, <2>2 DEF ToSet
  <2> QED BY <2>1, <2>2
<1>4. ToSet(r) = ToSet(q) \cup {t}
  BY <1>1 DEF ToSet
<1>5. Head(r) = r[1]
  BY <1>1
<1> QED BY <1>1, <1>2, <1>3, <1>4, <1>5

LEMMA LockTail ==
  ASSUME NEW q \in Seq(Contenders), Distinct(q), q # <<>>
  PROVE  /\ Tail(q) \in Seq(Contenders)
         /\ Distinct(Tail(q))
         /\ ToSet(Tail(q)) = ToSet(q) \ {Head(q)}
         /\ Head(q) \in ToSet(q)
<1>1. /\ Tail(q) \in Seq(Contenders)
      /\ Len(q) \in Nat \ {0}
      /\ Len(Tail(q)) = Len(q) - 1
      /\ \A j \in 1..(Len(q) - 1) : Tail(q)[j] = q[j + 1]
      /\ Head(q) = q[1]
  BY HeadTailProperties, EmptySeq
<1>2. Distinct(Tail(q))
  BY <1>1 DEF Distinct
<1>3. ToSet(Tail(q)) \subseteq ToSet(q) \ {Head(q)}
  BY <1>1 DEF ToSet, Distinct
<1>4. ASSUME NEW t \in ToSet(q), t # Head(q)
      PROVE  t \in ToSet(Tail(q))
  <2>1. PICK k \in 1..Len(q) : q[k] = t
    BY DEF ToSet
  <2>2. k - 1 \in 1..(Len(q) - 1) /\ Tail(q)[k - 1] = t
    BY <1>1, <1>4, <2>1
  <2> QED BY <1>1, <2>2 DEF ToSet
<1>5. Head(q) \in ToSet(q)
  BY <1>1 DEF ToSet
<1> QED BY <1>1, <1>2, <1>3, <1>4, <1>5

-----------------------------------------------------------------------------
(* Settings stay well-formed.                                              *)

LEMMA ReplacedType ==
  ASSUME NEW s \in SettingsSet, NEW u \in Updates
  PROVE  Replaced(s, u) \in SettingsSet
<1>1. PICK K \in SUBSET Keys \ {{}} :
        u \in {v \in [K -> Names \cup Levels] :
                \A k \in K : v[k] \in IF k = "processor" THEN Names ELSE Levels}
  BY DEF Updates
<1>2. /\ DOMAIN u = K
      /\ K \subseteq Keys
      /\ \A k \in K : u[k] \in IF k = "processor" THEN Names ELSE Levels
  BY <1>1
<1>3. \A k \in Keys : s[k] \in IF k = "processor" THEN Names ELSE Levels
  BY DEF SettingsSet, Keys
<1>4. \A k \in Keys : Replaced(s, u)[k] \in IF k = "processor" THEN Names ELSE Levels
  BY <1>2, <1>3 DEF Replaced
<1>5. Replaced(s, u) \in [Keys -> Names \cup Levels]
  BY <1>4 DEF Replaced
<1>6. "processor" \in Keys /\ (\A n \in Live : n \in Keys /\ n # "processor")
  BY ConstantsAssumption DEF Keys
<1> QED BY <1>4, <1>5, <1>6 DEF SettingsSet

LEMMA NamedType ==
  ASSUME NEW s \in SettingsSet, NEW n \in Names
  PROVE  [s EXCEPT !["processor"] = n] \in SettingsSet
BY ConstantsAssumption DEF SettingsSet, Keys

-----------------------------------------------------------------------------
(* The inductive invariant.                                                *)

\* The worker has a packet from its get() to the end of the round.
WorkerHolds == worker \in {"locking", "sleeping"} <=> packet # NoPacket

\* start() creates the worker, and once stop() has cancelled it there is no
\* request in flight.
StopOrder ==
  /\ lifecycle = "new" => worker = "none"
  /\ cancelled => /\ lifecycle \in {"joining", "closing", "stopped", "stopFailed"}
                  /\ \A h \in Handlers : pc[h] = "idle"

IInv == TypeOK /\ WorkerHolds /\ LockDiscipline /\ StopOrder

\* The owner of the lock is in its queue; so a release removes its owner.
LEMMA OwnerInLock ==
  ASSUME TypeOK, NEW t, Owns(t)
  PROVE  lock # <<>> /\ Head(lock) = t /\ t \in ToSet(lock)
<1>1. lock \in Seq(Contenders) /\ lock # <<>> /\ Head(lock) = t
  BY DEF Owns, TypeOK
<1>2. Len(lock) \in Nat \ {0} /\ lock[1] = t
  BY <1>1, EmptySeq
<1> QED BY <1>1, <1>2 DEF ToSet

LEMMA InitIInv == Init => IInv
<1> SUFFICES ASSUME Init PROVE IInv
  OBVIOUS
<1>1. Startup \in SettingsSet /\ (\A n \in Live : Startup[n] \in Levels)
  BY ConstantsAssumption DEF SettingsSet
<1>2. Startup["processor"] \in Names
  BY <1>1 DEF SettingsSet
<1>3. Create(Startup, Startup["processor"]) \in Object
  BY <1>1, <1>2, CreateType
<1>4. NoProcessor \in Object
  BY <1>3 DEF NoProcessor, Object
<1>5. processors \in [Instances -> Object]
  BY <1>3, <1>4 DEF Init
<1>6. request \in [Handlers -> [kind : {"none", "select", "update", "reset"},
                               inst : Instances, old : Instances,
                               candidate : SettingsSet]]
  BY <1>1, SizesAssumption DEF Init, Instances
<1>7. TypeOK
  <2>1. metrics \in Counters /\ metrics.received <= MaxPackets
    BY SizesAssumption DEF Init, Counters
  <2>2. /\ queue \in Seq(Packets)
        /\ lock \in Seq(Contenders)
        /\ wire \in Seq([packet : Packets, via : Packets \cup {NoPacket}])
    BY EmptySeq DEF Init
  <2>3. current \in Instances /\ requests \in 0..MaxRequests
    BY SizesAssumption DEF Init, Instances
  <2>4. registry \in [Live -> Levels]
    BY <1>1 DEF Init
  <2> QED BY <1>1, <1>5, <1>6, <2>1, <2>2, <2>3, <2>4 DEF Init, TypeOK
<1>8. ToSet(lock) = {} /\ Distinct(lock)
  BY EmptySeq DEF Init, ToSet, Distinct
<1>9. LockDiscipline
  BY <1>8 DEF Init, LockDiscipline
<1> QED BY <1>7, <1>9 DEF Init, IInv, WorkerHolds, StopOrder, NoPacket

-----------------------------------------------------------------------------
(* Pieces shared by several actions.                                       *)

OutputSet == [packet : Packets, via : Packets \cup {NoPacket}]

\* Counting n outputs, k of them sent, and putting those on the wire.
LEMMA EmittedType ==
  ASSUME metrics \in Counters, NEW n \in Nat, NEW k \in 0..n
  PROVE  /\ Emitted(metrics, n, k) \in Counters
         /\ Emitted(metrics, n, k).received = metrics.received
         /\ [Emitted(metrics, n, k) EXCEPT !.processed = @ + 1] \in Counters
         /\ [Emitted(metrics, n, k) EXCEPT !.processed = @ + 1].received = metrics.received
<1>1. n - k \in Nat /\ k \in Nat
  OBVIOUS
<1>2. /\ metrics.emitted + n \in Nat
      /\ metrics.forwarded + k \in Nat
      /\ metrics.forwardingErrors + (n - k) \in Nat
      /\ metrics.processed + 1 \in Nat
  BY <1>1 DEF Counters
<1> QED BY <1>2 DEF Emitted, Counters

LEMMA FinishedType ==
  ASSUME TypeOK, NEW outs \in Seq(Packets), Finished(outs)
  PROVE  /\ metrics' \in Counters
         /\ metrics'.received = metrics.received
         /\ wire' \in Seq(OutputSet)
<1>1. PICK chosen \in Choices(Len(outs)) :
        /\ metrics' = [Emitted(metrics, Len(outs), Len(chosen)) EXCEPT !.processed = @ + 1]
        /\ wire' = wire \o OnWire(outs, chosen, packet)
  BY DEF Finished
<1>2. /\ Len(chosen) \in 0..Len(outs)
      /\ OnWire(outs, chosen, packet) \in Seq(OutputSet)
  BY OnWireType DEF TypeOK, OutputSet
<1>3. wire \in Seq(OutputSet)
  BY DEF TypeOK, OutputSet
<1> QED BY <1>1, <1>2, <1>3, EmittedType, LenProperties, ConcatProperties DEF TypeOK

LEMMA FlushType ==
  ASSUME TypeOK, NEW outs \in Seq(Packets), Flush(outs)
  PROVE  /\ metrics' \in Counters
         /\ metrics'.received = metrics.received
         /\ wire' \in Seq(OutputSet)
<1>1. PICK chosen \in Choices(Len(outs)) :
        /\ metrics' = Emitted(metrics, Len(outs), Len(chosen))
        /\ wire' = wire \o OnWire(outs, chosen, LastSender)
  BY DEF Flush
<1>2. LastSender \in Packets \cup {NoPacket}
  BY SizesAssumption DEF TypeOK, LastSender, Counters, Packets, NoPacket
<1>3. /\ Len(chosen) \in 0..Len(outs)
      /\ OnWire(outs, chosen, LastSender) \in Seq(OutputSet)
  BY <1>2, OnWireType DEF OutputSet
<1>4. wire \in Seq(OutputSet)
  BY DEF TypeOK, OutputSet
<1> QED BY <1>1, <1>3, <1>4, EmittedType, LenProperties, ConcatProperties DEF TypeOK

LEMMA AcquireType ==
  ASSUME TypeOK, LockDiscipline, NEW t \in Contenders, t \notin ToSet(lock), Acquire(t)
  PROVE  /\ lock' \in Seq(Contenders)
         /\ turn' \in Tasks \cup {"loop"}
BY LockAppend DEF TypeOK, LockDiscipline, Acquire, Tasks

LEMMA UnlockType ==
  ASSUME TypeOK, LockDiscipline, lock # <<>>, Release
  PROVE  lock' \in Seq(Contenders)
BY LockTail DEF TypeOK, LockDiscipline, Release

-----------------------------------------------------------------------------
(* Every action preserves the type invariant.                              *)

LEMMA IngressType == IInv /\ Ingress => TypeOK'
<1> SUFFICES ASSUME IInv, Ingress PROVE TypeOK'
  OBVIOUS
<1> USE DEF IInv
<1>0. /\ metrics \in Counters
      /\ metrics.received \in Nat /\ metrics.received <= MaxPackets
      /\ metrics.enqueued \in Nat /\ metrics.dropped \in Nat
      /\ metrics.highWatermark \in Nat
  BY DEF TypeOK, Counters
<1>1. CASE DatagramReceived
  <2>1. metrics.received + 1 \in Packets
    BY <1>0, <1>1, SizesAssumption DEF DatagramReceived, Packets
  <2>2. Append(queue, metrics.received + 1) \in Seq(Packets)
    BY <2>1 DEF TypeOK
  <2>3. queue' \in Seq(Packets)
    BY <1>1, <2>2 DEF DatagramReceived, TypeOK
  <2>4. Len(queue) \in Nat
    BY LenProperties DEF TypeOK
  <2>5. metrics' \in Counters /\ metrics'.received <= MaxPackets
    <3>1. metrics.received + 1 \in Nat /\ metrics.received + 1 <= MaxPackets
      BY <1>0, <1>1, SizesAssumption DEF DatagramReceived
    <3>2. CASE Fits
      <4>1. metrics.enqueued + 1 \in Nat /\ Len(queue) + 1 \in Nat
        BY <1>0, <2>4
      <4>2. PICK w \in Nat :
              metrics' = [metrics EXCEPT !.received = metrics.received + 1,
                            !.enqueued = @ + 1, !.highWatermark = w]
        BY <1>0, <1>1, <3>2, <4>1 DEF DatagramReceived
      <4> QED BY <1>0, <3>1, <4>1, <4>2 DEF Counters
    <3>3. CASE ~Fits
      <4>1. metrics' = [metrics EXCEPT !.received = metrics.received + 1, !.dropped = @ + 1]
        BY <1>1, <3>3 DEF DatagramReceived
      <4>2. metrics.dropped + 1 \in Nat
        BY <1>0
      <4> QED BY <1>0, <3>1, <4>1, <4>2 DEF Counters
    <3> QED BY <3>2, <3>3
  <2> QED BY <1>1, <2>3, <2>5
    DEF DatagramReceived, TypeOK, othersVars, controlVars, handlerVars, serviceVars
<1>2. CASE OversizedReceived
  <2>1. metrics' \in Counters /\ metrics'.received <= MaxPackets
    BY <1>0, <1>2 DEF OversizedReceived, Counters
  <2> QED BY <1>2, <2>1
    DEF OversizedReceived, TypeOK, othersVars, controlVars, handlerVars, serviceVars
<1> QED BY <1>1, <1>2 DEF Ingress

LEMMA NextRoundType ==
  ASSUME IInv, NextRound, lock # <<>>, metrics' \in Counters,
         metrics'.received <= MaxPackets, wire' \in Seq(OutputSet),
         processors' \in [Instances -> Object]
  PROVE  TypeOK'
<1>1. lock' \in Seq(Contenders)
  BY UnlockType DEF IInv, NextRound
<1>2. worker' = "getting" /\ packet' = NoPacket /\ turn' \in Tasks \cup {"loop"}
  BY DEF NextRound, LoopState, Contenders, Tasks
<1> QED BY <1>1, <1>2
  DEF IInv, TypeOK, NextRound, OutputSet, othersVars, controlVars, handlerVars, serviceVars

LEMMA WorkerType == IInv /\ Worker => TypeOK'
<1> SUFFICES ASSUME IInv, Worker PROVE TypeOK'
  OBVIOUS
<1> USE DEF IInv
<1>1. CASE WorkerGet
  <2>1. Head(queue) \in Packets /\ Tail(queue) \in Seq(Packets)
    BY <1>1, HeadTailProperties DEF WorkerGet, TypeOK
  <2>2. "worker" \in Contenders /\ "worker" \notin ToSet(lock)
    BY <1>1 DEF WorkerGet, LockDiscipline, Contenders
  <2>3. lock' \in Seq(Contenders) /\ turn' \in Tasks \cup {"loop"}
    BY <1>1, <2>2, AcquireType DEF WorkerGet
  <2> QED BY <1>1, <2>1, <2>3
    DEF WorkerGet, TypeOK, othersVars, controlVars, handlerVars, serviceVars
<1>2. ASSUME Processing \/ worker = "sleeping"
      PROVE  lock # <<>> /\ packet \in Packets /\ <<packet>> \in Seq(Packets)
  BY <1>2 DEF Processing, Owns, LockDiscipline, WorkerHolds, TypeOK
<1>3. CASE ProcessDirect
  <2>1. PICK outs \in Seq(Packets) : Finished(outs)
    BY <1>2, <1>3, EmptySeq DEF ProcessDirect
  <2> QED BY <1>2, <1>3, <2>1, FinishedType, NextRoundType DEF ProcessDirect, TypeOK
<1>4. CASE ProcessDelay
  BY <1>4 DEF ProcessDelay, TypeOK, othersVars, controlVars, handlerVars, serviceVars
<1>5. CASE WorkerWakes
  BY <1>2, <1>5, FinishedType, NextRoundType DEF WorkerWakes, TypeOK
<1>6. CASE ProcessSegmented
  <2> DEFINE s == Accepted(Harvested(processors[current]), packet)
  <2>1. processors[current] \in Object /\ current \in Instances
    BY DEF TypeOK
  <2>2. s \in Object
    BY <1>2, <1>6, <2>1, HarvestedType, AcceptedType DEF ProcessSegmented
  <2>3. s.ready \in Seq(Packets)
    BY <2>2 DEF Object
  <2>4. [s EXCEPT !.ready = RestOf(@)] \in Object
    BY <2>2, <2>3, ReleaseType DEF Object
  <2>5. processors' \in [Instances -> Object]
    BY <1>6, <2>1, <2>4, ReplaceType DEF ProcessSegmented, TypeOK
  <2>6. FirstOf(s.ready) \in Seq(Packets) /\ Finished(FirstOf(s.ready))
    BY <1>6, <2>3, ReleaseType DEF ProcessSegmented
  <2> QED BY <1>2, <1>6, <2>5, <2>6, FinishedType, NextRoundType DEF ProcessSegmented, TypeOK
<1>7. CASE ProcessError
  <2>1. processors' \in [Instances -> Object]
    BY <1>7, HarvestedType, ReplaceType DEF ProcessError, TypeOK
  <2>2. metrics' \in Counters /\ metrics'.received <= MaxPackets
    <3>1. metrics \in Counters /\ metrics.received <= MaxPackets
      BY DEF TypeOK
    <3>2. metrics.processorErrors + 1 \in Nat
      BY <3>1 DEF Counters
    <3> QED BY <1>7, <3>1, <3>2 DEF ProcessError, ErrorCounted, Counters
  <2> QED BY <1>2, <1>7, <2>1, <2>2, NextRoundType DEF ProcessError, TypeOK, OutputSet
<1>8. CASE WorkerCancelled
  <2>1. lock' \in Seq(Contenders)
    <3>1. CASE worker = "getting"
      BY <1>8, <3>1 DEF WorkerCancelled, TypeOK
    <3>2. CASE worker # "getting"
      <4>1. "worker" \in ToSet(lock)
        BY <1>8, <3>2 DEF WorkerCancelled, LockDiscipline
      <4>2. lock # <<>>
        BY <4>1 DEF ToSet
      <4> QED BY <1>8, <3>2, <4>2, HeadTailProperties DEF WorkerCancelled, TypeOK
    <3> QED BY <3>1, <3>2
  <2> QED BY <1>8, <2>1
    DEF WorkerCancelled, CancelEnds, TypeOK, othersVars, controlVars, handlerVars, serviceVars
<1> QED BY <1>1, <1>3, <1>4, <1>5, <1>6, <1>7, <1>8 DEF Worker

LEMMA InferenceType ==
  ASSUME IInv, NEW i \in Instances, InferenceEnds(i)
  PROVE  TypeOK'
<1>1. PICK outcome \in {"done", "failed"} : processors' = [processors EXCEPT ![i].task = outcome]
  BY DEF InferenceEnds
<1>2. [processors[i] EXCEPT !.task = outcome] \in Object
  <2>1. processors[i] \in Object
    BY DEF IInv, TypeOK
  <2> QED BY <2>1 DEF Object
<1>3. processors' \in [Instances -> Object]
  BY <1>1, <1>2 DEF IInv, TypeOK
<1> QED BY <1>3
  DEF IInv, InferenceEnds, TypeOK, mediaVars, othersVars, controlVars, handlerVars, serviceVars

\* The parts of TypeOK that control requests disturb, and those they do not.
MediaType ==
  /\ queue \in Seq(Packets) /\ oversized \in Nat
  /\ worker \in {"none", "getting", "locking", "sleeping", "ended"}
  /\ packet \in Packets \cup {NoPacket}
  /\ metrics \in Counters /\ metrics.received <= MaxPackets
  /\ wire \in Seq(OutputSet)
ServiceType ==
  /\ lifecycle \in {"new", "running", "joining", "closing", "stopped", "stopFailed",
                     "failed"}
  /\ transport \in BOOLEAN
  /\ cancelled \in BOOLEAN
ControlType ==
  settings \in SettingsSet /\ registry \in [Live -> Levels] /\ current \in Instances
Requests == [kind : {"none", "select", "update", "reset"},
             inst : Instances, old : Instances, candidate : SettingsSet]
HandlerType ==
  /\ pc \in [Handlers -> {"idle", "starting", "locking", "stopping", "resetting"}]
  /\ request \in [Handlers -> Requests]
  /\ requests \in 0..MaxRequests
LockType == lock \in Seq(Contenders) /\ turn \in Tasks \cup {"loop"}
ObjectType == processors \in [Instances -> Object]

LEMMA TypeParts ==
  TypeOK <=> MediaType /\ ServiceType /\ ControlType /\ HandlerType /\ LockType /\ ObjectType
BY DEF TypeOK, MediaType, ServiceType, ControlType, HandlerType, LockType, ObjectType,
       OutputSet, Requests

LEMMA TypePartsNext ==
  MediaType' /\ ServiceType' /\ ControlType' /\ HandlerType' /\ LockType' /\ ObjectType'
  => TypeOK'
BY DEF TypeOK, MediaType, ServiceType, ControlType, HandlerType, LockType, ObjectType,
       OutputSet, Requests

LEMMA KeptTypes ==
  ASSUME TypeOK
  PROVE  /\ UNCHANGED mediaVars => MediaType'
         /\ UNCHANGED serviceVars => ServiceType'
         /\ UNCHANGED controlVars => ControlType'
         /\ UNCHANGED processors => ObjectType'
<1>1. MediaType /\ ServiceType /\ ControlType /\ ObjectType
  BY TypeParts
<1>2. UNCHANGED mediaVars => MediaType'
  BY <1>1 DEF MediaType, mediaVars, OutputSet
<1>3. UNCHANGED serviceVars => ServiceType'
  BY <1>1 DEF ServiceType, serviceVars
<1>4. UNCHANGED controlVars => ControlType'
  BY <1>1 DEF ControlType, controlVars
<1>5. UNCHANGED processors => ObjectType'
  BY <1>1 DEF ObjectType
<1> QED BY <1>2, <1>3, <1>4, <1>5

LEMMA ConstructType ==
  ASSUME IInv, NEW h \in Handlers, NEW kind \in {"select", "update"},
         NEW s, \A n \in Live : s[n] \in Levels,
         NEW n \in Names, NEW candidate \in SettingsSet,
         Construct(h, kind, s, n, candidate)
  PROVE  TypeOK'
<1>0. TypeOK /\ HandlerType /\ LockType /\ ObjectType
  BY TypeParts DEF IInv
<1>1. requests + 1 \in Instances /\ requests' \in 0..MaxRequests /\ 0 \in Instances
  BY <1>0, SizesAssumption DEF Construct, HandlerType, Instances
<1>2. ObjectType'
  BY <1>0, <1>1, CreateType, ReplaceType DEF Construct, ObjectType
<1>3. [kind |-> kind, inst |-> requests + 1, old |-> 0, candidate |-> candidate] \in Requests
  BY <1>1 DEF Requests
<1>4. HandlerType'
  BY <1>0, <1>1, <1>3 DEF Construct, HandlerType
<1>5. LockType'
  BY <1>0 DEF Construct, LockType, Contenders, Tasks
<1> QED BY <1>0, <1>2, <1>4, <1>5, KeptTypes, TypePartsNext DEF Construct

LEMMA BeginType ==
  ASSUME IInv, NEW h \in Handlers, Begin(h)
  PROVE  TypeOK'
<1>0. TypeOK /\ LockDiscipline /\ HandlerType /\ LockType /\ ObjectType /\ ControlType
  BY TypeParts DEF IInv
<1>1. CASE \E n \in Selectable : BeginSelect(h, n)
  <2>1. PICK n \in Selectable : Construct(h, "select", registry, n, Startup)
    BY <1>1 DEF BeginSelect
  <2>2. (\A m \in Live : registry[m] \in Levels) /\ n \in Names /\ Startup \in SettingsSet
    BY <1>0, ConstantsAssumption DEF ControlType
  <2> QED BY <2>1, <2>2, ConstructType
<1>2. CASE \E u \in Updates : LiveApply(h, u)
  <2>1. PICK u \in Updates : LiveApply(h, u)
    BY <1>2
  <2>2. settings' \in SettingsSet
    BY <1>0, <2>1, ReplacedType DEF LiveApply, ControlType
  <2>3. processors[current] \in Object /\ current \in Instances
    BY <1>0 DEF ObjectType, ControlType
  <2>4. processors[current].name \in DOMAIN u /\ processors[current].name # "processor"
    BY <2>1, <2>3, ConstantsAssumption DEF LiveApply, LiveRule, Object
  <2>5. u[processors[current].name] \in Levels
    BY <2>4 DEF Updates
  <2>6. [processors[current] EXCEPT !.level = u[processors[current].name]] \in Object
    BY <2>3, <2>5 DEF Object
  <2>7. ObjectType'
    BY <1>0, <2>1, <2>3, <2>6 DEF LiveApply, ObjectType
  <2>8. ControlType'
    BY <1>0, <2>1, <2>2 DEF LiveApply, ControlType
  <2>9. HandlerType' /\ LockType'
    BY <1>0, <2>1 DEF LiveApply, HandlerType, LockType, handlerVars
  <2> QED BY <1>0, <2>1, <2>7, <2>8, <2>9, KeptTypes, TypePartsNext DEF LiveApply
<1>3. CASE \E u \in Updates : BeginUpdate(h, u)
  <2>1. PICK u \in Updates : BeginUpdate(h, u)
    BY <1>3
  <2> DEFINE candidate == Replaced(settings, u)
  <2>2. candidate \in SettingsSet
    BY <1>0, ReplacedType DEF ControlType
  <2>3. candidate["processor"] \in Names /\ \A n \in Live : candidate[n] \in Levels
    BY <2>2 DEF SettingsSet
  <2> HIDE DEF candidate
  <2>4. Construct(h, "update", candidate, candidate["processor"], candidate)
    BY <2>1 DEF BeginUpdate, candidate
  <2> QED BY <2>2, <2>3, <2>4, ConstructType
<1>4. CASE BeginRestore(h)
  <2>1. /\ Startup \in SettingsSet /\ Startup["processor"] \in Names
        /\ \A n \in Live : Startup[n] \in Levels
    BY ConstantsAssumption DEF SettingsSet
  <2> QED BY <1>4, <2>1, ConstructType DEF BeginRestore
<1>5. CASE BeginReset(h)
  <2>1. h \in Contenders /\ h \notin ToSet(lock)
    BY <1>0, <1>5 DEF BeginReset, CanBegin, LockDiscipline, Contenders
  <2>2. LockType'
    BY <1>0, <1>5, <2>1, AcquireType DEF BeginReset, LockType
  <2>3. [kind |-> "reset", inst |-> 0, old |-> 0, candidate |-> Startup] \in Requests
    BY ConstantsAssumption, SizesAssumption DEF Requests, Instances
  <2>4. requests' \in 0..MaxRequests
    BY <1>0, <1>5, SizesAssumption DEF BeginReset, HandlerType
  <2>5. HandlerType'
    BY <1>0, <1>5, <2>3, <2>4 DEF BeginReset, HandlerType
  <2> QED BY <1>0, <1>5, <2>2, <2>5, KeptTypes, TypePartsNext DEF BeginReset
<1> QED BY <1>1, <1>2, <1>3, <1>4, <1>5 DEF Begin

\* The end of a handler, and the objects a step changes one field of.
LEMMA FinishType ==
  ASSUME HandlerType, NEW h \in Handlers, Finish(h)
  PROVE  HandlerType'
BY DEF Finish, HandlerType

LEMMA PhaseType ==
  ASSUME ObjectType, NEW i \in Instances,
         NEW ph \in {"absent", "created", "discarded", "started", "installed", "stopped"}
  PROVE  [processors EXCEPT ![i].phase = ph] \in [Instances -> Object]
<1>1. processors[i] \in Object
  BY DEF ObjectType
<1>2. [processors[i] EXCEPT !.phase = ph] \in Object
  BY <1>1 DEF Object
<1> QED BY <1>2 DEF ObjectType

LEMMA HandleType ==
  ASSUME IInv, NEW h \in Handlers, Handle(h)
  PROVE  TypeOK'
<1>0. /\ TypeOK /\ LockDiscipline
      /\ MediaType /\ HandlerType /\ LockType /\ ObjectType /\ ControlType
  BY TypeParts DEF IInv
<1>a. /\ request[h].inst \in Instances /\ request[h].old \in Instances
      /\ request[h].candidate \in SettingsSet /\ current \in Instances
      /\ request[h] \in Requests
  BY <1>0 DEF HandlerType, Requests, ControlType
<1>b. processors[current] \in Object
  BY <1>0, <1>a DEF ObjectType
<1>1. CASE StartFails(h)
  <2>1. ObjectType'
    BY <1>0, <1>1, <1>a, PhaseType DEF StartFails, ObjectType
  <2>2. HandlerType' /\ LockType'
    BY <1>0, <1>1, FinishType DEF StartFails, LockType
  <2> QED BY <1>0, <1>1, <2>1, <2>2, KeptTypes, TypePartsNext DEF StartFails
<1>2. CASE Started(h)
  <2>1. ObjectType'
    BY <1>0, <1>2, <1>a, PhaseType DEF Started, StartAwaited, ObjectType
  <2>2. h \in Contenders /\ h \notin ToSet(lock)
    BY <1>0, <1>2 DEF Started, LockDiscipline, Contenders
  <2>3. LockType'
    BY <1>0, <1>2, <2>2, AcquireType DEF Started, LockType
  <2>4. HandlerType'
    BY <1>0, <1>2 DEF Started, HandlerType
  <2> QED BY <1>0, <1>2, <2>1, <2>3, <2>4, KeptTypes, TypePartsNext DEF Started
<1>3. CASE FlushFails(h)
  <2>1. ObjectType'
    BY <1>0, <1>3, <1>a, <1>b, HarvestedType, ReplaceType DEF FlushFails, ObjectType
  <2>2. LockType'
    BY <1>0, <1>3, UnlockType DEF FlushFails, InLock, Owns, LockType
  <2>3. HandlerType'
    BY <1>0, <1>3, FinishType DEF FlushFails
  <2> QED BY <1>0, <1>3, <2>1, <2>2, <2>3, KeptTypes, TypePartsNext DEF FlushFails, NotInstalled
<1>4. CASE Switch(h)
  <2> DEFINE old == Harvested(processors[current])
  <2>1. old \in Object /\ Drained(old) \in Object /\ old.ready \in Seq(Packets)
    BY <1>b, HarvestedType, EndedType DEF Object
  <2>2. [processors EXCEPT ![request[h].inst].phase = "installed"] \in [Instances -> Object]
    BY <1>0, <1>a, PhaseType
  <2>3. [[processors EXCEPT ![request[h].inst].phase = "installed"]
            EXCEPT ![current] = Drained(old)] \in [Instances -> Object]
    BY <1>a, <2>1, <2>2, ReplaceType
  <2>4. ObjectType'
    BY <1>4, <2>3 DEF Switch, ObjectType
  <2>5. Flush(old.ready)
    BY <1>4 DEF Switch
  <2>6. MediaType'
    BY <1>0, <1>4, <2>1, <2>5, FlushType DEF Switch, MediaType, OutputSet
  <2>7. [n \in Live |-> request[h].candidate[n]] \in [Live -> Levels]
    BY <1>a DEF SettingsSet
  <2>8. ControlType'
    BY <1>0, <1>4, <1>a, <2>7 DEF Switch, ControlType
  <2>9. HandlerType'
    <3>1. [request[h] EXCEPT !.old = current] \in Requests
      BY <1>a DEF Requests
    <3> QED BY <1>0, <1>4, <3>1 DEF Switch, HandlerType
  <2>10. LockType'
    BY <1>0, <1>4 DEF Switch, LockType, Contenders, Tasks
  <2> QED BY <1>0, <1>4, <2>4, <2>6, <2>8, <2>9, <2>10, KeptTypes, TypePartsNext DEF Switch
<1>5. CASE OldStopped(h)
  <2>1. ObjectType'
    BY <1>0, <1>5, <1>a, EndedType, ReplaceType DEF OldStopped, ObjectType
  <2>2. Owns(h)
    BY <1>0, <1>5 DEF OldStopped, LockDiscipline
  <2>3. LockType'
    BY <1>0, <1>5, <2>2, UnlockType DEF OldStopped, Owns, LockType
  <2>4. processors[request[h].inst].name \in Names
    BY <1>0, <1>a DEF ObjectType, Object
  <2>5. settings' \in SettingsSet
    BY <1>0, <1>5, <2>4, NamedType DEF OldStopped, NameRecorded, ControlType
  <2>6. ControlType'
    BY <1>0, <1>5, <2>5 DEF OldStopped, ControlType
  <2>7. HandlerType'
    BY <1>0, <1>5, FinishType DEF OldStopped
  <2> QED BY <1>0, <1>5, <2>1, <2>3, <2>6, <2>7, KeptTypes, TypePartsNext DEF OldStopped
<1>6. CASE ResetCancels(h)
  <2>1. [processors[current] EXCEPT !.task = "cancelled"] \in Object
    BY <1>b DEF Object
  <2>2. ObjectType'
    BY <1>0, <1>6, <1>a, <2>1 DEF ResetCancels, ObjectType
  <2>3. HandlerType' /\ LockType'
    BY <1>0, <1>6 DEF ResetCancels, HandlerType, LockType
  <2> QED BY <1>0, <1>6, <2>2, <2>3, KeptTypes, TypePartsNext DEF ResetCancels
<1>7. CASE ResetClears(h)
  <2>1. ObjectType'
    BY <1>0, <1>7, <1>a, <1>b, EndedType, ReplaceType DEF ResetClears, ObjectType
  <2>2. Owns(h)
    BY <1>0, <1>7 DEF ResetClears, InLock, LockDiscipline
  <2>3. LockType'
    BY <1>0, <1>7, <2>2, UnlockType DEF ResetClears, Owns, LockType
  <2>4. HandlerType'
    BY <1>0, <1>7, FinishType DEF ResetClears
  <2> QED BY <1>0, <1>7, <2>1, <2>3, <2>4, KeptTypes, TypePartsNext DEF ResetClears
<1> QED BY <1>1, <1>2, <1>3, <1>4, <1>5, <1>6, <1>7 DEF Handle

\* start() and stop().
LEMMA LifecycleType ==
  ASSUME IInv, Start \/ StartupFails \/ StopBegins \/ Stop
  PROVE  TypeOK'
<1>0. /\ TypeOK /\ MediaType /\ HandlerType /\ LockType /\ ObjectType /\ ControlType
      /\ ServiceType /\ current \in Instances /\ 0 \in Instances
      /\ processors[current] \in Object
  BY TypeParts, SizesAssumption DEF IInv, ControlType, ObjectType, Instances
<1>1. CASE Start
  <2>1. ObjectType'
    BY <1>0, <1>1, PhaseType DEF Start, ObjectType
  <2>2. MediaType' /\ ServiceType' /\ HandlerType' /\ LockType'
    BY <1>0, <1>1
    DEF Start, MediaType, ServiceType, HandlerType, LockType, handlerVars
  <2> QED BY <1>0, <1>1, <2>1, <2>2, KeptTypes, TypePartsNext DEF Start
<1>2. CASE StartupFails
  <2>1. PICK ph \in {"discarded", "started"} : processors' = [processors EXCEPT ![0].phase = ph]
    BY <1>2 DEF StartupFails
  <2>2. ObjectType'
    BY <1>0, <2>1, PhaseType DEF ObjectType
  <2>3. ServiceType' /\ HandlerType' /\ LockType'
    BY <1>0, <1>2 DEF StartupFails, ServiceType, HandlerType, LockType, handlerVars
  <2> QED BY <1>0, <1>2, <2>2, <2>3, KeptTypes, TypePartsNext DEF StartupFails
<1>3. CASE StopBegins
  <2>1. ServiceType' /\ HandlerType' /\ LockType'
    BY <1>0, <1>3 DEF StopBegins, ServiceType, HandlerType, LockType, handlerVars
  <2> QED BY <1>0, <1>3, <2>1, KeptTypes, TypePartsNext DEF StopBegins
<1>4. CASE StopFlushFails
  <2>1. ObjectType'
    BY <1>0, <1>4, HarvestedType, ReplaceType DEF StopFlushFails, ObjectType
  <2>2. ServiceType' /\ HandlerType' /\ LockType'
    BY <1>0, <1>4 DEF StopFlushFails, ServiceType, HandlerType, LockType, handlerVars
  <2> QED BY <1>0, <1>4, <2>1, <2>2, KeptTypes, TypePartsNext DEF StopFlushFails
<1>5. CASE StopFlushes
  <2> DEFINE s == Harvested(processors[current])
  <2>1. Drained(s) \in Object /\ s.ready \in Seq(Packets)
    BY <1>0, HarvestedType, EndedType DEF Object
  <2>2. ObjectType'
    BY <1>0, <1>5, <2>1, ReplaceType DEF StopFlushes, ObjectType
  <2>3. Flush(s.ready)
    BY <1>5 DEF StopFlushes
  <2>4. MediaType'
    BY <1>0, <1>5, <2>1, <2>3, FlushType DEF StopFlushes, MediaType
  <2>5. ServiceType' /\ HandlerType' /\ LockType'
    BY <1>0, <1>5
    DEF StopFlushes, ServiceType, HandlerType, LockType, handlerVars, Contenders, Tasks
  <2> QED BY <1>0, <1>5, <2>2, <2>4, <2>5, KeptTypes, TypePartsNext DEF StopFlushes
<1>6. CASE StopCloses
  <2>1. ObjectType'
    BY <1>0, <1>6, EndedType, ReplaceType DEF StopCloses, ObjectType
  <2>2. ServiceType' /\ HandlerType' /\ LockType'
    BY <1>0, <1>6 DEF StopCloses, ServiceType, HandlerType, LockType, handlerVars
  <2> QED BY <1>0, <1>6, <2>1, <2>2, KeptTypes, TypePartsNext DEF StopCloses
<1> QED BY <1>1, <1>2, <1>3, <1>4, <1>5, <1>6 DEF Stop

LEMMA TypeStep == IInv /\ [Next]_vars => TypeOK'
<1> SUFFICES ASSUME IInv, [Next]_vars PROVE TypeOK'
  OBVIOUS
<1>1. CASE Next
  BY <1>1, IngressType, WorkerType, InferenceType, BeginType, HandleType, LifecycleType
  DEF Next
<1>2. CASE UNCHANGED vars
  BY <1>2 DEF IInv, TypeOK, vars, mediaVars, othersVars, controlVars, handlerVars,
              serviceVars
<1> QED BY <1>1, <1>2

-----------------------------------------------------------------------------
(* Every action preserves the lock discipline.                             *)

\* What LockDiscipline and its neighbours say of the two sides that can hold it.
WorkerLock ==
  /\ "worker" \in ToSet(lock) <=> worker \in {"locking", "sleeping"}
  /\ worker = "sleeping" => Owns("worker")
HandlerLock(h) ==
  /\ h \in ToSet(lock) <=> pc[h] \in {"locking", "stopping", "resetting"}
  /\ pc[h] \in {"stopping", "resetting"} => Owns(h)

LEMMA LockParts ==
  LockDiscipline <=> Distinct(lock) /\ WorkerLock /\ \A h \in Handlers : HandlerLock(h)
BY DEF LockDiscipline, WorkerLock, HandlerLock

LEMMA LockPartsNext ==
  Distinct(lock)' /\ WorkerLock' /\ (\A h \in Handlers : HandlerLock(h)') => LockDiscipline'
BY DEF LockDiscipline, WorkerLock, HandlerLock

\* A step that leaves the lock, the worker and the handlers where they are.
LEMMA LockKept ==
  ASSUME IInv, UNCHANGED <<lock, worker, pc>>
  PROVE  LockDiscipline'
BY DEF IInv, LockDiscipline, Owns, Distinct, ToSet

\* The worker's rounds begin with Acquire and end with Release.
LEMMA WorkerLockStep == IInv /\ Worker => LockDiscipline'
<1> SUFFICES ASSUME IInv, Worker PROVE LockDiscipline'
  OBVIOUS
<1>0. /\ TypeOK /\ Distinct(lock) /\ WorkerLock /\ \A h \in Handlers : HandlerLock(h)
      /\ lock \in Seq(Contenders) /\ \A h \in Handlers : h # "worker"
  BY LockParts, ConstantsAssumption DEF IInv, TypeOK
<1>1. CASE WorkerGet
  <2>1. "worker" \in Contenders /\ "worker" \notin ToSet(lock)
    BY <1>0, <1>1 DEF WorkerGet, WorkerLock, Contenders
  <2>2. /\ lock' # <<>> /\ Distinct(lock') /\ ToSet(lock') = ToSet(lock) \cup {"worker"}
        /\ lock # <<>> => Head(lock') = Head(lock)
    BY <1>0, <1>1, <2>1, LockAppend DEF WorkerGet, Acquire
  <2>3. WorkerLock'
    BY <1>1, <2>2 DEF WorkerGet, WorkerLock
  <2>4. \A h \in Handlers : HandlerLock(h)'
    BY <1>0, <1>1, <2>2 DEF WorkerGet, othersVars, handlerVars, HandlerLock, Owns
  <2> QED BY <2>2, <2>3, <2>4, LockPartsNext DEF Distinct
<1>2. ASSUME lock # <<>>, Head(lock) = "worker", lock' = Tail(lock),
             worker' \in {"getting", "ended"}, UNCHANGED handlerVars
      PROVE  LockDiscipline'
  <2>1. Distinct(lock') /\ ToSet(lock') = ToSet(lock) \ {"worker"}
    BY <1>0, <1>2, LockTail
  <2>2. WorkerLock'
    BY <1>2, <2>1 DEF WorkerLock
  <2>3. \A h \in Handlers : HandlerLock(h)'
    BY <1>0, <1>2, <2>1 DEF handlerVars, HandlerLock, Owns
  <2> QED BY <2>1, <2>2, <2>3, LockPartsNext DEF Distinct
<1>3. CASE ProcessDirect \/ WorkerWakes \/ ProcessSegmented \/ ProcessError
  <2>1. NextRound /\ Owns("worker")
    BY <1>0, <1>3 DEF ProcessDirect, WorkerWakes, ProcessSegmented, ProcessError,
                      Processing, WorkerLock
  <2> QED BY <1>2, <2>1 DEF NextRound, Release, LoopState, Owns, othersVars
<1>4. CASE ProcessDelay
  <2>1. WorkerLock'
    BY <1>0, <1>4 DEF ProcessDelay, Processing, WorkerLock, Owns
  <2>2. \A h \in Handlers : HandlerLock(h)'
    BY <1>0, <1>4 DEF ProcessDelay, othersVars, handlerVars, HandlerLock, Owns
  <2> QED BY <1>0, <1>4, <2>1, <2>2, LockPartsNext DEF ProcessDelay, Distinct
<1>5. CASE WorkerCancelled
  <2>1. CASE worker = "getting"
    <3>1. WorkerLock' /\ \A h \in Handlers : HandlerLock(h)'
      BY <1>0, <1>5, <2>1
      DEF WorkerCancelled, CancelEnds, othersVars, handlerVars, WorkerLock, HandlerLock, Owns
    <3> QED BY <1>0, <1>5, <2>1, <3>1, LockPartsNext DEF WorkerCancelled, Distinct
  <2>2. CASE worker \in {"locking", "sleeping"}
    <3>1. \A h \in Handlers : h \notin ToSet(lock)
      BY <1>0, <1>5 DEF WorkerCancelled, IInv, StopOrder, HandlerLock
    <3>2. "worker" \in ToSet(lock)
      BY <1>0, <2>2 DEF WorkerLock
    <3>3. lock # <<>> /\ Head(lock) \in ToSet(lock) /\ Head(lock) \in Contenders
      BY <1>0, <3>2, LockTail DEF ToSet
    <3>4. Head(lock) = "worker"
      BY <3>1, <3>2, <3>3 DEF Contenders
    <3> QED BY <1>2, <1>5, <2>2, <3>3, <3>4 DEF WorkerCancelled, CancelEnds, othersVars
  <2> QED BY <1>5, <2>1, <2>2 DEF WorkerCancelled
<1> QED BY <1>1, <1>3, <1>4, <1>5 DEF Worker

\* A handler enters at the end of the queue and leaves from its head.
LEMMA HandlerLockStep ==
  ASSUME IInv, NEW h \in Handlers, Begin(h) \/ Handle(h)
  PROVE  LockDiscipline'
<1>0. /\ TypeOK /\ Distinct(lock) /\ WorkerLock /\ \A g \in Handlers : HandlerLock(g)
      /\ lock \in Seq(Contenders) /\ \A g \in Handlers : g # "worker"
      /\ h \in Contenders
      /\ pc \in [Handlers -> {"idle", "starting", "locking", "stopping", "resetting"}]
  BY LockParts, ConstantsAssumption DEF IInv, TypeOK, Contenders
<1>1. ASSUME Acquire(h), pc[h] \in {"idle", "starting"},
             pc' = [pc EXCEPT ![h] = "locking"], UNCHANGED worker
      PROVE  LockDiscipline'
  <2>1. h \notin ToSet(lock)
    BY <1>0, <1>1 DEF HandlerLock
  <2>2. /\ lock' # <<>> /\ Distinct(lock') /\ ToSet(lock') = ToSet(lock) \cup {h}
        /\ lock # <<>> => Head(lock') = Head(lock)
    BY <1>0, <1>1, <2>1, LockAppend DEF Acquire
  <2>3. WorkerLock'
    BY <1>0, <1>1, <2>2 DEF WorkerLock, Owns
  <2>4. \A g \in Handlers : HandlerLock(g)'
    BY <1>0, <1>1, <2>2 DEF HandlerLock, Owns
  <2> QED BY <2>2, <2>3, <2>4, LockPartsNext DEF Distinct
<1>2. ASSUME Owns(h), Release, pc' = [pc EXCEPT ![h] = "idle"], UNCHANGED worker
      PROVE  LockDiscipline'
  <2>1. lock # <<>> /\ Head(lock) = h
    BY <1>2 DEF Owns
  <2>2. Distinct(lock') /\ ToSet(lock') = ToSet(lock) \ {h}
    BY <1>0, <1>2, <2>1, LockTail DEF Release
  <2>3. WorkerLock'
    BY <1>0, <1>2, <2>1, <2>2 DEF WorkerLock, Owns
  <2>4. \A g \in Handlers : HandlerLock(g)'
    BY <1>0, <1>2, <2>1, <2>2 DEF HandlerLock, Owns
  <2> QED BY <2>2, <2>3, <2>4, LockPartsNext DEF Distinct
<1>3. ASSUME Owns(h), pc[h] = "locking", UNCHANGED <<lock, worker>>,
             NEW where \in {"stopping", "resetting"}, pc' = [pc EXCEPT ![h] = where]
      PROVE  LockDiscipline'
  <2>1. WorkerLock' /\ \A g \in Handlers : HandlerLock(g)'
    BY <1>0, <1>3 DEF WorkerLock, HandlerLock, Owns
  <2> QED BY <1>0, <1>3, <2>1, LockPartsNext DEF Distinct
<1>4. ASSUME UNCHANGED <<lock, worker>>, NEW where \in {"idle", "starting"},
             pc[h] \in {"idle", "starting"}, pc' = [pc EXCEPT ![h] = where]
      PROVE  LockDiscipline'
  <2>1. WorkerLock' /\ \A g \in Handlers : HandlerLock(g)'
    BY <1>0, <1>4 DEF WorkerLock, HandlerLock, Owns
  <2> QED BY <1>0, <1>4, <2>1, LockPartsNext DEF Distinct
<1>5. CASE \E n \in Selectable : BeginSelect(h, n)
  BY <1>4, <1>5 DEF BeginSelect, Construct, CanBegin, mediaVars
<1>6. CASE \E u \in Updates : LiveApply(h, u) \/ BeginUpdate(h, u)
  <2>1. PICK u \in Updates : LiveApply(h, u) \/ BeginUpdate(h, u)
    BY <1>6
  <2>2. CASE LiveApply(h, u)
    BY <2>2, LockKept DEF LiveApply, mediaVars, handlerVars
  <2>3. CASE BeginUpdate(h, u)
    BY <1>4, <2>3 DEF BeginUpdate, Construct, CanBegin, mediaVars
  <2> QED BY <2>1, <2>2, <2>3
<1>7. CASE BeginRestore(h)
  BY <1>4, <1>7 DEF BeginRestore, Construct, CanBegin, mediaVars
<1>8. CASE BeginReset(h)
  BY <1>1, <1>8 DEF BeginReset, CanBegin, mediaVars
<1>9. CASE StartFails(h)
  BY <1>4, <1>9 DEF StartFails, Finish, mediaVars
<1>10. CASE Started(h)
  BY <1>1, <1>10 DEF Started, mediaVars
<1>11. CASE FlushFails(h)
  BY <1>2, <1>11 DEF FlushFails, InLock, Finish, mediaVars
<1>12. CASE Switch(h)
  BY <1>3, <1>12 DEF Switch, InLock
<1>13. CASE OldStopped(h)
  BY <1>0, <1>2, <1>13 DEF OldStopped, HandlerLock, Finish, mediaVars
<1>14. CASE ResetCancels(h)
  BY <1>3, <1>14 DEF ResetCancels, InLock, mediaVars
<1>15. CASE ResetClears(h)
  BY <1>0, <1>2, <1>15 DEF ResetClears, InLock, HandlerLock, Finish, mediaVars
<1> QED BY <1>5, <1>6, <1>7, <1>8, <1>9, <1>10, <1>11, <1>12, <1>13, <1>14, <1>15
  DEF Begin, Handle

LEMMA LockStep == IInv /\ [Next]_vars => LockDiscipline'
<1> SUFFICES ASSUME IInv, [Next]_vars PROVE LockDiscipline'
  OBVIOUS
<1>1. CASE Ingress
  BY <1>1, LockKept
  DEF Ingress, DatagramReceived, OversizedReceived, othersVars, handlerVars
<1>2. CASE \E i \in Instances : InferenceEnds(i)
  BY <1>2, LockKept DEF InferenceEnds, mediaVars, othersVars, handlerVars
<1>3. CASE Start
  BY <1>3 DEF Start, handlerVars, IInv, StopOrder, LockDiscipline, Owns, Distinct, ToSet
<1>4. CASE StartupFails \/ StopBegins \/ Stop
  BY <1>4, LockKept
  DEF StartupFails, StopBegins, Stop, StopFlushFails, StopFlushes, StopCloses, mediaVars,
      handlerVars
<1>5. CASE UNCHANGED vars
  BY <1>5, LockKept DEF vars, mediaVars, othersVars, handlerVars
<1> QED BY <1>1, <1>2, <1>3, <1>4, <1>5, WorkerLockStep, HandlerLockStep DEF Next

\* The rest of the inductive invariant.
LEMMA OrderStep == IInv /\ [Next]_vars => WorkerHolds' /\ StopOrder'
<1> SUFFICES ASSUME IInv, [Next]_vars PROVE WorkerHolds' /\ StopOrder'
  OBVIOUS
<1>0. TypeOK /\ WorkerHolds /\ LockDiscipline /\ StopOrder
  BY DEF IInv
<1>1. ASSUME UNCHANGED <<lifecycle, worker, packet, pc, cancelled>>
      PROVE  WorkerHolds' /\ StopOrder'
  BY <1>0, <1>1 DEF WorkerHolds, StopOrder
<1>2. CASE Ingress
  BY <1>1, <1>2
  DEF Ingress, DatagramReceived, OversizedReceived, othersVars, handlerVars, serviceVars
<1>3. CASE Worker
  <2>1. UNCHANGED <<lifecycle, pc, cancelled>> /\ worker # "none"
    BY <1>3 DEF Worker, WorkerGet, ProcessDirect, ProcessDelay, WorkerWakes,
                ProcessSegmented, ProcessError, WorkerCancelled, Processing, NextRound,
                othersVars, handlerVars, serviceVars
  <2>2. StopOrder'
    BY <1>0, <2>1 DEF StopOrder
  <2>3. WorkerHolds'
    <3>1. CASE WorkerGet
      <4>1. Head(queue) \in Packets
        BY <1>0, <3>1, HeadTailProperties DEF WorkerGet, TypeOK
      <4> QED BY <3>1, <4>1 DEF WorkerGet, WorkerHolds, Packets, NoPacket
    <3>2. CASE ProcessDelay
      BY <1>0, <3>2 DEF ProcessDelay, Processing, WorkerHolds
    <3>3. CASE WorkerCancelled
      BY <3>3 DEF WorkerCancelled, CancelEnds, WorkerHolds
    <3>4. CASE ProcessDirect \/ WorkerWakes \/ ProcessSegmented \/ ProcessError
      BY <3>4 DEF ProcessDirect, WorkerWakes, ProcessSegmented, ProcessError, NextRound,
                  LoopState, WorkerHolds
    <3> QED BY <1>3, <3>1, <3>2, <3>3, <3>4 DEF Worker
  <2> QED BY <2>2, <2>3
<1>4. CASE \E i \in Instances : InferenceEnds(i)
  BY <1>1, <1>4 DEF InferenceEnds, mediaVars, othersVars, handlerVars, serviceVars
<1>5. CASE \E h \in Handlers : Begin(h) \/ Handle(h)
  <2>1. PICK h \in Handlers : Begin(h) \/ Handle(h)
    BY <1>5
  <2>2. UNCHANGED <<lifecycle, worker, packet, cancelled>>
    BY <2>1 DEF Begin, BeginSelect, LiveApply, BeginUpdate, BeginRestore, BeginReset,
                Construct, Handle, StartFails, Started, FlushFails, Switch, OldStopped,
                ResetCancels, ResetClears, mediaVars, serviceVars
  <2>3. CASE Begin(h)
    <3>1. lifecycle = "running"
      BY <2>3 DEF Begin, BeginSelect, LiveApply, BeginUpdate, BeginRestore, BeginReset,
                  CanBegin
    <3> QED BY <1>0, <2>2, <3>1 DEF WorkerHolds, StopOrder
  <2>4. CASE Handle(h)
    <3>1. pc[h] # "idle"
      BY <2>4 DEF Handle, StartFails, Started, FlushFails, Switch, OldStopped,
                  ResetCancels, ResetClears, InLock
    <3> QED BY <1>0, <2>2, <3>1 DEF WorkerHolds, StopOrder
  <2> QED BY <2>1, <2>3, <2>4
<1>6. CASE Start \/ StartupFails \/ StopBegins \/ Stop
  BY <1>0, <1>6
  DEF Start, StartupFails, StopBegins, Stop, StopFlushFails, StopFlushes, StopCloses,
      mediaVars, handlerVars, WorkerHolds, StopOrder
<1>7. CASE UNCHANGED vars
  BY <1>1, <1>7 DEF vars, mediaVars, othersVars, handlerVars, serviceVars
<1> QED BY <1>2, <1>3, <1>4, <1>5, <1>6, <1>7 DEF Next

LEMMA Inductive == Spec => []IInv
<1>1. IInv /\ [Next]_vars => IInv'
  BY TypeStep, LockStep, OrderStep DEF IInv
<1> QED BY InitIInv, <1>1, PTL DEF Spec

-----------------------------------------------------------------------------
\* The variables keep their types, in every reachable state of the service.
THEOREM TypeCorrect == Spec => []TypeOK
<1>1. IInv => TypeOK
  BY DEF IInv
<1> QED BY Inductive, <1>1, PTL

\* process(), flush(), reset() and stop() of the active processor never overlap:
\* _processor_lock is held around each, and its queue is exactly the tasks
\* waiting for it.
THEOREM LockCorrect == Spec => []LockDiscipline
<1>1. IInv => LockDiscipline
  BY DEF IInv
<1> QED BY Inductive, <1>1, PTL

-----------------------------------------------------------------------------
(* The counters of datagrams.                                              *)

\* The counters that PacketsAccounted and QueueBounded are about.
Ingested(m) == <<m.received, m.enqueued, m.dropped, m.highWatermark>>

LEMMA FinishedCounts ==
  ASSUME TypeOK, NEW outs, Finished(outs)
  PROVE  /\ Ingested(metrics') = Ingested(metrics)
         /\ metrics'.processed = metrics.processed + 1
         /\ metrics'.processorErrors = metrics.processorErrors
BY DEF TypeOK, Counters, Finished, Emitted, Ingested

LEMMA FlushCounts ==
  ASSUME TypeOK, NEW outs, Flush(outs)
  PROVE  /\ Ingested(metrics') = Ingested(metrics)
         /\ metrics'.processed = metrics.processed
         /\ metrics'.processorErrors = metrics.processorErrors
BY DEF TypeOK, Counters, Flush, Emitted, Ingested

\* What is neither ingress nor the worker moves no datagram.
LEMMA ControlCounts ==
  ASSUME IInv, \/ \E i \in Instances : InferenceEnds(i)
               \/ \E h \in Handlers : Begin(h) \/ Handle(h)
               \/ Start \/ StartupFails \/ StopBegins \/ Stop
               \/ UNCHANGED vars
  PROVE  /\ UNCHANGED <<queue, packet, oversized>>
         /\ worker' = worker \/ worker = "none"
         /\ Ingested(metrics') = Ingested(metrics)
         /\ metrics'.processed = metrics.processed
         /\ metrics'.processorErrors = metrics.processorErrors
<1>0. TypeOK
  BY DEF IInv
<1>1. CASE \E h \in Handlers : Switch(h)
  <2>1. PICK h \in Handlers : Switch(h)
    BY <1>1
  <2>2. Flush(Harvested(processors[current]).ready)
    BY <2>1 DEF Switch
  <2> QED BY <1>0, <2>1, <2>2, FlushCounts DEF Switch
<1>2. CASE StopFlushes
  <2>1. Flush(Harvested(processors[current]).ready)
    BY <1>2 DEF StopFlushes
  <2> QED BY <1>0, <1>2, <2>1, FlushCounts DEF StopFlushes
<1>3. CASE Start
  BY <1>3 DEF Start, IInv, StopOrder
<1>4. ASSUME UNCHANGED mediaVars
      PROVE  UNCHANGED <<queue, packet, oversized, worker, metrics>>
  BY <1>4 DEF mediaVars
<1>5. CASE \E i \in Instances : InferenceEnds(i)
  BY <1>4, <1>5 DEF InferenceEnds
<1>6. CASE \E h \in Handlers : Begin(h)
  <2>1. UNCHANGED mediaVars
    BY <1>6 DEF Begin, BeginSelect, LiveApply, BeginUpdate, BeginRestore, BeginReset,
                Construct
  <2> QED BY <1>4, <2>1
<1>7. CASE \E h \in Handlers : Handle(h) /\ ~Switch(h)
  <2>1. UNCHANGED mediaVars
    BY <1>7 DEF Handle, StartFails, Started, FlushFails, OldStopped, ResetCancels,
                ResetClears
  <2> QED BY <1>4, <2>1
<1>8. CASE StartupFails \/ StopBegins \/ StopFlushFails \/ StopCloses
  <2>1. UNCHANGED mediaVars
    BY <1>8 DEF StartupFails, StopBegins, StopFlushFails, StopCloses
  <2> QED BY <1>4, <2>1
<1>9. CASE UNCHANGED vars
  BY <1>4, <1>9 DEF vars
<1> QED BY <1>1, <1>2, <1>3, <1>5, <1>6, <1>7, <1>8, <1>9 DEF Stop

\* The terms of PacketsAccounted are numbers.
LEMMA AccountTypes ==
  ASSUME TypeOK
  PROVE  /\ metrics.received \in Nat /\ metrics.enqueued \in Nat
         /\ metrics.dropped \in Nat /\ metrics.processed \in Nat
         /\ metrics.processorErrors \in Nat /\ metrics.highWatermark \in Nat
         /\ Len(queue) \in Nat /\ oversized \in Nat /\ InFlight \in Nat
BY LenProperties DEF TypeOK, Counters, InFlight

LEMMA AccountStep == IInv /\ PacketsAccounted /\ [Next]_vars => PacketsAccounted'
<1> SUFFICES ASSUME IInv, PacketsAccounted, [Next]_vars PROVE PacketsAccounted'
  OBVIOUS
<1>0. TypeOK /\ WorkerHolds
  BY DEF IInv
<1>t. /\ metrics.received \in Nat /\ metrics.enqueued \in Nat
      /\ metrics.dropped \in Nat /\ metrics.processed \in Nat
      /\ metrics.processorErrors \in Nat /\ Len(queue) \in Nat
      /\ oversized \in Nat /\ InFlight \in Nat
  BY <1>0, AccountTypes
<1>b. /\ metrics.received + oversized = metrics.enqueued + metrics.dropped
      /\ metrics.received \in Nat /\ metrics.enqueued \in Nat
      /\ metrics.dropped \in Nat /\ oversized \in Nat
  BY <1>t DEF PacketsAccounted
<1>1. CASE DatagramReceived
  <2>1. oversized' = oversized /\ worker' = worker /\ InFlight' = InFlight
    BY <1>1 DEF DatagramReceived, InFlight
  <2>2. CASE Fits
    <3>1. /\ metrics'.received = metrics.received + 1
          /\ metrics'.enqueued = metrics.enqueued + 1
          /\ metrics'.dropped = metrics.dropped
          /\ metrics'.processed = metrics.processed
          /\ metrics'.processorErrors = metrics.processorErrors
      BY <1>0, <1>1, <2>2 DEF DatagramReceived, TypeOK, Counters
    <3>2. metrics.received + 1 \in Packets
      <4>1. metrics.received \in Nat /\ metrics.received < MaxPackets
        BY <1>0, <1>1, AccountTypes DEF DatagramReceived
      <4> QED BY <4>1, SizesAssumption DEF Packets
    <3>3. Len(queue') = Len(queue) + 1
      BY <1>0, <1>1, <2>2, <3>2 DEF DatagramReceived, TypeOK
    <3> QED
      <4>1. (metrics.received + oversized = metrics.enqueued + metrics.dropped)'
        <5>1. /\ oversized' = oversized
              /\ metrics'.received = metrics.received + 1
              /\ metrics'.enqueued = metrics.enqueued + 1
              /\ metrics'.dropped = metrics.dropped
          BY <2>1, <3>1
        <5> QED BY <5>1, <1>b
      <4>2. CASE metrics.enqueued = metrics.processed + metrics.processorErrors
                                      + Len(queue) + InFlight
        BY <4>1, <4>2, <2>1, <3>1, <3>3, <1>t DEF PacketsAccounted
      <4>3. CASE worker = "ended" /\ metrics.enqueued = metrics.processed
                   + metrics.processorErrors + Len(queue) + InFlight + 1
        BY <4>1, <4>3, <2>1, <3>1, <3>3, <1>t DEF PacketsAccounted
      <4> QED BY <4>2, <4>3 DEF PacketsAccounted
  <2>3. CASE ~Fits
    <3>1. /\ metrics'.received = metrics.received + 1
          /\ metrics'.enqueued = metrics.enqueued
          /\ metrics'.dropped = metrics.dropped + 1
          /\ metrics'.processed = metrics.processed
          /\ metrics'.processorErrors = metrics.processorErrors
          /\ queue' = queue
      BY <1>0, <1>1, <2>3 DEF DatagramReceived, TypeOK, Counters
    <3>2. (metrics.received + oversized = metrics.enqueued + metrics.dropped)'
      <4>1. /\ oversized' = oversized
            /\ metrics'.received = metrics.received + 1
            /\ metrics'.enqueued = metrics.enqueued
            /\ metrics'.dropped = metrics.dropped + 1
        BY <2>1, <3>1
      <4> QED BY <4>1, <1>b
    <3> QED BY <2>1, <3>1, <3>2 DEF PacketsAccounted
  <2> QED BY <2>2, <2>3
<1>2. CASE OversizedReceived
  <2>1. /\ UNCHANGED <<worker, queue>> /\ InFlight' = InFlight
        /\ oversized' = oversized + 1
        /\ metrics'.received = metrics.received
        /\ metrics'.enqueued = metrics.enqueued
        /\ metrics'.dropped = metrics.dropped + 1
        /\ metrics'.processed = metrics.processed
        /\ metrics'.processorErrors = metrics.processorErrors
    BY <1>0, <1>2 DEF OversizedReceived, InFlight, TypeOK, Counters
  <2>2. (metrics.received + oversized = metrics.enqueued + metrics.dropped)'
    <3>1. /\ oversized' = oversized + 1
          /\ metrics'.received = metrics.received
          /\ metrics'.enqueued = metrics.enqueued
          /\ metrics'.dropped = metrics.dropped + 1
      BY <2>1
    <3> QED BY <3>1, <1>b
  <2> QED BY <2>1, <2>2 DEF PacketsAccounted
<1>3. CASE WorkerGet
  <2>1. /\ UNCHANGED <<metrics, oversized>>
        /\ worker' = "locking" /\ worker = "getting"
    BY <1>3 DEF WorkerGet
  <2>2. Len(queue') = Len(queue) - 1 /\ packet' \in Packets
    BY <1>0, <1>3, HeadTailProperties DEF WorkerGet, TypeOK
  <2>3. InFlight = 0 /\ InFlight' = 1
    BY <1>0, <2>1, <2>2 DEF InFlight, WorkerHolds, Packets, NoPacket
  <2> QED BY <1>0, <2>1, <2>2, <2>3, <1>t DEF PacketsAccounted
<1>4. CASE ProcessDirect \/ WorkerWakes \/ ProcessSegmented \/ ProcessError
  <2>1. /\ NextRound /\ worker \in {"locking", "sleeping"}
        /\ \/ \E outs : Finished(outs)
           \/ metrics' = ErrorCounted
    BY <1>4 DEF ProcessDirect, WorkerWakes, ProcessSegmented, ProcessError, Processing
  <2>2. /\ Ingested(metrics') = Ingested(metrics)
        /\ metrics'.processed + metrics'.processorErrors
             = metrics.processed + metrics.processorErrors + 1
    <3>1. CASE \E outs : Finished(outs)
      BY <1>0, <3>1, FinishedCounts, AccountTypes
    <3>2. CASE metrics' = ErrorCounted
      BY <1>0, <3>2, AccountTypes DEF ErrorCounted, Ingested, TypeOK, Counters
    <3> QED BY <2>1, <3>1, <3>2
  <2>3. UNCHANGED <<queue, oversized>> /\ InFlight = 1 /\ InFlight' = 0 /\ worker # "ended"
    BY <1>0, <2>1 DEF NextRound, InFlight, WorkerHolds
  <2> QED BY <1>0, <2>2, <2>3, <1>t DEF PacketsAccounted, Ingested
<1>5. CASE ProcessDelay
  BY <1>0, <1>5 DEF ProcessDelay, Processing, PacketsAccounted, InFlight
<1>6. CASE WorkerCancelled
  <2>1. /\ UNCHANGED <<queue, oversized, metrics>> /\ InFlight' = 0
        /\ worker' = "ended" /\ worker # "ended" /\ InFlight \in {0, 1}
    BY <1>6 DEF WorkerCancelled, CancelEnds, InFlight
  <2> QED BY <1>0, <2>1, <1>t DEF PacketsAccounted
<1>7. CASE \/ \E i \in Instances : InferenceEnds(i)
           \/ \E h \in Handlers : Begin(h) \/ Handle(h)
           \/ Start \/ StartupFails \/ StopBegins \/ Stop
           \/ UNCHANGED vars
  <2>1. InFlight' = InFlight
    BY <1>7, ControlCounts DEF InFlight
  <2> QED BY <1>7, <2>1, ControlCounts DEF PacketsAccounted, Ingested
<1> QED BY <1>1, <1>2, <1>3, <1>4, <1>5, <1>6, <1>7 DEF Next, Ingress, Worker

LEMMA QueueStep == IInv /\ QueueBounded /\ [Next]_vars => QueueBounded'
<1> SUFFICES ASSUME IInv, QueueBounded, [Next]_vars PROVE QueueBounded'
  OBVIOUS
<1>0. TypeOK
  BY DEF IInv
<1>1. CASE DatagramReceived
  <2>1. CASE Fits
    <3>1. metrics.received + 1 \in Packets
      <4>1. metrics.received \in Nat /\ metrics.received < MaxPackets
        BY <1>0, <1>1, AccountTypes DEF DatagramReceived
      <4> QED BY <4>1, SizesAssumption DEF Packets
    <3>2. Len(queue') = Len(queue) + 1
      BY <1>0, <1>1, <2>1, <3>1 DEF DatagramReceived, TypeOK
    <3>3. metrics'.highWatermark = IF Len(queue) + 1 > metrics.highWatermark
                                   THEN Len(queue) + 1 ELSE metrics.highWatermark
      BY <1>0, <1>1, <2>1 DEF DatagramReceived, TypeOK, Counters
    <3> QED BY <1>0, <2>1, <3>2, <3>3, AccountTypes, SizesAssumption DEF QueueBounded, Fits
  <2>2. CASE ~Fits
    BY <1>0, <1>1, <2>2 DEF DatagramReceived, QueueBounded, TypeOK, Counters
  <2> QED BY <2>1, <2>2
<1>2. CASE OversizedReceived
  BY <1>0, <1>2 DEF OversizedReceived, QueueBounded, TypeOK, Counters
<1>3. CASE Worker
  <2>1. CASE WorkerGet
    <3>1. Len(queue') = Len(queue) - 1 /\ metrics' = metrics
      BY <1>0, <2>1, HeadTailProperties DEF WorkerGet, TypeOK
    <3> QED BY <1>0, <3>1, AccountTypes, SizesAssumption DEF QueueBounded
  <2>2. CASE ProcessDirect \/ WorkerWakes \/ ProcessSegmented
    <3>1. queue' = queue /\ \E outs : Finished(outs)
      BY <2>2 DEF ProcessDirect, WorkerWakes, ProcessSegmented, NextRound
    <3> QED BY <1>0, <3>1, FinishedCounts DEF QueueBounded, Ingested
  <2>3. CASE ProcessError
    BY <1>0, <2>3
    DEF ProcessError, ErrorCounted, NextRound, QueueBounded, TypeOK, Counters
  <2>4. CASE ProcessDelay \/ WorkerCancelled
    BY <2>4 DEF ProcessDelay, WorkerCancelled, QueueBounded
  <2> QED BY <1>3, <2>1, <2>2, <2>3, <2>4 DEF Worker
<1>4. CASE \/ \E i \in Instances : InferenceEnds(i)
           \/ \E h \in Handlers : Begin(h) \/ Handle(h)
           \/ Start \/ StartupFails \/ StopBegins \/ Stop
           \/ UNCHANGED vars
  BY <1>4, ControlCounts DEF QueueBounded, Ingested
<1> QED BY <1>1, <1>2, <1>3, <1>4 DEF Next, Ingress

\* No datagram is lost without a trace: each is dropped, waiting, in the worker's
\* hands, processed or failed, whatever requests and failures come in between;
\* only stop() makes one, at most, disappear (Metrics and _processing_loop).
THEOREM PacketsCorrect == Spec => []PacketsAccounted
<1>1. Init => PacketsAccounted
  BY EmptySeq DEF Init, PacketsAccounted, InFlight
<1> QED BY <1>1, Inductive, AccountStep, PTL DEF Spec

\* put_nowait and the high watermark: the queue never exceeds its size, and the
\* watermark is at least as high as the queue was at any time.
THEOREM QueueCorrect == Spec => []QueueBounded
<1>1. Init => QueueBounded
  BY EmptySeq, SizesAssumption DEF Init, QueueBounded
<1> QED BY <1>1, Inductive, QueueStep, PTL DEF Spec

-----------------------------------------------------------------------------
(* The counters of outputs.                                                *)

\* One batch of outputs, sent by the worker or by a flush.
LEMMA BatchAccounted ==
  ASSUME TypeOK, OutputsAccounted, NEW outs \in Seq(Packets),
         NEW chosen \in Choices(Len(outs)), NEW via \in Packets \cup {NoPacket},
         wire' = wire \o OnWire(outs, chosen, via),
         metrics'.emitted = metrics.emitted + Len(outs),
         metrics'.forwarded = metrics.forwarded + Len(chosen),
         metrics'.forwardingErrors = metrics.forwardingErrors + (Len(outs) - Len(chosen))
  PROVE  OutputsAccounted'
<1>1. /\ Len(chosen) \in 0..Len(outs) /\ Len(outs) \in Nat
      /\ OnWire(outs, chosen, via) \in Seq(OutputSet)
      /\ Len(OnWire(outs, chosen, via)) = Len(chosen)
  BY OnWireType, LenProperties DEF OutputSet
<1>2. Len(wire') = Len(wire) + Len(chosen)
  <2>1. wire \in Seq(OutputSet)
    BY DEF TypeOK, OutputSet
  <2>2. Len(wire \o OnWire(outs, chosen, via)) = Len(wire) + Len(OnWire(outs, chosen, via))
    BY <1>1, <2>1, ConcatProperties
  <2> QED BY <1>1, <2>2
<1>3. /\ metrics.emitted \in Nat /\ metrics.forwarded \in Nat
      /\ metrics.forwardingErrors \in Nat
  BY DEF TypeOK, Counters
<1> QED BY <1>1, <1>2, <1>3 DEF OutputsAccounted

LEMMA FinishedOutputs ==
  ASSUME TypeOK, OutputsAccounted, NEW outs \in Seq(Packets), Finished(outs)
  PROVE  OutputsAccounted'
<1>1. PICK chosen \in Choices(Len(outs)) :
        /\ metrics' = [Emitted(metrics, Len(outs), Len(chosen)) EXCEPT !.processed = @ + 1]
        /\ wire' = wire \o OnWire(outs, chosen, packet)
  BY DEF Finished
<1>2. /\ metrics'.emitted = metrics.emitted + Len(outs)
      /\ metrics'.forwarded = metrics.forwarded + Len(chosen)
      /\ metrics'.forwardingErrors = metrics.forwardingErrors + (Len(outs) - Len(chosen))
  BY <1>1 DEF TypeOK, Counters, Emitted
<1>3. packet \in Packets \cup {NoPacket}
  BY DEF TypeOK
<1> QED BY <1>1, <1>2, <1>3, BatchAccounted

LEMMA FlushOutputs ==
  ASSUME TypeOK, OutputsAccounted, NEW outs \in Seq(Packets), Flush(outs)
  PROVE  OutputsAccounted'
<1>1. PICK chosen \in Choices(Len(outs)) :
        /\ metrics' = Emitted(metrics, Len(outs), Len(chosen))
        /\ wire' = wire \o OnWire(outs, chosen, LastSender)
  BY DEF Flush
<1>2. /\ metrics'.emitted = metrics.emitted + Len(outs)
      /\ metrics'.forwarded = metrics.forwarded + Len(chosen)
      /\ metrics'.forwardingErrors = metrics.forwardingErrors + (Len(outs) - Len(chosen))
  BY <1>1 DEF TypeOK, Counters, Emitted
<1>3. LastSender \in Packets \cup {NoPacket}
  BY SizesAssumption DEF TypeOK, LastSender, Counters, Packets, NoPacket
<1> QED BY <1>1, <1>2, <1>3, BatchAccounted

LEMMA OutputStep == IInv /\ OutputsAccounted /\ [Next]_vars => OutputsAccounted'
<1> SUFFICES ASSUME IInv, OutputsAccounted, [Next]_vars PROVE OutputsAccounted'
  OBVIOUS
<1>0. /\ TypeOK /\ WorkerHolds /\ LockDiscipline
      /\ current \in Instances /\ processors[current] \in Object
  BY DEF IInv, TypeOK
<1>1. ASSUME UNCHANGED wire, metrics'.emitted = metrics.emitted,
             metrics'.forwarded = metrics.forwarded,
             metrics'.forwardingErrors = metrics.forwardingErrors
      PROVE  OutputsAccounted'
  BY <1>1 DEF OutputsAccounted
<1>2. CASE Ingress
  BY <1>0, <1>1, <1>2 DEF Ingress, DatagramReceived, OversizedReceived, TypeOK, Counters
<1>3. CASE ProcessDirect \/ WorkerWakes \/ ProcessSegmented
  <2>1. packet \in Packets /\ <<packet>> \in Seq(Packets) /\ <<>> \in Seq(Packets)
    BY <1>0, <1>3, EmptySeq DEF ProcessDirect, WorkerWakes, ProcessSegmented, Processing,
                                WorkerHolds, TypeOK
  <2>2. CASE ProcessDirect
    <3>1. PICK outs \in Seq(Packets) : Finished(outs)
      BY <2>1, <2>2 DEF ProcessDirect
    <3> QED BY <1>0, <3>1, FinishedOutputs
  <2>3. CASE WorkerWakes
    BY <1>0, <2>1, <2>3, FinishedOutputs DEF WorkerWakes
  <2>4. CASE ProcessSegmented
    <3> DEFINE s == Accepted(Harvested(processors[current]), packet)
    <3>1. s \in Object /\ s.ready \in Seq(Packets)
      BY <1>0, <2>1, HarvestedType, AcceptedType DEF Object
    <3>2. FirstOf(s.ready) \in Seq(Packets) /\ Finished(FirstOf(s.ready))
      BY <2>4, <3>1, ReleaseType DEF ProcessSegmented
    <3> QED BY <1>0, <3>2, FinishedOutputs
  <2> QED BY <1>3, <2>2, <2>3, <2>4
<1>4. CASE ProcessError
  BY <1>0, <1>1, <1>4 DEF ProcessError, ErrorCounted, TypeOK, Counters
<1>5. CASE WorkerGet \/ ProcessDelay \/ WorkerCancelled
  BY <1>1, <1>5 DEF WorkerGet, ProcessDelay, WorkerCancelled
<1>6. CASE (\E h \in Handlers : Switch(h)) \/ StopFlushes
  <2>1. Harvested(processors[current]).ready \in Seq(Packets)
    BY <1>0, HarvestedType DEF Object
  <2>2. Flush(Harvested(processors[current]).ready)
    BY <1>6 DEF Switch, StopFlushes
  <2> QED BY <1>0, <2>1, <2>2, FlushOutputs
<1>7. ASSUME UNCHANGED mediaVars PROVE OutputsAccounted'
  BY <1>1, <1>7 DEF mediaVars
<1>8. CASE \/ \E i \in Instances : InferenceEnds(i)
           \/ \E h \in Handlers : Begin(h)
           \/ \E h \in Handlers : Handle(h) /\ ~Switch(h)
  <2>1. UNCHANGED mediaVars
    BY <1>8 DEF InferenceEnds, Begin, BeginSelect, LiveApply, BeginUpdate, BeginRestore,
                BeginReset, Construct, Handle, StartFails, Started, FlushFails,
                OldStopped, ResetCancels, ResetClears
  <2> QED BY <1>7, <2>1
<1>9. CASE StartupFails \/ StopBegins \/ StopFlushFails \/ StopCloses \/ UNCHANGED vars
  BY <1>7, <1>9 DEF StartupFails, StopBegins, StopFlushFails, StopCloses, vars
<1>10. CASE Start
  BY <1>1, <1>10 DEF Start
<1> QED BY <1>2, <1>3, <1>4, <1>5, <1>6, <1>8, <1>9, <1>10 DEF Next, Worker, Stop

\* Every output is sent or counted as a forwarding error, whoever emits it: the
\* counters of _send_output agree with what the socket accepted.
THEOREM OutputsCorrect == Spec => []OutputsAccounted
<1>1. Init => OutputsAccounted
  BY EmptySeq DEF Init, OutputsAccounted
<1> QED BY <1>1, Inductive, OutputStep, PTL DEF Spec
-----------------------------------------------------------------------------
(* Nobody waits for nobody.                                                *)

\* The task whose code runs is not waiting for anything, the lifespan runs only to
\* close, and stop() has a worker to wait for, which it has cancelled.
TurnInv ==
  /\ turn = "worker" => WorkerReady
  /\ \A h \in Handlers : turn = h => HandlerReady(h)
  /\ turn = "lifespan" => lifecycle = "closing"
  /\ lifecycle \in {"running", "joining", "closing"} => worker # "none"
  /\ lifecycle \in {"joining", "closing"} => cancelled

\* What stop() has to do with the worker, whoever's code runs.
Joins ==
  /\ lifecycle \in {"running", "joining", "closing"} => worker # "none"
  /\ lifecycle \in {"joining", "closing"} => cancelled

LEMMA NotHandlers ==
  \A h \in Handlers : h # "loop" /\ h # "worker" /\ h # "lifespan"
BY ConstantsAssumption

\* A step that leaves the event loop to choose.
LEMMA LoopChooses ==
  ASSUME turn' = "loop", Joins'
  PROVE  TurnInv'
BY NotHandlers DEF TurnInv, Joins

\* A step of handler h after which its code may go on.
LEMMA HandlerGoesOn ==
  ASSUME NEW h \in Handlers, Joins', turn' \in {"loop", h},
         turn' = h => \/ pc'[h] \in {"starting", "stopping", "resetting"}
                      \/ pc'[h] = "locking" /\ lock' # <<>> /\ Head(lock') = h
  PROVE  TurnInv'
<1>1. CASE turn' = "loop"
  BY <1>1, LoopChooses
<1>2. CASE turn' = h
  <2>1. HandlerReady(h)'
    BY <1>2 DEF HandlerReady, Runs, Owns
  <2> QED BY <1>2, <2>1, NotHandlers DEF TurnInv, Joins
<1> QED BY <1>1, <1>2

\* Whoever takes the free lock has it.
LEMMA AcquireOwns ==
  ASSUME NEW t \in Contenders, Acquire(t)
  PROVE  /\ turn' \in {"loop", t}
         /\ t # "loop" /\ turn' = t => lock' # <<>> /\ Head(lock') = t
<1>1. CASE lock = <<>>
  <2>1. lock' = <<t>>
    BY <1>1 DEF Acquire
  <2> QED BY <1>1, <2>1 DEF Acquire
<1>2. CASE lock # <<>>
  BY <1>2 DEF Acquire
<1> QED BY <1>1, <1>2

LEMMA WorkerTurn ==
  ASSUME IInv, TurnInv, Worker
  PROVE  TurnInv'
<1>1. Joins' /\ cancelled' = cancelled
  BY DEF Joins, TurnInv, Worker, WorkerGet, ProcessDirect, ProcessDelay, WorkerWakes,
         ProcessSegmented, ProcessError, WorkerCancelled, CancelEnds, NextRound,
         LoopState, othersVars, serviceVars
<1>2. ASSUME turn' = "worker", WorkerReady'
      PROVE  TurnInv'
  BY <1>1, <1>2, NotHandlers DEF TurnInv, Joins
<1>3. CASE WorkerGet
  <2>1. "worker" \in Contenders
    BY DEF Contenders
  <2>2. /\ turn' \in {"loop", "worker"}
        /\ turn' = "worker" => lock' # <<>> /\ Head(lock') = "worker"
    BY <1>3, <2>1, AcquireOwns DEF WorkerGet
  <2>3. turn' = "worker" => WorkerReady'
    BY <1>1, <1>3, <2>2 DEF WorkerGet, WorkerReady, Runs, Owns
  <2> QED BY <1>1, <1>2, <2>2, <2>3, LoopChooses
<1>4. CASE ProcessDirect \/ WorkerWakes \/ ProcessSegmented \/ ProcessError
  <2>1. NextRound /\ ~cancelled
    BY <1>4 DEF ProcessDirect, WorkerWakes, ProcessSegmented, ProcessError, Processing
  <2>2. CASE queue = <<>>
    BY <1>1, <2>1, <2>2, LoopChooses DEF NextRound
  <2>3. CASE queue # <<>>
    <3>1. turn' = "worker" /\ WorkerReady'
      BY <1>1, <2>1, <2>3 DEF NextRound, LoopState, WorkerReady, Runs
    <3> QED BY <1>2, <3>1
  <2> QED BY <2>2, <2>3
<1>5. CASE ProcessDelay \/ WorkerCancelled
  BY <1>1, <1>5, LoopChooses DEF ProcessDelay, WorkerCancelled
<1> QED BY <1>3, <1>4, <1>5 DEF Worker

LEMMA HandlerTurn ==
  ASSUME IInv, TurnInv, NEW h \in Handlers, Begin(h) \/ Handle(h)
  PROVE  TurnInv'
<1>0. /\ pc \in [Handlers -> {"idle", "starting", "locking", "stopping", "resetting"}]
      /\ h \in Contenders /\ h # "loop"
  BY NotHandlers DEF IInv, TypeOK, Contenders
<1>1. Joins'
  <2>1. UNCHANGED <<lifecycle, worker, cancelled>>
    BY DEF Begin, BeginSelect, LiveApply, BeginUpdate, BeginRestore, BeginReset,
           Construct, Handle, StartFails, Started, FlushFails, Switch, OldStopped,
           ResetCancels, ResetClears, mediaVars, serviceVars
  <2> QED BY <2>1 DEF TurnInv, Joins
<1>2. ASSUME NEW kind, NEW s, NEW n, NEW candidate, Construct(h, kind, s, n, candidate)
      PROVE  TurnInv'
  <2>1. turn' \in {"loop", h} /\ pc'[h] = "starting"
    BY <1>0, <1>2 DEF Construct
  <2> QED BY <1>1, <2>1, HandlerGoesOn
<1>3. ASSUME Acquire(h), pc' = [pc EXCEPT ![h] = "locking"]
      PROVE  TurnInv'
  <2>1. /\ turn' \in {"loop", h} /\ pc'[h] = "locking"
        /\ turn' = h => lock' # <<>> /\ Head(lock') = h
    BY <1>0, <1>3, AcquireOwns
  <2> QED BY <1>1, <2>1, HandlerGoesOn
<1>4. CASE \/ \E n \in Selectable : BeginSelect(h, n)
           \/ \E u \in Updates : BeginUpdate(h, u)
           \/ BeginRestore(h)
  BY <1>2, <1>4 DEF BeginSelect, BeginUpdate, BeginRestore
<1>5. CASE \E u \in Updates : LiveApply(h, u)
  BY <1>1, <1>5, LoopChooses DEF LiveApply, CanBegin
<1>6. CASE BeginReset(h) \/ Started(h)
  BY <1>3, <1>6 DEF BeginReset, Started
<1>7. CASE Switch(h)
  <2>1. turn' \in {"loop", h} /\ pc'[h] = "stopping"
    BY <1>0, <1>7 DEF Switch
  <2> QED BY <1>1, <2>1, HandlerGoesOn
<1>8. CASE \/ StartFails(h) \/ FlushFails(h) \/ OldStopped(h) \/ ResetCancels(h)
           \/ ResetClears(h)
  BY <1>1, <1>8, LoopChooses
  DEF StartFails, FlushFails, OldStopped, ResetCancels, ResetClears
<1> QED BY <1>4, <1>5, <1>6, <1>7, <1>8 DEF Begin, Handle

LEMMA ServiceTurn ==
  ASSUME IInv, TurnInv, Start \/ StartupFails \/ StopBegins \/ Stop
  PROVE  TurnInv'
<1>1. CASE Start
  <2>1. turn # "worker" /\ turn # "lifespan"
    BY <1>1 DEF Start, IInv, StopOrder, TurnInv, WorkerReady
  <2>2. Joins'
    BY <1>1 DEF Start, Joins
  <2>3. \A h \in Handlers : turn' = h => HandlerReady(h)'
    BY <1>1 DEF Start, handlerVars, TurnInv, HandlerReady, Runs, Owns
  <2> QED BY <1>1, <2>1, <2>2, <2>3 DEF Start, TurnInv, Joins
<1>2. CASE StartupFails
  <2>1. turn # "lifespan"
    BY <1>2 DEF StartupFails, TurnInv
  <2>2. WorkerReady => WorkerReady'
    BY <1>2 DEF StartupFails, mediaVars, WorkerReady, Runs, Owns
  <2>3. \A h \in Handlers : HandlerReady(h) => HandlerReady(h)'
    BY <1>2 DEF StartupFails, handlerVars, HandlerReady, Runs, Owns
  <2> QED BY <1>2, <2>1, <2>2, <2>3 DEF StartupFails, TurnInv
<1>3. CASE StopBegins \/ StopFlushFails \/ StopCloses
  <2>1. Joins'
    BY <1>3 DEF StopBegins, StopFlushFails, StopCloses, mediaVars, TurnInv, Joins
  <2>2. turn' = "loop"
    BY <1>3 DEF StopBegins, StopFlushFails, StopCloses
  <2> QED BY <2>1, <2>2, LoopChooses
<1>4. CASE StopFlushes
  <2>1. Joins' /\ lifecycle' = "closing" /\ turn' \in {"loop", "lifespan"}
    BY <1>4 DEF StopFlushes, TurnInv, Joins
  <2> QED BY <2>1, NotHandlers DEF TurnInv, Joins
<1> QED BY <1>1, <1>2, <1>3, <1>4 DEF Stop

LEMMA TurnStep == IInv /\ TurnInv /\ [Next]_vars => TurnInv'
<1> SUFFICES ASSUME IInv, TurnInv, [Next]_vars PROVE TurnInv'
  OBVIOUS
<1>1. CASE Ingress \/ \E i \in Instances : InferenceEnds(i)
  <2>1. Joins' /\ turn' = "loop"
    BY <1>1 DEF Ingress, DatagramReceived, OversizedReceived, InferenceEnds, mediaVars,
                othersVars, serviceVars, TurnInv, Joins
  <2> QED BY <2>1, LoopChooses
<1>2. CASE UNCHANGED vars
  BY <1>2 DEF vars, mediaVars, othersVars, handlerVars, serviceVars, TurnInv,
              WorkerReady, HandlerReady, Runs, Owns
<1> QED BY <1>1, <1>2, WorkerTurn, HandlerTurn, ServiceTurn DEF Next

LEMMA TurnGoesOn == IInv /\ TurnInv => NobodyStuck
<1> SUFFICES ASSUME IInv, TurnInv PROVE NobodyStuck
  OBVIOUS
<1>0. TypeOK /\ LockDiscipline /\ lock \in Seq(Contenders)
      /\ worker \in {"none", "getting", "locking", "sleeping", "ended"}
  BY DEF IInv, TypeOK
<1>1. ASSUME turn = "loop", lock # <<>>
      PROVE  \/ Owns("worker") /\ WorkerReady
             \/ \E h \in Handlers : Owns(h) /\ HandlerReady(h)
  <2>1. Head(lock) \in ToSet(lock) /\ Head(lock) \in Contenders
    BY <1>0, <1>1, LockTail, HeadTailProperties DEF LockDiscipline
  <2>2. CASE Head(lock) = "worker"
    <3>1. Owns("worker") /\ worker \in {"locking", "sleeping"}
      BY <1>0, <1>1, <2>1, <2>2 DEF Owns, LockDiscipline
    <3> QED BY <1>0, <1>1, <3>1 DEF WorkerReady, Runs, TypeOK
  <2>3. CASE Head(lock) \in Handlers
    <3>1. PICK h \in Handlers : Head(lock) = h
      BY <2>3
    <3>2. Owns(h) /\ pc[h] \in {"locking", "stopping", "resetting"}
      BY <1>0, <1>1, <2>1, <3>1 DEF Owns, LockDiscipline
    <3> QED BY <1>1, <3>2 DEF HandlerReady, Runs
  <2> QED BY <2>1, <2>2, <2>3 DEF Contenders
<1>2. ASSUME turn = "loop", lifecycle \in {"joining", "closing"}
      PROVE  WorkerReady \/ StopReady
  BY <1>0, <1>2 DEF TurnInv, WorkerReady, StopReady, Runs
<1>3. turn = "lifespan" => StopReady
  BY DEF TurnInv, StopReady, Runs
<1> QED BY <1>1, <1>2, <1>3 DEF NobodyStuck, TurnInv

\* No deadlock in the event loop: whoever's code runs can run on, whoever owns
\* _processor_lock while everything is suspended can go on and so release it, and
\* stop() awaits a worker that its cancellation ends, or can close.
THEOREM NobodyIsStuck == Spec => []NobodyStuck
<1>1. Init => TurnInv
  BY NotHandlers DEF Init, TurnInv
<1> QED BY <1>1, Inductive, TurnStep, TurnGoesOn, PTL DEF Spec
=============================================================================
