--------------------------- MODULE TromboneService ---------------------------
(***************************************************************************)
(* The karaoke server's service object, app/audio_trombone/service.py: the *)
(* UDP ingress callback, the bounded input queue, the one worker task, the *)
(* control requests of the HTTP interface, and the service's start and     *)
(* stop.  They all run on one asyncio event loop.                          *)
(*                                                                         *)
(* Code between two suspension points is atomic.  `turn` names the task    *)
(* whose code is running, "loop" when every task is suspended: a step      *)
(* that goes on without suspending leaves `turn` with its task, so nobody  *)
(* else can step in between.                                               *)
(*                                                                         *)
(* A datagram is its arrival number.  A processor is abstracted to what    *)
(* the service can see of it: its name, the value of its one live-settable *)
(* parameter, how far its lifecycle went, and, for a segment-based one,    *)
(* the packets it holds (input, under inference, ready for release).       *)
(***************************************************************************)
EXTENDS Naturals, Sequences, FiniteSets

CONSTANTS
  Handlers,        \* HTTP requests that can be in flight at once
  Names,           \* names in the processor registry
  Kind,            \* what kind of processor each name constructs
  Live,            \* names that have a live-settable parameter
  Levels,          \* values of those parameters
  Startup,         \* the startup settings
  Selectable,      \* names clients ask for with PUT /processor/{name}
  QueueSize,       \* input_queue_size
  SegmentPackets,  \* packets in a segment
  MaxPackets,      \* bound: datagrams of acceptable size that arrive
  MaxOversized,    \* bound: oversized datagrams that arrive
  MaxRequests      \* bound: requests that create a processor or reset it

\* What the processors of the registry do with a packet.  mdx23c-vocals, whose
\* reset() suspends inside process(), is in Mdx23cVocals.
Kinds == {"passthrough", "null", "delay", "reducer", "segmented"}

\* A setting is the selected processor or the live parameter of one name.
Keys == {"processor"} \cup Live
SettingsSet == {s \in [Keys -> Names \cup Levels] :
                  /\ s["processor"] \in Names
                  /\ \A n \in Live : s[n] \in Levels}

ASSUME ConstantsAssumption ==
  /\ Kind \in [Names -> Kinds]
  /\ Live \subseteq Names
  /\ "processor" \notin Names
  /\ Startup \in SettingsSet
  /\ Selectable \subseteq Names
  /\ Handlers \cap {"worker", "lifespan", "loop"} = {}

ASSUME SizesAssumption ==
  /\ QueueSize \in Nat \ {0}
  /\ SegmentPackets \in Nat \ {0}
  /\ MaxPackets \in Nat
  /\ MaxOversized \in Nat
  /\ MaxRequests \in Nat

Packets == 1..MaxPackets
NoPacket == 0
Instances == 0..MaxRequests
Contenders == Handlers \cup {"worker"}
Tasks == Contenders \cup {"lifespan"}

VARIABLES
  lifecycle,   \* progress of start() and stop()
  transport,   \* the UDP endpoint is open
  queue,       \* input_queue
  metrics,     \* the counters of Metrics
  oversized,   \* oversized datagrams so far (history)
  worker,      \* where the worker task is
  packet,      \* the worker's local `packet`
  cancelled,   \* worker_task.cancel() was called
  lock,        \* _processor_lock: owner first, then the waiters in order
  turn,        \* the task whose code is running
  settings,    \* self.settings
  registry,    \* the live parameters the processor_registry closes over
  current,     \* self.processor
  processors,  \* every processor object
  pc,          \* where each request's handler is
  request,     \* each handler's locals
  requests,    \* requests so far that took an object number
  wire         \* outputs handed to the socket, in order

\* The variables by who changes them.
mediaVars   == <<queue, oversized, metrics, worker, packet, wire>>
controlVars == <<settings, registry, current>>
handlerVars == <<pc, request, requests>>
serviceVars == <<lifecycle, transport, cancelled>>
othersVars  == <<controlVars, handlerVars, serviceVars>>
vars == <<mediaVars, othersVars, processors, lock, turn>>

-----------------------------------------------------------------------------
(* Processor objects.                                                      *)

\* The parameter a factory gives the processor it constructs.
NoLevel == "-"
LevelIn(s, n) == IF n \in Live THEN s[n] ELSE NoLevel

\* ProcessorRegistry.create: the factory reads the registry's own settings.
Create(s, n) ==
  [name |-> n, level |-> LevelIn(s, n), phase |-> "created",
   input |-> <<>>, active |-> <<>>, ready |-> <<>>, task |-> "none"]

NoProcessor == [Create(Startup, Startup["processor"]) EXCEPT !.phase = "absent"]

IsSegmented(s) == Kind[s.name] = "segmented"

\* _harvest_inference: collect a finished inference, if there is one.
Harvested(s) ==
  IF s.task \in {"done", "failed"}
  THEN [s EXCEPT !.task = "none", !.active = <<>>,
                 !.ready = IF s.task = "done" THEN @ \o s.active ELSE @]
  ELSE s

\* Buffer a packet and, when nothing runs and a segment is full, launch it.
\* (Mutant: the launched packets stay in the input buffer.)
AcceptedTwice(s, p) ==
  LET input == Append(s.input, p)
  IN  IF s.task = "none" /\ Len(input) >= SegmentPackets
      THEN [s EXCEPT !.task = "running", !.input = input,
                     !.active = SubSeq(input, 1, SegmentPackets)]
      ELSE [s EXCEPT !.input = input]
Accepted(s, p) ==
  LET input == Append(s.input, p)
  IN  IF s.task = "none" /\ Len(input) >= SegmentPackets
      THEN [s EXCEPT !.task = "running",
                     !.active = SubSeq(input, 1, SegmentPackets),
                     !.input = SubSeq(input, SegmentPackets + 1, Len(input))]
      ELSE [s EXCEPT !.input = input]

\* process() yields at most one ready packet, flush() all of them.
\* (Mutant: an empty output when none is ready.)
FirstOrEmpty(q) == IF q = <<>> THEN <<NoPacket>> ELSE <<Head(q)>>
FirstOf(q) == IF q = <<>> THEN <<>> ELSE <<Head(q)>>
RestOf(q)  == IF q = <<>> THEN <<>> ELSE Tail(q)

\* reset() after the inference task has ended, and stop() around it.
Cleared(s) ==
  [s EXCEPT !.task = "none", !.input = <<>>, !.active = <<>>, !.ready = <<>>]
\* (Mutant: the old processor is only reset.)
OnlyReset(s) == Cleared(s)
Stopped(s) == [Cleared(s) EXCEPT !.phase = "stopped"]

\* A processor after its flush(), with its stop() begun: a running inference is
\* cancelled, and stop() awaits its end.  (Mutant: stop() without flush().)
Unflushed(s) == [s EXCEPT !.task = IF @ = "running" THEN "cancelled" ELSE @]
Drained(s) ==
  [s EXCEPT !.ready = <<>>, !.task = IF @ = "running" THEN "cancelled" ELSE @]

\* Packets an object would still release if nothing failed.
Buffered(s) == s.ready \o s.active \o s.input

-----------------------------------------------------------------------------
(* Counting and sending.                                                   *)

\* The positions of an n-output sequence whose sendto succeeds, in order.
Choices(n) == UNION {{f \in [1..k -> 1..n] : \A i, j \in 1..k : i < j => f[i] < f[j]} :
                       k \in 0..n}

\* _send_output for n outputs, k of which sendto accepts.
\* (Mutant: packets_forwarded is counted whatever sendto does.)
EmittedUnchecked(m, n, k) ==
  [m EXCEPT !.emitted = @ + n, !.forwarded = @ + n, !.forwardingErrors = @ + (n - k)]
Emitted(m, n, k) ==
  [m EXCEPT !.emitted = @ + n, !.forwarded = @ + k, !.forwardingErrors = @ + (n - k)]

\* What reaches the wire; `via` is the packet whose sender is the destination.
OnWire(outs, chosen, via) ==
  [k \in 1..Len(chosen) |-> [packet |-> outs[chosen[k]], via |-> via]]

\* last_sender_host.  (Mutant: only the first sender is ever recorded.)
FirstSender == IF metrics.received = 0 THEN NoPacket ELSE 1
LastSender == metrics.received

\* _flush_processor: outputs go to the last known sender.
Flush(outs) ==
  \E chosen \in Choices(Len(outs)) :
    /\ metrics' = Emitted(metrics, Len(outs), Len(chosen))
    /\ wire' = wire \o OnWire(outs, chosen, LastSender)

-----------------------------------------------------------------------------
(* The event loop and the FIFO lock.                                       *)

Runs(t) == turn \in {"loop", t}

Owns(t) == lock # <<>> /\ Head(lock) = t

\* `async with lock`: the free lock is taken without suspending.
\* (Mutant: a newcomer takes the lock, whoever owns it.)
Barge(t) == lock' = <<t>> \o lock /\ turn' = t
Acquire(t) ==
  /\ lock' = Append(lock, t)
  /\ turn' = IF lock = <<>> THEN t ELSE "loop"

\* (Mutant: one path leaves the lock taken.)
KeepLock == UNCHANGED lock
Release == lock' = Tail(lock)

-----------------------------------------------------------------------------
Init ==
  /\ lifecycle = "new"
  /\ transport = FALSE
  /\ queue = <<>>
  /\ metrics = [received |-> 0, enqueued |-> 0, dropped |-> 0, processed |-> 0,
                emitted |-> 0, forwarded |-> 0, processorErrors |-> 0,
                forwardingErrors |-> 0, highWatermark |-> 0]
  /\ oversized = 0
  /\ worker = "none"
  /\ packet = NoPacket
  /\ cancelled = FALSE
  /\ lock = <<>>
  /\ turn = "loop"
  /\ settings = Startup
  /\ registry = [n \in Live |-> Startup[n]]
  /\ current = 0
  /\ processors = [i \in Instances |->
                     IF i = 0 THEN Create(Startup, Startup["processor"])
                     ELSE NoProcessor]
  /\ pc = [h \in Handlers |-> "idle"]
  /\ request = [h \in Handlers |->
                  [kind |-> "none", inst |-> 0, old |-> 0, candidate |-> Startup]]
  /\ requests = 0
  /\ wire = <<>>

-----------------------------------------------------------------------------
(* UDP ingress: UdpIngressProtocol.datagram_received.                      *)

\* put_nowait raises QueueFull unless this holds.  (Mutant: off by one.)
FitsOneMore == Len(queue) <= QueueSize
Fits == Len(queue) < QueueSize

DatagramReceived ==
  /\ turn = "loop" /\ transport /\ metrics.received < MaxPackets
  /\ LET p == metrics.received + 1
         size == Len(queue) + 1
     IN  IF Fits
         THEN /\ queue' = Append(queue, p)
              /\ metrics' = [metrics EXCEPT !.received = p, !.enqueued = @ + 1,
                               !.highWatermark = IF size > @ THEN size ELSE @]
         ELSE /\ metrics' = [metrics EXCEPT !.received = p, !.dropped = @ + 1]
              /\ UNCHANGED queue
  /\ UNCHANGED <<othersVars, oversized, worker, packet, wire, processors, lock,
                 turn>>

OversizedReceived ==
  /\ turn = "loop" /\ transport /\ oversized < MaxOversized
  /\ oversized' = oversized + 1
  /\ metrics' = [metrics EXCEPT !.dropped = @ + 1]
  /\ UNCHANGED <<othersVars, queue, worker, packet, wire, processors, lock,
                 turn>>

-----------------------------------------------------------------------------
(* The worker: _processing_loop.                                           *)

WorkerGet ==
  /\ worker = "getting" /\ Runs("worker") /\ ~cancelled /\ queue # <<>>
  /\ packet' = Head(queue)
  /\ queue' = Tail(queue)
  /\ worker' = "locking"
  /\ Acquire("worker")
  /\ UNCHANGED <<othersVars, oversized, metrics, wire, processors>>

\* The worker holds the lock and calls self.processor.process(packet).
Processing == worker = "locking" /\ Owns("worker") /\ Runs("worker") /\ ~cancelled

\* Where the loop goes after a packet, also after one whose processing raised.
\* (Mutant: the loop is left.)
LoopLeft == "ended"
LoopState == "getting"

\* The end of one round: the lock is released and the loop goes on, without
\* suspending as long as the queue is not empty.
NextRound ==
  /\ Release
  /\ worker' = LoopState
  /\ packet' = NoPacket
  /\ turn' = IF queue = <<>> THEN "loop" ELSE "worker"
  /\ UNCHANGED <<othersVars, queue, oversized>>

Finished(outs) ==
  \E chosen \in Choices(Len(outs)) :
    /\ metrics' = [Emitted(metrics, Len(outs), Len(chosen)) EXCEPT !.processed = @ + 1]
    /\ wire' = wire \o OnWire(outs, chosen, packet)

\* Everything that neither suspends nor buffers yields its packet or nothing.
ProcessDirect ==
  /\ Processing
  /\ Kind[processors[current].name] \in {"passthrough", "reducer", "null"}
  /\ Finished(IF Kind[processors[current].name] = "null" THEN <<>> ELSE <<packet>>)
  /\ NextRound
  /\ UNCHANGED processors

\* delay-passthrough suspends in asyncio.sleep, holding the lock.
ProcessDelay ==
  /\ Processing
  /\ Kind[processors[current].name] = "delay"
  /\ worker' = "sleeping"
  /\ turn' = "loop"
  /\ UNCHANGED <<othersVars, queue, oversized, metrics, packet, wire,
                 processors, lock>>

WorkerWakes ==
  /\ worker = "sleeping" /\ turn = "loop" /\ ~cancelled
  /\ Finished(<<packet>>)
  /\ NextRound
  /\ UNCHANGED processors

ProcessSegmented ==
  /\ Processing
  /\ IsSegmented(processors[current])
  /\ processors[current].task # "failed"
  /\ LET s == Accepted(Harvested(processors[current]), packet)
     IN  /\ processors' = [processors EXCEPT ![current] =
                             [s EXCEPT !.ready = RestOf(@)]]
         /\ Finished(FirstOf(s.ready))
  /\ NextRound

\* (Mutant: packets_processed is counted in the `finally`.)
ErrorProcessed == [metrics EXCEPT !.processorErrors = @ + 1, !.processed = @ + 1]
ErrorCounted == [metrics EXCEPT !.processorErrors = @ + 1]

\* process() raises: a payload the processor cannot decode, or the failure of
\* the inference it harvests first.
ProcessError ==
  /\ Processing
  /\ Kind[processors[current].name] \in {"reducer", "segmented"}
  /\ processors' = [processors EXCEPT ![current] = Harvested(@)]
  /\ metrics' = ErrorCounted
  /\ NextRound
  /\ UNCHANGED wire

\* CancelledError is re-raised, so it ends the task.  (Mutant: the loop goes on.)
CancelSwallowed == "getting"
CancelEnds == "ended"

\* stop() cancelled the task: CancelledError at whichever await it is in.  No
\* request is in flight then, so the worker's place in the lock is the first.
WorkerCancelled ==
  /\ cancelled /\ turn = "loop" /\ worker \in {"getting", "locking", "sleeping"}
  /\ worker' = CancelEnds
  /\ packet' = NoPacket
  /\ lock' = IF worker = "getting" THEN lock ELSE Tail(lock)
  /\ UNCHANGED <<othersVars, queue, oversized, metrics, wire, processors, turn>>

\* An inference thread returns, or raises.
InferenceEnds(i) ==
  /\ turn = "loop"
  /\ processors[i].task = "running"
  /\ \E outcome \in {"done", "failed"} :
       processors' = [processors EXCEPT ![i].task = outcome]
  /\ UNCHANGED <<mediaVars, othersVars, lock, turn>>

-----------------------------------------------------------------------------
(* Control requests.  A handler runs from "idle" to "idle".                *)

CanBegin(h) == turn = "loop" /\ lifecycle = "running" /\ pc[h] = "idle"

\* Construct the replacement and await its start(): only a model load suspends.
Construct(h, kind, s, n, candidate) ==
  /\ requests < MaxRequests
  /\ requests' = requests + 1
  /\ processors' = [processors EXCEPT ![requests + 1] = Create(s, n)]
  /\ request' = [request EXCEPT ![h] = [kind |-> kind, inst |-> requests + 1,
                                        old |-> 0, candidate |-> candidate]]
  /\ pc' = [pc EXCEPT ![h] = "starting"]
  /\ turn' = IF Kind[n] = "segmented" THEN "loop" ELSE h
  /\ UNCHANGED <<mediaVars, controlVars, serviceVars, lock>>

\* PUT /processor/{name}: the replacement comes from the service's registry.
BeginSelect(h, n) ==
  CanBegin(h) /\ Construct(h, "select", registry, n, Startup)

\* replace(self.settings, **updates)
Replaced(s, updates) ==
  [k \in Keys |-> IF k \in DOMAIN updates THEN updates[k] ELSE s[k]]

\* _flatten_updates keeps what differs; an empty rest changes nothing.
Differs(updates) ==
  DOMAIN updates # {} /\ \A k \in DOMAIN updates : updates[k] # settings[k]

\* _find_live_apply_rule: one key, the active processor's own parameter.
LiveRule(updates) == DOMAIN updates = {processors[current].name}

\* update_runtime_settings, applied live: nothing suspends, nothing is locked.
LiveApply(h, updates) ==
  /\ CanBegin(h) /\ Differs(updates) /\ LiveRule(updates)
  /\ processors' = [processors EXCEPT ![current].level =
                      updates[processors[current].name]]
  /\ settings' = Replaced(settings, updates)
  /\ UNCHANGED <<mediaVars, handlerVars, serviceVars, registry, current, lock,
                 turn>>

\* update_runtime_settings, through a new registry and a replacement.
BeginUpdate(h, updates) ==
  /\ CanBegin(h) /\ Differs(updates) /\ ~LiveRule(updates)
  /\ LET candidate == Replaced(settings, updates)
     IN  Construct(h, "update", candidate, candidate["processor"], candidate)

\* DELETE /api/settings names every key, so it always restarts.
BeginRestore(h) ==
  /\ CanBegin(h)
  /\ Construct(h, "update", Startup, Startup["processor"], Startup)

Finish(h) == pc' = [pc EXCEPT ![h] = "idle"] /\ UNCHANGED <<request, requests>>

\* await replacement.start() raises: the request fails, nothing else changes.
StartFails(h) ==
  /\ pc[h] = "starting" /\ Runs(h)
  /\ IsSegmented(processors[request[h].inst])
  /\ processors' = [processors EXCEPT ![request[h].inst].phase = "discarded"]
  /\ turn' = "loop"
  /\ Finish(h)
  /\ UNCHANGED <<mediaVars, controlVars, serviceVars, lock>>

\* (Mutant: start() is called and not awaited.)
StartIgnored(h) == processors
StartAwaited(h) == [processors EXCEPT ![request[h].inst].phase = "started"]

Started(h) ==
  /\ pc[h] = "starting" /\ Runs(h)
  /\ processors' = StartAwaited(h)
  /\ pc' = [pc EXCEPT ![h] = "locking"]
  /\ Acquire(h)
  /\ UNCHANGED <<mediaVars, controlVars, serviceVars, request, requests>>

\* A handler in its critical section.
InLock(h) == pc[h] = "locking" /\ Owns(h) /\ Runs(h)

\* The old processor's flush() raises: the replacement is not installed.
\* (Mutant: it has been installed before the flush.)
InstalledEarly(h) == current' = request[h].inst /\ UNCHANGED <<settings, registry>>
NotInstalled(h) == UNCHANGED controlVars

FlushFails(h) ==
  /\ InLock(h) /\ request[h].kind # "reset"
  /\ processors[current].task = "failed"
  /\ processors' = [processors EXCEPT ![current] = Harvested(@)]
  /\ Release
  /\ turn' = "loop"
  /\ Finish(h)
  /\ NotInstalled(h)
  /\ UNCHANGED <<mediaVars, serviceVars>>

\* Flush the old processor, install the replacement, stop the old one: its
\* stop() suspends only to await an inference it has just cancelled.
Switch(h) ==
  /\ InLock(h) /\ request[h].kind # "reset"
  /\ processors[current].task # "failed"
  /\ LET old == Harvested(processors[current])
     IN  /\ Flush(old.ready)
         /\ processors' = [processors EXCEPT
              ![request[h].inst].phase = "installed",
              ![current] = Drained(old)]
         /\ turn' = IF old.task = "running" THEN "loop" ELSE h
  /\ current' = request[h].inst
  /\ IF request[h].kind = "update"
     THEN /\ registry' = [n \in Live |-> request[h].candidate[n]]
          /\ settings' = request[h].candidate
     ELSE UNCHANGED <<registry, settings>>
  /\ request' = [request EXCEPT ![h].old = current]
  /\ pc' = [pc EXCEPT ![h] = "stopping"]
  /\ UNCHANGED <<serviceVars, queue, oversized, worker, packet, requests, lock>>

\* select_processor records the name once the old processor has stopped.
\* (Mutant: it never does.)
NameForgotten(h) == settings
NameRecorded(h) ==
  IF request[h].kind = "select"
  THEN [settings EXCEPT !["processor"] = processors[request[h].inst].name]
  ELSE settings

OldStopped(h) ==
  /\ pc[h] = "stopping" /\ Runs(h)
  /\ processors' = [processors EXCEPT ![request[h].old] = Stopped(@)]
  /\ Release
  /\ turn' = "loop"
  /\ settings' = NameRecorded(h)
  /\ Finish(h)
  /\ UNCHANGED <<mediaVars, serviceVars, registry, current>>

\* POST /processor/reset
BeginReset(h) ==
  /\ CanBegin(h)
  /\ requests < MaxRequests
  /\ requests' = requests + 1
  /\ request' = [request EXCEPT ![h] = [kind |-> "reset", inst |-> 0, old |-> 0,
                                        candidate |-> Startup]]
  /\ pc' = [pc EXCEPT ![h] = "locking"]
  /\ Acquire(h)
  /\ UNCHANGED <<mediaVars, controlVars, serviceVars, processors>>

\* reset() cancels a running inference and awaits its end with the lock held.
ResetCancels(h) ==
  /\ InLock(h) /\ request[h].kind = "reset"
  /\ processors[current].task = "running"
  /\ processors' = [processors EXCEPT ![current].task = "cancelled"]
  /\ pc' = [pc EXCEPT ![h] = "resetting"]
  /\ turn' = "loop"
  /\ UNCHANGED <<mediaVars, controlVars, serviceVars, request, requests, lock>>

ResetClears(h) ==
  /\ \/ InLock(h) /\ request[h].kind = "reset" /\ processors[current].task # "running"
     \/ pc[h] = "resetting" /\ Runs(h)
  /\ processors' = [processors EXCEPT ![current] = Cleared(@)]
  /\ Release
  /\ turn' = "loop"
  /\ Finish(h)
  /\ UNCHANGED <<mediaVars, controlVars, serviceVars>>

-----------------------------------------------------------------------------
(* start() and stop(), the application's lifespan.                         *)

\* start(): the processor starts, the socket is bound, the worker is created.
Start ==
  /\ lifecycle = "new"
  /\ lifecycle' = "running"
  /\ transport' = TRUE
  /\ worker' = "getting"
  /\ processors' = [processors EXCEPT ![0].phase = "installed"]
  /\ UNCHANGED <<controlVars, handlerVars, queue, oversized, metrics, packet,
                 wire, cancelled, lock, turn>>

\* The processor's start() raises, or the bind does after it has started.
StartupFails ==
  /\ lifecycle = "new"
  /\ lifecycle' = "failed"
  /\ \/ /\ IsSegmented(processors[0])
        /\ processors' = [processors EXCEPT ![0].phase = "discarded"]
     \/ processors' = [processors EXCEPT ![0].phase = "started"]
  /\ UNCHANGED <<mediaVars, controlVars, handlerVars, transport, cancelled,
                 lock, turn>>

\* stop() cancels the worker and awaits it.  The HTTP server runs it when no
\* request is in flight, and accepts none from then on.
StopBegins ==
  /\ turn = "loop" /\ lifecycle = "running"
  /\ \A h \in Handlers : pc[h] = "idle"
  /\ lifecycle' = "joining"
  /\ cancelled' = TRUE
  /\ UNCHANGED <<mediaVars, controlVars, handlerVars, transport, processors,
                 lock, turn>>

\* The last flush raises: processor.stop() and transport.close() are skipped.
StopFlushFails ==
  /\ turn = "loop" /\ lifecycle = "joining" /\ worker = "ended"
  /\ processors[current].task = "failed"
  /\ processors' = [processors EXCEPT ![current] = Harvested(@)]
  /\ lifecycle' = "stopFailed"
  /\ UNCHANGED <<mediaVars, controlVars, handlerVars, transport, cancelled,
                 lock, turn>>

StopFlushes ==
  /\ turn = "loop" /\ lifecycle = "joining" /\ worker = "ended"
  /\ processors[current].task # "failed"
  /\ LET s == Harvested(processors[current])
     IN  /\ Flush(s.ready)
         /\ processors' = [processors EXCEPT ![current] = Drained(s)]
         /\ turn' = IF s.task = "running" THEN "loop" ELSE "lifespan"
  /\ lifecycle' = "closing"
  /\ UNCHANGED <<controlVars, handlerVars, queue, oversized, worker, packet,
                 transport, cancelled, lock>>

StopCloses ==
  /\ Runs("lifespan") /\ lifecycle = "closing"
  /\ turn' = "loop"
  /\ processors' = [processors EXCEPT ![current] = Stopped(@)]
  /\ transport' = FALSE
  /\ lifecycle' = "stopped"
  /\ UNCHANGED <<mediaVars, controlVars, handlerVars, cancelled, lock>>
-----------------------------------------------------------------------------

\* Every update a client can send: any nonempty choice of keys and values.
Updates == UNION {{u \in [K -> Names \cup Levels] :
                     \A k \in K : u[k] \in IF k = "processor" THEN Names ELSE Levels} :
                    K \in SUBSET Keys \ {{}}}

Ingress == DatagramReceived \/ OversizedReceived

Worker == \/ WorkerGet \/ ProcessDirect \/ ProcessDelay \/ WorkerWakes
          \/ ProcessSegmented \/ ProcessError \/ WorkerCancelled

Begin(h) == \/ \E n \in Selectable : BeginSelect(h, n)
            \/ \E u \in Updates : LiveApply(h, u) \/ BeginUpdate(h, u)
            \/ BeginRestore(h)
            \/ BeginReset(h)

Handle(h) == \/ StartFails(h) \/ Started(h) \/ FlushFails(h) \/ Switch(h)
             \/ OldStopped(h) \/ ResetCancels(h) \/ ResetClears(h)

Stop == StopFlushFails \/ StopFlushes \/ StopCloses

Next == \/ Ingress \/ Worker
        \/ \E i \in Instances : InferenceEnds(i)
        \/ \E h \in Handlers : Begin(h) \/ Handle(h)
        \/ Start \/ StartupFails \/ StopBegins \/ Stop

\* The event loop runs every task that is ready, and inferences end; nothing
\* forces clients to send, to ask for changes, or to stop the server.
Fairness == /\ WF_vars(Worker)
            /\ \A i \in Instances : WF_vars(InferenceEnds(i))
            /\ \A h \in Handlers : WF_vars(Handle(h))
            /\ WF_vars(Stop)

Spec == Init /\ [][Next]_vars /\ Fairness
-----------------------------------------------------------------------------
(* Properties.                                                             *)

Object == [name : Names, level : Levels \cup {NoLevel},
           phase : {"absent", "created", "discarded", "started", "installed", "stopped"},
           input : Seq(Packets), active : Seq(Packets), ready : Seq(Packets),
           task : {"none", "running", "done", "failed", "cancelled"}]

Counters == [received : Nat, enqueued : Nat, dropped : Nat, processed : Nat,
             emitted : Nat, forwarded : Nat, processorErrors : Nat,
             forwardingErrors : Nat, highWatermark : Nat]

\* The values the variables of the service range over.
TypeOK ==
  /\ lifecycle \in {"new", "running", "joining", "closing", "stopped", "stopFailed",
                     "failed"}
  /\ transport \in BOOLEAN
  /\ queue \in Seq(Packets)
  /\ metrics \in Counters
  /\ metrics.received <= MaxPackets
  /\ oversized \in Nat
  /\ worker \in {"none", "getting", "locking", "sleeping", "ended"}
  /\ packet \in Packets \cup {NoPacket}
  /\ cancelled \in BOOLEAN
  /\ lock \in Seq(Contenders)
  /\ turn \in Tasks \cup {"loop"}
  /\ settings \in SettingsSet
  /\ registry \in [Live -> Levels]
  /\ current \in Instances
  /\ processors \in [Instances -> Object]
  /\ pc \in [Handlers -> {"idle", "starting", "locking", "stopping", "resetting"}]
  /\ request \in [Handlers -> [kind : {"none", "select", "update", "reset"},
                               inst : Instances, old : Instances,
                               candidate : SettingsSet]]
  /\ requests \in 0..MaxRequests
  /\ wire \in Seq([packet : Packets, via : Packets \cup {NoPacket}])

InFlight == IF packet = NoPacket THEN 0 ELSE 1

\* Every datagram is accounted for: dropped at the full queue, waiting, in the
\* worker's hands, processed, failed, or, one at most, lost when stop() cancels
\* the worker in the middle of it (_processing_loop's three ways out).
PacketsAccounted ==
  /\ metrics.received + oversized = metrics.enqueued + metrics.dropped
  /\ LET known == metrics.processed + metrics.processorErrors + Len(queue) + InFlight
     IN  \/ metrics.enqueued = known
         \/ worker = "ended" /\ metrics.enqueued = known + 1

\* Every output is accounted for: sent, or counted as a forwarding error, by the
\* worker and by the flushes of switches and of stop() alike.
OutputsAccounted ==
  /\ metrics.emitted = metrics.forwarded + metrics.forwardingErrors
  /\ metrics.forwarded = Len(wire)

\* The ingress queue is bounded and the watermark is a true maximum of its size.
QueueBounded == Len(queue) <= metrics.highWatermark /\ metrics.highWatermark <= QueueSize

ToSet(q) == {q[k] : k \in 1..Len(q)}
Distinct(q) == \A j, k \in 1..Len(q) : q[j] = q[k] => j = k

\* Whoever is inside the processor owns the lock, and the lock's queue holds
\* exactly the tasks that asked for it: process(), flush(), reset() and stop()
\* of the active processor never overlap, whatever suspends inside them.
LockDiscipline ==
  /\ Distinct(lock)
  /\ "worker" \in ToSet(lock) <=> worker \in {"locking", "sleeping"}
  /\ \A h \in Handlers :
       h \in ToSet(lock) <=> pc[h] \in {"locking", "stopping", "resetting"}
  /\ worker = "sleeping" => Owns("worker")
  /\ \A h \in Handlers : pc[h] \in {"stopping", "resetting"} => Owns(h)

\* What a task that is not idle needs to run its next step.
WorkerReady ==
  \/ /\ ~cancelled /\ Runs("worker")
     /\ \/ worker = "getting" /\ queue # <<>>
        \/ worker = "locking" /\ Owns("worker")
  \/ /\ turn = "loop"
     /\ \/ worker = "sleeping"
        \/ cancelled /\ worker \in {"getting", "locking"}
HandlerReady(h) ==
  /\ Runs(h)
  /\ \/ pc[h] \in {"starting", "stopping", "resetting"}
     \/ pc[h] = "locking" /\ Owns(h)
StopReady ==
  \/ lifecycle = "closing" /\ Runs("lifespan")
  \/ lifecycle = "joining" /\ worker = "ended" /\ turn = "loop"

\* Nobody waits for nobody: the task whose code runs can go on, so can whoever owns
\* the lock when all are suspended, and stop() waits only for a worker that can end.
NobodyStuck ==
  /\ turn = "worker" => WorkerReady
  /\ turn = "lifespan" => StopReady
  /\ \A h \in Handlers : turn = h => HandlerReady(h)
  /\ turn = "loop" /\ lock # <<>> =>
       \/ Owns("worker") /\ WorkerReady
       \/ \E h \in Handlers : Owns(h) /\ HandlerReady(h)
  /\ turn = "loop" /\ lifecycle \in {"joining", "closing"} => WorkerReady \/ StopReady

\* The processor that receives packets is started and not stopped, and every
\* object that was ever installed and is no longer active has been stopped or
\* is being stopped by the request that replaced it.
OneServing ==
  /\ lifecycle \in {"running", "joining"} => processors[current].phase = "installed"
  /\ \A i \in Instances \ {current} :
       processors[i].phase = "installed" =>
         \E h \in Handlers : pc[h] = "stopping" /\ request[h].old = i

\* When nobody is switching, the settings name the active processor, although
\* select_processor records the name only after the old processor has stopped.
SettingsNameProcessor ==
  lock = <<>> => settings["processor"] = processors[current].name

\* Requests build the active processor's parameter from the settings: what the
\* settings report is what the active processor uses (architecture.md: a setting
\* "must remain consistent across configuration, registry construction, ...").
ActiveLevelMatchesSettings ==
  lock = <<>> => processors[current].level = LevelIn(settings, processors[current].name)

\* What can still be sent, oldest first.
Pending == Buffered(processors[current])
             \o (IF packet = NoPacket THEN <<>> ELSE <<packet>>) \o queue

Fifo == INSTANCE LossyFifo WITH
  arrived <- metrics.received,
  held <- Pending,
  out <- [k \in 1..Len(wire) |-> wire[k].packet]

\* The service as a whole is a lossy FIFO: through full queues, failed segments,
\* resets and switches, no datagram is answered twice or out of arrival order,
\* and none that was given up comes back ("silence rather than stale replay").
ImplementsLossyFifo == Fifo!Spec

\* The settings as they will be when a selection that has installed its processor
\* and waits for the old one to stop has recorded the name.
Reported ==
  IF \E h \in Handlers : pc[h] = "stopping" /\ request[h].kind = "select"
  THEN [settings EXCEPT !["processor"] = processors[current].name]
  ELSE settings

Control == INSTANCE ControlPlane WITH
  Settings <- SettingsSet,
  reported <- Reported,
  serving <- [name |-> processors[current].name, level |-> processors[current].level]

\* Requests are atomic: however many are in flight, each changes the processor, its
\* parameter and the settings together at one moment, or changes none of them.
ImplementsControlPlane == Control!Spec

\* An output never goes to the sender of an older packet than its own.
SenderNotOlder == \A k \in 1..Len(wire) : wire[k].via >= wire[k].packet

\* "A replacement processor is not installed until it has started successfully"
\* (architecture.md), and it starts with nothing buffered.
InstallsStarted ==
  [][current' # current => /\ processors[current'].phase = "started"
                           /\ Buffered(processors[current']) = <<>>]_vars

\* A request that fails, while starting its replacement or while flushing the
\* old processor, leaves the settings, the registry and the processor alone.
FailureChangesNothing ==
  [][\A h \in Handlers :
       /\ pc[h] \in {"starting", "locking"}
       /\ pc'[h] = "idle"
       /\ request[h].kind # "reset"
       => UNCHANGED controlVars]_vars

\* "Buffered output from the old processor is flushed before it is stopped"
\* (architecture.md): nothing is ready in an object when its stop() clears it.
FlushedBeforeStopped ==
  [][\A i \in Instances :
       processors[i].phase = "installed" /\ processors'[i].phase = "stopped"
       => processors[i].ready = <<>>]_vars

\* Every control request ends, successfully or not.
RequestsEnd == \A h \in Handlers : pc[h] # "idle" ~> pc[h] = "idle"

\* A packet on the queue of a running service reaches the processor.
QueueDrains == queue # <<>> /\ lifecycle = "running"
               ~> queue = <<>> \/ lifecycle # "running"

\* stop() comes to an end.
StopEnds == lifecycle = "joining" ~> lifecycle \in {"stopped", "stopFailed"}
=============================================================================
