----------------------- MODULE ProcessorSwitch_proofs -----------------------
(***************************************************************************)
(* Proofs about the switches of TromboneService: which processor object is *)
(* installed, what becomes of the one it replaces, what the settings say   *)
(* about it; that requests are atomic; and that no packet is sent twice,   *)
(* late or out of order across switches, resets and failures, for every    *)
(* interleaving of requests.                                               *)
(***************************************************************************)
EXTENDS TromboneService_proofs, Segments_proofs

-----------------------------------------------------------------------------
(* The invariant.                                                          *)

\* A handler that has constructed a replacement and not installed it yet.
Installing(h) ==
  \/ pc[h] = "starting"
  \/ pc[h] = "locking" /\ request[h].kind # "reset"

\* Its object is its own: no other request and no packet has touched it.
IsReplacement(h) ==
  LET inst == request[h].inst
      s == processors[inst]
  IN  /\ inst # current /\ inst <= requests
      /\ s.phase = IF pc[h] = "starting" THEN "created" ELSE "started"
      /\ s.task = "none" /\ Buffered(s) = <<>>
      /\ request[h].kind \in {"select", "update"}
      /\ request[h].kind = "update" =>
           /\ s.name = request[h].candidate["processor"]
           /\ s.level = LevelIn(request[h].candidate, s.name)

ReplacementsInv ==
  /\ \A h \in Handlers : Installing(h) => IsReplacement(h)
  /\ \A g, h \in Handlers :
       Installing(g) /\ Installing(h) /\ g # h => request[g].inst # request[h].inst

\* A handler that has installed its replacement and waits for the old one.
StoppingInv ==
  \A h \in Handlers : pc[h] = "stopping" =>
    /\ request[h].inst = current
    /\ request[h].old # current /\ request[h].old <= requests
    /\ processors[request[h].old].phase = "installed"
    /\ request[h].kind # "select" => settings["processor"] = processors[current].name

\* The settings name the active processor, except between an installation and
\* the end of the old one's stop().
NameInv ==
  (\A h \in Handlers : pc[h] # "stopping")
    => settings["processor"] = processors[current].name

LifecycleInv ==
  /\ \A h \in Handlers : pc[h] # "idle" => lifecycle = "running"
  /\ lifecycle = "new" => current = 0
  /\ current <= requests

SwitchInv == ReplacementsInv /\ StoppingInv /\ NameInv /\ LifecycleInv /\ OneServing

-----------------------------------------------------------------------------
(* Steps that neither construct, install nor stop.                         *)

\* What an object is stays; what it buffers changes only in the active one, or
\* when an inference ends.
ObjectsKept ==
  \A i \in Instances :
    /\ processors'[i].name = processors[i].name
    /\ processors'[i].phase = processors[i].phase
    /\ i # current /\ processors[i].task = "none" => processors'[i] = processors[i]

\* A handler stays where it is, ends, or resets.
HandlerKept(h) ==
  \/ pc'[h] = pc[h] /\ request'[h] = request[h]
  \/ /\ pc[h] # "stopping"
     /\ \/ pc'[h] \in {"idle", "resetting"}
        \/ pc'[h] = "locking" /\ request'[h].kind = "reset"

LEMMA KeptStep ==
  ASSUME TypeOK, SwitchInv, ObjectsKept, current' = current,
         settings'["processor"] = settings["processor"],
         requests' \in Nat, requests <= requests',
         \A h \in Handlers : HandlerKept(h),
         \A h \in Handlers : pc'[h] # "idle" => lifecycle' = "running",
         lifecycle' \in {"running", "joining"} => lifecycle \in {"running", "joining"},
         lifecycle' = "new" => lifecycle = "new"
  PROVE  SwitchInv'
<1>1. /\ current \in Instances /\ requests \in Nat /\ Instances \subseteq Nat
      /\ \A h \in Handlers : request[h].inst \in Instances /\ request[h].old \in Instances
  BY SizesAssumption DEF TypeOK, Instances
<1>2. \A h \in Handlers : Installing(h)' =>
        Installing(h) /\ pc'[h] = pc[h] /\ request'[h] = request[h]
  BY DEF Installing, HandlerKept
<1>3. \A h \in Handlers : pc'[h] = "stopping" =>
        pc[h] = "stopping" /\ request'[h] = request[h]
  BY DEF HandlerKept
<1>4. \A h \in Handlers : pc[h] = "stopping" =>
        pc'[h] = "stopping" /\ request'[h] = request[h]
  BY DEF HandlerKept
<1>5. ReplacementsInv'
  <2>1. ASSUME NEW h \in Handlers, Installing(h)' PROVE IsReplacement(h)'
    <3>1. Installing(h) /\ pc'[h] = pc[h] /\ request'[h] = request[h]  BY <1>2, <2>1
    <3>2. IsReplacement(h)  BY <3>1 DEF SwitchInv, ReplacementsInv
    <3>3. processors'[request[h].inst] = processors[request[h].inst]
      BY <1>1, <3>2 DEF IsReplacement, ObjectsKept
    <3>4. request[h].inst <= requests'
      <4>1. request[h].inst \in Nat /\ request[h].inst <= requests
        BY <1>1, <3>2 DEF IsReplacement
      <4> QED  BY <1>1, <4>1
    <3> QED  BY <3>1, <3>2, <3>3, <3>4 DEF IsReplacement
  <2>2. \A g, h \in Handlers :
          Installing(g)' /\ Installing(h)' /\ g # h => request'[g].inst # request'[h].inst
    BY <1>2 DEF SwitchInv, ReplacementsInv
  <2> QED  BY <2>1, <2>2 DEF ReplacementsInv
<1>6. StoppingInv'
  <2> SUFFICES ASSUME NEW h \in Handlers, pc'[h] = "stopping"
               PROVE  /\ request'[h].inst = current'
                      /\ request'[h].old # current' /\ request'[h].old <= requests'
                      /\ processors'[request'[h].old].phase = "installed"
                      /\ request'[h].kind # "select" =>
                           settings'["processor"] = processors'[current'].name
    BY DEF StoppingInv
  <2>1. pc[h] = "stopping" /\ request'[h] = request[h]  BY <1>3
  <2>2. /\ request[h].inst = current
        /\ request[h].old # current /\ request[h].old <= requests
        /\ processors[request[h].old].phase = "installed"
        /\ request[h].kind # "select" => settings["processor"] = processors[current].name
    BY <2>1 DEF SwitchInv, StoppingInv
  <2>3. /\ processors'[request[h].old].phase = processors[request[h].old].phase
        /\ processors'[current].name = processors[current].name
    BY <1>1 DEF ObjectsKept
  <2>4. request[h].old <= requests'
    <3>1. request[h].old \in Nat  BY <1>1
    <3> QED  BY <1>1, <2>2, <3>1
  <2> QED  BY <2>1, <2>2, <2>3, <2>4
<1>7. NameInv'  BY <1>1, <1>4 DEF SwitchInv, NameInv, ObjectsKept
<1>8. LifecycleInv'  BY <1>1 DEF SwitchInv, LifecycleInv
<1>9. OneServing'
  <2>1. lifecycle' \in {"running", "joining"} => processors'[current'].phase = "installed"
    BY <1>1 DEF SwitchInv, OneServing, ObjectsKept
  <2>2. ASSUME NEW i \in Instances, i # current', processors'[i].phase = "installed"
        PROVE  \E h \in Handlers : pc'[h] = "stopping" /\ request'[h].old = i
    <3>1. PICK h \in Handlers : pc[h] = "stopping" /\ request[h].old = i
      BY <2>2 DEF SwitchInv, OneServing, ObjectsKept
    <3> QED  BY <1>4, <3>1
  <2> QED  BY <2>1, <2>2 DEF OneServing
<1> QED  BY <1>5, <1>6, <1>7, <1>8, <1>9 DEF SwitchInv

\* A replaced object that keeps its name and phase.
LEMMA ObjectChanged ==
  ASSUME TypeOK, NEW i \in Instances, NEW s, processors' = [processors EXCEPT ![i] = s],
         s.name = processors[i].name, s.phase = processors[i].phase,
         i = current \/ processors[i].task # "none"
  PROVE  ObjectsKept
BY DEF TypeOK, ObjectsKept

\* What the operations on buffers leave alone.
LEMMA SameIdentity ==
  ASSUME NEW s \in Object, NEW p
  PROVE  /\ Harvested(s).name = s.name /\ Harvested(s).phase = s.phase
         /\ Accepted(s, p).name = s.name /\ Accepted(s, p).phase = s.phase
         /\ Cleared(s).name = s.name /\ Cleared(s).phase = s.phase
         /\ Drained(s).name = s.name /\ Drained(s).phase = s.phase
         /\ Stopped(s).name = s.name /\ Stopped(s).phase = "stopped"
BY DEF Harvested, Accepted, Cleared, Drained, Stopped, Object

-----------------------------------------------------------------------------
(* The media path, the processors' own steps, and resets.                  *)

LEMMA MediaStep ==
  ASSUME IInv, SwitchInv, Ingress \/ Worker \/ \E i \in Instances : InferenceEnds(i)
  PROVE  SwitchInv'
<1>1. TypeOK /\ current \in Instances /\ processors \in [Instances -> Object]
      /\ requests \in Nat
  BY SizesAssumption DEF IInv, TypeOK
<1>2. UNCHANGED <<controlVars, handlerVars, lifecycle>>
  BY DEF Ingress, DatagramReceived, OversizedReceived, Worker, WorkerGet, ProcessDirect,
         ProcessDelay, WorkerWakes, ProcessSegmented, ProcessError, WorkerCancelled,
         NextRound, InferenceEnds, othersVars, serviceVars
<1>3. ObjectsKept
  <2>1. CASE UNCHANGED processors  BY <2>1 DEF ObjectsKept
  <2>2. CASE ProcessSegmented
    <3> DEFINE s == Accepted(Harvested(processors[current]), packet)
               r == [s EXCEPT !.ready = RestOf(@)]
    <3>1. processors' = [processors EXCEPT ![current] = r]  BY <2>2 DEF ProcessSegmented
    <3>2. Harvested(processors[current]) \in Object  BY <1>1, HarvestedType
    <3>3. r.name = processors[current].name /\ r.phase = processors[current].phase
      BY <1>1, <3>2, SameIdentity
    <3> HIDE DEF r
    <3> QED  BY <1>1, <3>1, <3>3, ObjectChanged
  <2>3. CASE ProcessError
    <3>1. processors' = [processors EXCEPT ![current] = Harvested(processors[current])]
      BY <2>3 DEF ProcessError
    <3> QED  BY <1>1, <3>1, SameIdentity, ObjectChanged
  <2>4. ASSUME NEW i \in Instances, InferenceEnds(i) PROVE ObjectsKept
    <3>1. PICK outcome \in {"done", "failed"} :
            processors' = [processors EXCEPT ![i].task = outcome]
      BY <2>4 DEF InferenceEnds
    <3>2. processors[i].task = "running"  BY <2>4 DEF InferenceEnds
    <3>3. processors[i] \in Object  BY <1>1
    <3> QED  BY <1>1, <3>1, <3>2, <3>3 DEF ObjectsKept, Object
  <2> QED
    BY <2>1, <2>2, <2>3, <2>4
    DEF Ingress, DatagramReceived, OversizedReceived, Worker, WorkerGet, ProcessDirect,
        ProcessDelay, WorkerWakes, WorkerCancelled
<1>4. UNCHANGED <<settings, current, pc, request, requests, lifecycle>>
  BY <1>2 DEF controlVars, handlerVars
<1>5. \A h \in Handlers : HandlerKept(h)  BY <1>4 DEF HandlerKept
<1>6. \A h \in Handlers : pc'[h] # "idle" => lifecycle' = "running"
  BY <1>4 DEF SwitchInv, LifecycleInv
<1> QED  BY <1>1, <1>3, <1>4, <1>5, <1>6, KeptStep

\* A failed flush, and the steps of a reset, end with the installed object.
LEMMA ResetStep ==
  ASSUME IInv, SwitchInv, NEW h \in Handlers,
         FlushFails(h) \/ BeginReset(h) \/ ResetCancels(h) \/ ResetClears(h)
  PROVE  SwitchInv'
<1>1. TypeOK /\ current \in Instances /\ processors \in [Instances -> Object]
      /\ requests \in Nat /\ pc \in [Handlers -> {"idle", "starting", "locking", "stopping", "resetting"}]
  BY SizesAssumption DEF IInv, TypeOK
<1>2. UNCHANGED <<settings, current, lifecycle>>
  BY DEF FlushFails, NotInstalled, BeginReset, ResetCancels, ResetClears, controlVars,
         serviceVars
<1>3. requests' \in Nat /\ requests <= requests'
  BY <1>1 DEF FlushFails, BeginReset, ResetCancels, ResetClears, Finish
<1>4. ObjectsKept
  <2>1. CASE FlushFails(h)
    <3>1. processors' = [processors EXCEPT ![current] = Harvested(processors[current])]
      BY <2>1 DEF FlushFails
    <3> QED  BY <1>1, <3>1, SameIdentity, ObjectChanged
  <2>2. CASE BeginReset(h)  BY <2>2 DEF BeginReset, ObjectsKept
  <2>3. CASE ResetCancels(h)
    <3>1. processors' = [processors EXCEPT ![current].task = "cancelled"]
      BY <2>3 DEF ResetCancels
    <3>2. processors[current] \in Object  BY <1>1
    <3> QED  BY <1>1, <3>1, <3>2 DEF ObjectsKept, Object
  <2>4. CASE ResetClears(h)
    <3>1. processors' = [processors EXCEPT ![current] = Cleared(processors[current])]
      BY <2>4 DEF ResetClears
    <3> QED  BY <1>1, <3>1, SameIdentity, ObjectChanged
  <2> QED  BY <2>1, <2>2, <2>3, <2>4
<1>5. /\ pc[h] # "stopping"
      /\ pc[h] # "idle" \/ lifecycle = "running"
      /\ \A g \in Handlers \ {h} : pc'[g] = pc[g] /\ request'[g] = request[g]
      /\ \/ pc'[h] \in {"idle", "resetting"}
         \/ pc'[h] = "locking" /\ request'[h].kind = "reset"
  <2> USE <1>1 DEF Finish
  <2>1. CASE FlushFails(h)
    <3>1. /\ pc[h] \in {"locking", "resetting"} /\ request' = request
          /\ pc' = [pc EXCEPT ![h] = "idle"]
      BY ONLY <2>1 DEF FlushFails, InLock, Finish
    <3> QED  BY <3>1
  <2>2. CASE BeginReset(h)
    <3>1. request \in [Handlers -> [kind : {"none", "select", "update", "reset"},
                                   inst : Instances, old : Instances,
                                   candidate : SettingsSet]]
      BY DEF TypeOK
    <3> QED  BY <2>2, <3>1 DEF BeginReset, CanBegin
  <2>3. CASE ResetCancels(h)  BY <2>3 DEF ResetCancels, InLock
  <2>4. CASE ResetClears(h)
    <3>1. /\ pc[h] \in {"locking", "resetting"} /\ request' = request
          /\ pc' = [pc EXCEPT ![h] = "idle"]
      BY ONLY <2>4 DEF ResetClears, InLock, Finish
    <3> QED  BY <3>1
  <2> QED  BY <2>1, <2>2, <2>3, <2>4
<1>6. \A g \in Handlers : HandlerKept(g)  BY <1>5 DEF HandlerKept
<1>7. \A g \in Handlers : pc'[g] # "idle" => lifecycle' = "running"
  BY <1>2, <1>5 DEF SwitchInv, LifecycleInv
<1> QED  BY <1>1, <1>2, <1>3, <1>4, <1>6, <1>7, KeptStep

-----------------------------------------------------------------------------
(* Construction of a replacement.                                          *)

\* The new object is nobody else's, and nobody has looked at it.
LEMMA ConstructStep ==
  ASSUME IInv, SwitchInv, NEW h \in Handlers, NEW kind \in {"select", "update"}, NEW s,
         NEW n \in Names, NEW c \in SettingsSet, CanBegin(h), Construct(h, kind, s, n, c),
         kind = "update" => s = c /\ n = c["processor"]
  PROVE  SwitchInv'
<1> DEFINE new == requests + 1
<1>1. /\ TypeOK /\ requests \in Nat /\ current \in Nat /\ current <= requests
      /\ new \in Instances /\ current \in Instances
      /\ \A i \in Instances : i \in Nat
  BY SizesAssumption DEF IInv, TypeOK, Construct, Instances, SwitchInv, LifecycleInv
<1>2. /\ processors \in [Instances -> Object]
      /\ pc \in [Handlers -> {"idle", "starting", "locking", "stopping", "resetting"}]
      /\ request \in [Handlers -> [kind : {"none", "select", "update", "reset"},
                                   inst : Instances, old : Instances,
                                   candidate : SettingsSet]]
  BY <1>1 DEF TypeOK
<1>3. /\ processors' = [processors EXCEPT ![new] = Create(s, n)]
      /\ requests' = new
      /\ request' = [request EXCEPT ![h] = [kind |-> kind, inst |-> new, old |-> 0,
                                            candidate |-> c]]
      /\ pc' = [pc EXCEPT ![h] = "starting"]
      /\ UNCHANGED <<settings, registry, current, lifecycle>>
      /\ pc[h] = "idle" /\ lifecycle = "running"
  BY DEF Construct, CanBegin, controlVars, serviceVars
<1> HIDE DEF new
<1>4. new \in Nat /\ new > requests /\ new # current  BY <1>1 DEF new
<1>5. \A i \in Instances : i # new => processors'[i] = processors[i]  BY <1>2, <1>3
<1>6. processors'[new] = Create(s, n)  BY <1>1, <1>2, <1>3
<1>7. /\ Create(s, n).name = n /\ Create(s, n).level = LevelIn(s, n)
      /\ Create(s, n).phase = "created" /\ Create(s, n).task = "none"
      /\ Buffered(Create(s, n)) = <<>>
  BY DEF Create, Buffered
<1>8. \A g \in Handlers \ {h} : pc'[g] = pc[g] /\ request'[g] = request[g]
  BY <1>2, <1>3
<1>9. /\ pc'[h] = "starting" /\ request'[h].kind = kind /\ request'[h].inst = new
      /\ request'[h].candidate = c
  BY <1>2, <1>3
<1>10. ASSUME NEW g \in Handlers, g # h, Installing(g)
       PROVE  /\ IsReplacement(g) /\ request[g].inst \in Instances
              /\ request[g].inst # new /\ request[g].inst <= requests'
  <2>1. IsReplacement(g)  BY <1>10 DEF SwitchInv, ReplacementsInv
  <2>2. request[g].inst \in Instances  BY <1>2
  <2>3. request[g].inst \in Nat /\ request[g].inst <= requests
    BY <1>1, <2>1, <2>2 DEF IsReplacement
  <2> QED  BY <1>1, <1>3, <1>4, <2>1, <2>2, <2>3
<1>11. ReplacementsInv'
  <2>1. ASSUME NEW g \in Handlers, g # h, Installing(g)' PROVE IsReplacement(g)'
    <3>1. Installing(g)  BY <1>8, <2>1 DEF Installing
    <3>2. processors'[request[g].inst] = processors[request[g].inst]
      BY <1>5, <1>10, <2>1, <3>1
    <3> QED  BY <1>3, <1>8, <1>10, <2>1, <3>1, <3>2 DEF IsReplacement
  <2>2. IsReplacement(h)'
    <3>1. kind = "update" => n = c["processor"] /\ s = c  OBVIOUS
    <3> QED  BY <1>1, <1>3, <1>4, <1>6, <1>7, <1>9, <3>1 DEF IsReplacement
  <2>3. ASSUME NEW g \in Handlers, NEW k \in Handlers, Installing(g)', Installing(k)', g # k
        PROVE  request'[g].inst # request'[k].inst
    <3>1. CASE g # h /\ k # h
      <4>1. Installing(g) /\ Installing(k)  BY <1>8, <2>3, <3>1 DEF Installing
      <4> QED  BY <1>8, <2>3, <3>1, <4>1 DEF SwitchInv, ReplacementsInv
    <3>2. CASE g = h
      <4>1. k # h /\ Installing(k)  BY <1>8, <2>3, <3>2 DEF Installing
      <4> QED  BY <1>8, <1>9, <1>10, <3>2, <4>1
    <3>3. CASE k = h
      <4>1. g # h /\ Installing(g)  BY <1>8, <2>3, <3>3 DEF Installing
      <4> QED  BY <1>8, <1>9, <1>10, <3>3, <4>1
    <3> QED  BY <3>1, <3>2, <3>3
  <2> QED  BY <2>1, <2>2, <2>3 DEF ReplacementsInv
<1>12. \A i \in Instances : processors'[i].phase = "installed" =>
         processors'[i] = processors[i]
  BY <1>5, <1>6, <1>7
<1>13. processors'[current] = processors[current]  BY <1>1, <1>4, <1>5
<1>14. ASSUME NEW g \in Handlers, pc'[g] = "stopping"
       PROVE  g # h /\ pc[g] = "stopping" /\ request'[g] = request[g]
  BY <1>8, <1>9, <1>14
<1>15. StoppingInv'
  <2> SUFFICES ASSUME NEW g \in Handlers, pc'[g] = "stopping"
               PROVE  /\ request'[g].inst = current'
                      /\ request'[g].old # current' /\ request'[g].old <= requests'
                      /\ processors'[request'[g].old].phase = "installed"
                      /\ request'[g].kind # "select" =>
                           settings'["processor"] = processors'[current'].name
    BY DEF StoppingInv
  <2>1. pc[g] = "stopping" /\ request'[g] = request[g]  BY <1>14
  <2>2. /\ request[g].inst = current
        /\ request[g].old # current /\ request[g].old <= requests
        /\ processors[request[g].old].phase = "installed"
        /\ request[g].kind # "select" => settings["processor"] = processors[current].name
    BY <2>1 DEF SwitchInv, StoppingInv
  <2>3. request[g].old \in Instances  BY <1>2
  <2>4. request[g].old <= requests' /\ request[g].old # new
    <3>1. request[g].old \in Nat /\ request[g].old <= requests  BY <1>1, <2>2, <2>3
    <3> QED  BY <1>1, <1>3, <1>4, <3>1
  <2>5. processors'[request[g].old] = processors[request[g].old]  BY <1>5, <2>3, <2>4
  <2> QED  BY <1>3, <1>13, <2>1, <2>2, <2>4, <2>5
<1>16. NameInv'
  <2>1. (\A g \in Handlers : pc'[g] # "stopping") => \A g \in Handlers : pc[g] # "stopping"
    BY <1>3, <1>8
  <2> QED  BY <1>3, <1>13, <2>1 DEF SwitchInv, NameInv
<1>17. LifecycleInv'
  BY <1>1, <1>3, <1>4, <1>8 DEF SwitchInv, LifecycleInv
<1>18. OneServing'
  <2>1. lifecycle' \in {"running", "joining"} => processors'[current'].phase = "installed"
    BY <1>3, <1>13 DEF SwitchInv, OneServing
  <2>2. ASSUME NEW i \in Instances, i # current', processors'[i].phase = "installed"
        PROVE  \E g \in Handlers : pc'[g] = "stopping" /\ request'[g].old = i
    <3>1. processors[i].phase = "installed" /\ i # current  BY <1>3, <1>12, <2>2
    <3>2. PICK g \in Handlers : pc[g] = "stopping" /\ request[g].old = i
      BY <3>1 DEF SwitchInv, OneServing
    <3>3. g # h  BY <1>3, <3>2
    <3> QED  BY <1>8, <3>2, <3>3
  <2> QED  BY <2>1, <2>2 DEF OneServing
<1> QED  BY <1>11, <1>15, <1>16, <1>17, <1>18 DEF SwitchInv

\* A live change keeps the name of the active processor and of its setting.
LEMMA LiveStep ==
  ASSUME IInv, SwitchInv, NEW h \in Handlers, NEW u \in Updates, LiveApply(h, u)
  PROVE  SwitchInv'
<1>1. /\ TypeOK /\ requests \in Nat /\ current \in Instances
      /\ processors \in [Instances -> Object]
  BY SizesAssumption DEF IInv, TypeOK
<1>2. /\ processors' = [processors EXCEPT ![current].level = u[processors[current].name]]
      /\ settings' = Replaced(settings, u)
      /\ UNCHANGED <<current, pc, request, requests, lifecycle>>
  BY DEF LiveApply, handlerVars, serviceVars
<1>3. processors[current].name \in Names /\ "processor" \notin DOMAIN u
  <2>1. processors[current] \in Object  BY <1>1
  <2>2. processors[current].name \in Names  BY <2>1 DEF Object
  <2>3. DOMAIN u = {processors[current].name}  BY DEF LiveApply, LiveRule
  <2> QED  BY <2>2, <2>3, ConstantsAssumption
<1>4. settings'["processor"] = settings["processor"]
  BY <1>2, <1>3 DEF Replaced, Keys
<1>5. ObjectsKept  BY <1>1, <1>2 DEF ObjectsKept, Object
<1>6. /\ \A g \in Handlers : HandlerKept(g)
      /\ \A g \in Handlers : pc'[g] # "idle" => lifecycle' = "running"
  BY <1>2 DEF HandlerKept, SwitchInv, LifecycleInv
<1> QED  BY <1>1, <1>2, <1>4, <1>5, <1>6, KeptStep

-----------------------------------------------------------------------------
(* The start of the replacement, and its failure.                          *)

\* Both change the phase of the handler's own object, and nobody else's.
LEMMA StartedStep ==
  ASSUME IInv, SwitchInv, NEW h \in Handlers, NEW phase \in {"started", "discarded"},
         NEW next \in {"locking", "idle"}, phase = "started" <=> next = "locking",
         pc[h] = "starting",
         processors' = [processors EXCEPT ![request[h].inst].phase = phase],
         pc' = [pc EXCEPT ![h] = next],
         UNCHANGED <<settings, current, request, requests, lifecycle>>
  PROVE  SwitchInv'
<1> DEFINE new == request[h].inst
<1>1. /\ requests \in Nat /\ current \in Instances /\ new \in Instances
      /\ processors \in [Instances -> Object]
      /\ pc \in [Handlers -> {"idle", "starting", "locking", "stopping", "resetting"}]
      /\ \A g \in Handlers : request[g].inst \in Instances /\ request[g].old \in Instances
  BY SizesAssumption DEF IInv, TypeOK
<1>2. Installing(h)  BY DEF Installing
<1>3. IsReplacement(h)  BY <1>2 DEF SwitchInv, ReplacementsInv
<1>4. processors[new].phase = "created" /\ new # current  BY <1>3 DEF IsReplacement
<1> HIDE DEF new
<1>5. /\ \A i \in Instances \ {new} : processors'[i] = processors[i]
      /\ processors'[new] = [processors[new] EXCEPT !.phase = phase]
  BY <1>1 DEF new
<1>6. processors[new] \in Object  BY <1>1
<1>7. /\ processors'[new].phase = phase /\ processors'[new].name = processors[new].name
      /\ processors'[new].level = processors[new].level
      /\ processors'[new].task = processors[new].task
      /\ Buffered(processors'[new]) = Buffered(processors[new])
  <2> DEFINE s == processors[new]
  <2>1. PICK t : t = [s EXCEPT !.phase = phase]  OBVIOUS
  <2>2. s \in Object  BY <1>6
  <2> HIDE DEF s
  <2>3. /\ t.phase = phase /\ t.name = s.name /\ t.level = s.level /\ t.task = s.task
        /\ t.input = s.input /\ t.active = s.active /\ t.ready = s.ready
    BY ONLY <2>1, <2>2 DEF Object
  <2>4. processors'[new] = t  BY <1>5, <2>1 DEF s
  <2> QED  BY <2>3, <2>4 DEF Buffered, s
<1>8. \A g \in Handlers \ {h} : pc'[g] = pc[g]  BY <1>1
<1>9. pc'[h] = next  BY <1>1
<1>10. \A g \in Handlers : Installing(g)' => Installing(g)
  BY <1>2, <1>8 DEF Installing
<1>11. ReplacementsInv'
  <2>1. ASSUME NEW g \in Handlers, g # h, Installing(g)' PROVE IsReplacement(g)'
    <3>1. Installing(g)  BY <1>10, <2>1
    <3>2. IsReplacement(g) /\ request[g].inst # new
      BY <1>2, <2>1, <3>1 DEF SwitchInv, ReplacementsInv, new
    <3>3. processors'[request[g].inst] = processors[request[g].inst]  BY <1>1, <1>5, <3>2
    <3> QED  BY <1>8, <2>1, <3>2, <3>3 DEF IsReplacement
  <2>2. ASSUME Installing(h)' PROVE IsReplacement(h)'
    <3>1. next = "locking" /\ phase = "started"  BY <1>9, <2>2 DEF Installing
    <3> QED  BY <1>3, <1>7, <1>9, <3>1 DEF IsReplacement, new
  <2>3. \A g, k \in Handlers :
          Installing(g)' /\ Installing(k)' /\ g # k => request'[g].inst # request'[k].inst
    BY <1>10 DEF SwitchInv, ReplacementsInv
  <2> QED  BY <2>1, <2>2, <2>3 DEF ReplacementsInv
<1>12. processors'[current] = processors[current]  BY <1>1, <1>4, <1>5
<1>13. \A g \in Handlers : pc'[g] = "stopping" <=> pc[g] = "stopping"
  BY <1>8, <1>9
<1>14. \A i \in Instances : processors'[i].phase = "installed"
         <=> processors[i].phase = "installed"
  BY <1>4, <1>5, <1>7
<1>15. StoppingInv'  BY <1>1, <1>12, <1>13, <1>14 DEF SwitchInv, StoppingInv
<1>16. NameInv'  BY <1>12, <1>13 DEF SwitchInv, NameInv
<1>17. LifecycleInv'  BY <1>1, <1>8 DEF SwitchInv, LifecycleInv
<1>18. OneServing'  BY <1>12, <1>13, <1>14 DEF SwitchInv, OneServing
<1> QED  BY <1>11, <1>15, <1>16, <1>17, <1>18 DEF SwitchInv

-----------------------------------------------------------------------------
(* The installation, and the end of the old processor.                     *)

\* The owner of the lock is the only handler inside it.
LEMMA OneInside ==
  ASSUME IInv, NEW g \in Handlers, NEW h \in Handlers, Owns(h),
         pc[g] \in {"stopping", "resetting"}
  PROVE  g = h
BY DEF IInv, LockDiscipline, Owns

LEMMA SwitchStep ==
  ASSUME IInv, SwitchInv, NEW h \in Handlers, Switch(h)
  PROVE  SwitchInv'
<1> DEFINE new == request[h].inst
           old == Harvested(processors[current])
<1>1. /\ requests \in Nat /\ current \in Instances /\ new \in Instances
      /\ processors \in [Instances -> Object]
      /\ pc \in [Handlers -> {"idle", "starting", "locking", "stopping", "resetting"}]
      /\ request \in [Handlers -> [kind : {"none", "select", "update", "reset"},
                                   inst : Instances, old : Instances,
                                   candidate : SettingsSet]]
      /\ \A i \in Instances : i \in Nat
  BY SizesAssumption DEF IInv, TypeOK, Instances
<1>2. /\ pc[h] = "locking" /\ Owns(h) /\ request[h].kind # "reset"
      /\ processors' = [processors EXCEPT ![new].phase = "installed", ![current] = Drained(old)]
      /\ current' = new
      /\ request' = [request EXCEPT ![h].old = current]
      /\ pc' = [pc EXCEPT ![h] = "stopping"]
      /\ UNCHANGED <<lifecycle, requests>>
  BY DEF Switch, InLock, serviceVars
<1>3. Installing(h)  BY <1>2 DEF Installing
<1>4. IsReplacement(h)  BY <1>3 DEF SwitchInv, ReplacementsInv
<1>5. new # current /\ new <= requests /\ current <= requests
  BY <1>4 DEF IsReplacement, SwitchInv, LifecycleInv
<1>6. lifecycle = "running" /\ processors[current].phase = "installed"
  BY <1>2 DEF SwitchInv, LifecycleInv, OneServing
<1>7. \A g \in Handlers : pc[g] # "stopping"
  BY <1>2, OneInside
<1>8. Drained(old).phase = processors[current].phase
  BY <1>1, HarvestedType, SameIdentity
<1>9. processors[new] \in Object  BY <1>1
<1> HIDE DEF old, new
<1>10. /\ \A i \in Instances \ {new, current} : processors'[i] = processors[i]
       /\ processors'[current] = Drained(old)
       /\ processors'[new] = [processors[new] EXCEPT !.phase = "installed"]
  BY <1>1, <1>2, <1>5
<1>11. processors'[new].phase = "installed" /\ processors'[new].name = processors[new].name
  BY <1>9, <1>10 DEF Object
<1>12. \A g \in Handlers \ {h} : pc'[g] = pc[g] /\ request'[g] = request[g]
  BY <1>1, <1>2
<1>13. /\ pc'[h] = "stopping" /\ request'[h].old = current /\ request'[h].inst = new
       /\ request'[h].kind = request[h].kind
  BY <1>1, <1>2 DEF new
<1>14. ReplacementsInv'
  <2>1. \A g \in Handlers : Installing(g)' => g # h /\ Installing(g)
    BY <1>12, <1>13 DEF Installing
  <2>2. ASSUME NEW g \in Handlers, Installing(g)' PROVE IsReplacement(g)'
    <3>1. g # h /\ IsReplacement(g) /\ request[g].inst # new
      BY <1>3, <2>1, <2>2 DEF SwitchInv, ReplacementsInv, new
    <3>2. request[g].inst \in Instances \ {new, current}
      BY <1>1, <3>1 DEF IsReplacement
    <3>3. processors'[request[g].inst] = processors[request[g].inst]  BY <1>10, <3>2
    <3> QED  BY <1>2, <1>12, <3>1, <3>3 DEF IsReplacement
  <2>3. ASSUME NEW g \in Handlers, NEW k \in Handlers, Installing(g)', Installing(k)', g # k
        PROVE  request'[g].inst # request'[k].inst
    <3>1. Installing(g) /\ Installing(k) /\ g # h /\ k # h  BY <2>1, <2>3
    <3> QED  BY <1>12, <2>3, <3>1 DEF SwitchInv, ReplacementsInv
  <2> QED  BY <2>2, <2>3 DEF ReplacementsInv
<1>15. request[h].kind # "select" => settings'["processor"] = processors'[current'].name
  <2> SUFFICES ASSUME request[h].kind # "select"
               PROVE  settings'["processor"] = processors'[current'].name
    OBVIOUS
  <2>1. request[h].kind = "update"  BY <1>4 DEF IsReplacement
  <2>2. settings' = request[h].candidate  BY <2>1 DEF Switch
  <2>3. processors[new].name = request[h].candidate["processor"]
    BY <1>4, <2>1 DEF IsReplacement, new
  <2> QED  BY <1>2, <1>11, <2>2, <2>3
<1>16. StoppingInv'
  <2>1. \A g \in Handlers : pc'[g] = "stopping" => g = h  BY <1>7, <1>12
  <2>2. /\ request'[h].inst = current' /\ request'[h].old # current'
        /\ request'[h].old <= requests'
    BY <1>2, <1>5, <1>13
  <2>3. processors'[request'[h].old].phase = "installed"
    BY <1>6, <1>8, <1>10, <1>13
  <2>4. request'[h].kind # "select" => settings'["processor"] = processors'[current'].name
    BY <1>13, <1>15
  <2> QED  BY <2>1, <2>2, <2>3, <2>4 DEF StoppingInv
<1>17. NameInv'  BY <1>13 DEF NameInv
<1>18. LifecycleInv'
  BY <1>1, <1>2, <1>5, <1>6 DEF LifecycleInv
<1>19. OneServing'
  <2>1. processors'[current'].phase = "installed"  BY <1>2, <1>11
  <2>2. ASSUME NEW i \in Instances, i # current', processors'[i].phase = "installed"
        PROVE  \E g \in Handlers : pc'[g] = "stopping" /\ request'[g].old = i
    <3>1. CASE i = current  BY <1>13, <3>1
    <3>2. CASE i # current
      <4>1. processors[i].phase = "installed"  BY <1>2, <1>10, <2>2, <3>2
      <4>2. PICK g \in Handlers : pc[g] = "stopping"  BY <3>2, <4>1 DEF SwitchInv, OneServing
      <4> QED  BY <1>7, <4>2
    <3> QED  BY <3>1, <3>2
  <2> QED  BY <2>1, <2>2 DEF OneServing
<1> QED  BY <1>14, <1>16, <1>17, <1>18, <1>19 DEF SwitchInv

LEMMA StoppedStep ==
  ASSUME IInv, SwitchInv, NEW h \in Handlers, OldStopped(h)
  PROVE  SwitchInv'
<1> DEFINE old == request[h].old
<1>1. /\ requests \in Nat /\ current \in Instances /\ old \in Instances
      /\ processors \in [Instances -> Object]
      /\ pc \in [Handlers -> {"idle", "starting", "locking", "stopping", "resetting"}]
      /\ settings \in SettingsSet
      /\ \A g \in Handlers : request[g].inst \in Instances /\ request[g].old \in Instances
  BY SizesAssumption DEF IInv, TypeOK
<1>2. /\ pc[h] = "stopping"
      /\ processors' = [processors EXCEPT ![old] = Stopped(processors[old])]
      /\ settings' = NameRecorded(h)
      /\ pc' = [pc EXCEPT ![h] = "idle"]
      /\ UNCHANGED <<current, request, requests, lifecycle>>
  BY DEF OldStopped, Finish, serviceVars
<1>3. /\ request[h].inst = current /\ old # current
      /\ processors[old].phase = "installed"
      /\ request[h].kind # "select" => settings["processor"] = processors[current].name
  BY <1>2 DEF SwitchInv, StoppingInv
<1>4. Owns(h)  BY <1>2 DEF IInv, LockDiscipline
<1>5. \A g \in Handlers : pc[g] = "stopping" => g = h  BY <1>4, OneInside
<1>6. Stopped(processors[old]).phase = "stopped"  BY <1>1, SameIdentity
<1> HIDE DEF old
<1>7. /\ \A i \in Instances \ {old} : processors'[i] = processors[i]
      /\ processors'[old].phase = "stopped"
  BY <1>1, <1>2, <1>6
<1>8. \A g \in Handlers \ {h} : pc'[g] = pc[g]  BY <1>1, <1>2
<1>9. pc'[h] = "idle"  BY <1>1, <1>2
<1>10. processors'[current] = processors[current]  BY <1>1, <1>3, <1>7
<1>11. settings'["processor"] = processors[current].name
  <2>1. CASE request[h].kind = "select"
    <3>1. settings' = [settings EXCEPT !["processor"] = processors[current].name]
      BY <1>2, <1>3, <2>1 DEF NameRecorded
    <3>2. "processor" \in DOMAIN settings  BY <1>1 DEF SettingsSet, Keys
    <3> QED  BY <3>1, <3>2
  <2>2. CASE request[h].kind # "select"  BY <1>2, <1>3, <2>2 DEF NameRecorded
  <2> QED  BY <2>1, <2>2
<1>12. ReplacementsInv'
  <2>1. \A g \in Handlers : Installing(g)' => Installing(g) /\ pc'[g] = pc[g]
    BY <1>2, <1>8, <1>9 DEF Installing
  <2>2. ASSUME NEW g \in Handlers, Installing(g)' PROVE IsReplacement(g)'
    <3>1. IsReplacement(g) /\ pc'[g] = pc[g]  BY <2>1, <2>2 DEF SwitchInv, ReplacementsInv
    <3>2. request[g].inst # old  BY <1>3, <3>1 DEF IsReplacement
    <3>3. processors'[request[g].inst] = processors[request[g].inst]  BY <1>1, <1>7, <3>2
    <3> QED  BY <1>2, <3>1, <3>3 DEF IsReplacement
  <2>3. \A g, k \in Handlers :
          Installing(g)' /\ Installing(k)' /\ g # k => request'[g].inst # request'[k].inst
    BY <1>2, <2>1 DEF SwitchInv, ReplacementsInv
  <2> QED  BY <2>2, <2>3 DEF ReplacementsInv
<1>13. \A g \in Handlers : pc'[g] # "stopping"  BY <1>5, <1>8, <1>9
<1>14. StoppingInv' /\ NameInv'
  BY <1>2, <1>10, <1>11, <1>13 DEF StoppingInv, NameInv
<1>15. LifecycleInv'  BY <1>2, <1>8, <1>9 DEF SwitchInv, LifecycleInv
<1>16. OneServing'
  <2>1. lifecycle' \in {"running", "joining"} => processors'[current'].phase = "installed"
    BY <1>2, <1>10 DEF SwitchInv, OneServing
  <2>2. ASSUME NEW i \in Instances, i # current', processors'[i].phase = "installed"
        PROVE  FALSE
    <3>1. i # old /\ processors[i].phase = "installed" /\ i # current
      BY <1>2, <1>7, <2>2
    <3>2. PICK g \in Handlers : pc[g] = "stopping" /\ request[g].old = i
      BY <3>1 DEF SwitchInv, OneServing
    <3> QED  BY <1>5, <3>1, <3>2 DEF old
  <2> QED  BY <2>1, <2>2 DEF OneServing
<1> QED  BY <1>12, <1>14, <1>15, <1>16 DEF SwitchInv

-----------------------------------------------------------------------------
(* start() and stop() of the service.                                      *)

LEMMA LifespanStep ==
  ASSUME IInv, SwitchInv, Start \/ StartupFails \/ StopBegins \/ Stop
  PROVE  SwitchInv'
<1>1. /\ TypeOK /\ requests \in Nat /\ current \in Instances
      /\ processors \in [Instances -> Object] /\ 0 \in Instances
  BY SizesAssumption DEF IInv, TypeOK, Instances
<1>2. UNCHANGED <<settings, current, pc, request, requests>>
  BY DEF Start, StartupFails, StopBegins, Stop, StopFlushFails, StopFlushes, StopCloses,
         controlVars, handlerVars
<1>3. lifecycle # "running" \/ StopBegins
  BY DEF Start, StartupFails, Stop, StopFlushFails, StopFlushes, StopCloses
<1>4. \A h \in Handlers : pc[h] = "idle"
  BY <1>3 DEF SwitchInv, LifecycleInv, StopBegins
<1>5. lifecycle' # "new"
  BY DEF Start, StartupFails, StopBegins, Stop, StopFlushFails, StopFlushes, StopCloses
<1>6. CASE StopBegins \/ StopFlushFails \/ StopFlushes
  <2>1. ObjectsKept
    <3>1. CASE StopBegins  BY <3>1 DEF StopBegins, ObjectsKept
    <3>2. CASE StopFlushFails
      <4>1. processors' = [processors EXCEPT ![current] = Harvested(processors[current])]
        BY <3>2 DEF StopFlushFails
      <4> QED  BY <1>1, <4>1, SameIdentity, ObjectChanged
    <3>3. CASE StopFlushes
      <4> DEFINE s == Drained(Harvested(processors[current]))
      <4>1. processors' = [processors EXCEPT ![current] = s]  BY <3>3 DEF StopFlushes
      <4>2. Harvested(processors[current]) \in Object  BY <1>1, HarvestedType
      <4>3. s.name = processors[current].name /\ s.phase = processors[current].phase
        BY <1>1, <4>2, SameIdentity
      <4> HIDE DEF s
      <4> QED  BY <1>1, <4>1, <4>3, ObjectChanged
    <3> QED  BY <1>6, <3>1, <3>2, <3>3
  <2>2. lifecycle \in {"running", "joining"}
    BY <1>6 DEF StopBegins, StopFlushFails, StopFlushes
  <2>3. \A h \in Handlers : HandlerKept(h)  BY <1>2 DEF HandlerKept
  <2> QED  BY <1>1, <1>2, <1>4, <1>5, <2>1, <2>2, <2>3, KeptStep
<1>7. CASE Start \/ StartupFails \/ StopCloses
  <2>1. \E s : /\ processors' = [processors EXCEPT ![current] = s]
               /\ s.name = processors[current].name
               /\ lifecycle' \in {"running", "joining"} => s.phase = "installed"
    <3>1. lifecycle = "new" => current = 0  BY DEF SwitchInv, LifecycleInv
    <3>2. processors[current] \in Object  BY <1>1
    <3>3. CASE Start
      <4>1. PICK s : s = [processors[current] EXCEPT !.phase = "installed"]  OBVIOUS
      <4>2. s.name = processors[current].name /\ s.phase = "installed"
        BY ONLY <3>2, <4>1 DEF Object
      <4>3. processors' = [processors EXCEPT ![current] = s]
        BY <3>1, <3>3, <4>1 DEF Start
      <4> QED  BY <4>2, <4>3
    <3>4. CASE StartupFails
      <4>1. PICK phase \in {"discarded", "started"} :
              processors' = [processors EXCEPT ![0].phase = phase]
        BY <3>4 DEF StartupFails
      <4>2. PICK s : s = [processors[current] EXCEPT !.phase = phase]  OBVIOUS
      <4>3. s.name = processors[current].name  BY ONLY <3>2, <4>2 DEF Object
      <4>4. processors' = [processors EXCEPT ![current] = s]
        BY <3>1, <3>4, <4>1, <4>2 DEF StartupFails
      <4>5. lifecycle' = "failed"  BY <3>4 DEF StartupFails
      <4> QED  BY <4>3, <4>4, <4>5
    <3>5. CASE StopCloses
      <4>1. PICK s : s = Stopped(processors[current])  OBVIOUS
      <4>2. s.name = processors[current].name  BY <3>2, <4>1, SameIdentity
      <4>3. processors' = [processors EXCEPT ![current] = s] /\ lifecycle' = "stopped"
        BY <3>5, <4>1 DEF StopCloses
      <4> QED  BY <4>2, <4>3
    <3> QED  BY <1>7, <3>3, <3>4, <3>5
  <2>2. PICK s : /\ processors' = [processors EXCEPT ![current] = s]
                 /\ s.name = processors[current].name
                 /\ lifecycle' \in {"running", "joining"} => s.phase = "installed"
    BY <2>1
  <2>3. /\ \A i \in Instances \ {current} : processors'[i] = processors[i]
        /\ processors'[current] = s
    BY <1>1, <2>2
  <2>4. ReplacementsInv' /\ StoppingInv'
    BY <1>2, <1>4 DEF ReplacementsInv, StoppingInv, Installing
  <2>5. NameInv'  BY <1>2, <2>2, <2>3 DEF SwitchInv, NameInv
  <2>6. LifecycleInv'  BY <1>2, <1>4, <1>5 DEF SwitchInv, LifecycleInv
  <2>7. OneServing'  BY <1>2, <2>2, <2>3 DEF SwitchInv, OneServing
  <2> QED  BY <2>4, <2>5, <2>6, <2>7 DEF SwitchInv
<1> QED  BY <1>6, <1>7 DEF Stop

-----------------------------------------------------------------------------
(* All steps.                                                              *)

\* A request starts with values of the right types.
LEMMA BeginStep ==
  ASSUME IInv, SwitchInv, NEW h \in Handlers, Begin(h)
  PROVE  SwitchInv'
<1>1. settings \in SettingsSet /\ Startup \in SettingsSet /\ Selectable \subseteq Names
  BY ConstantsAssumption DEF IInv, TypeOK
<1>2. CASE \E n \in Selectable : BeginSelect(h, n)
  BY <1>1, <1>2, ConstructStep DEF BeginSelect
<1>3. ASSUME NEW u \in Updates, BeginUpdate(h, u) PROVE SwitchInv'
  <2> DEFINE c == Replaced(settings, u)
  <2>1. c \in SettingsSet  BY <1>1, ReplacedType
  <2>2. c["processor"] \in Names  BY <2>1 DEF SettingsSet
  <2>3. CanBegin(h) /\ Construct(h, "update", c, c["processor"], c)  BY <1>3 DEF BeginUpdate
  <2> HIDE DEF c
  <2> QED  BY <2>1, <2>2, <2>3, ConstructStep
<1>4. CASE BeginRestore(h)
  <2>1. Startup["processor"] \in Names  BY <1>1 DEF SettingsSet
  <2> QED  BY <1>1, <1>4, <2>1, ConstructStep DEF BeginRestore
<1>5. CASE BeginReset(h)  BY <1>5, ResetStep
<1> QED  BY <1>2, <1>3, <1>4, <1>5, LiveStep DEF Begin

LEMMA HandleStep ==
  ASSUME IInv, SwitchInv, NEW h \in Handlers, Handle(h)
  PROVE  SwitchInv'
<1>1. CASE StartFails(h)
  <2>1. /\ pc[h] = "starting" /\ pc' = [pc EXCEPT ![h] = "idle"]
        /\ processors' = [processors EXCEPT ![request[h].inst].phase = "discarded"]
        /\ UNCHANGED <<settings, current, request, requests, lifecycle>>
    BY <1>1 DEF StartFails, Finish, controlVars, serviceVars
  <2> QED  BY <2>1, StartedStep
<1>2. CASE Started(h)
  <2>1. /\ pc[h] = "starting" /\ pc' = [pc EXCEPT ![h] = "locking"]
        /\ processors' = [processors EXCEPT ![request[h].inst].phase = "started"]
        /\ UNCHANGED <<settings, current, request, requests, lifecycle>>
    BY <1>2 DEF Started, StartAwaited, controlVars, serviceVars
  <2> QED  BY <2>1, StartedStep
<1> QED  BY <1>1, <1>2, ResetStep, SwitchStep, StoppedStep DEF Handle

LEMMA SwitchInvStep == IInv /\ SwitchInv /\ [Next]_vars => SwitchInv'
<1> SUFFICES ASSUME IInv, SwitchInv, [Next]_vars PROVE SwitchInv'  OBVIOUS
<1>1. CASE Next
  BY <1>1, MediaStep, BeginStep, HandleStep, LifespanStep DEF Next
<1>2. CASE UNCHANGED vars
  BY <1>2 DEF SwitchInv, ReplacementsInv, Installing, IsReplacement, StoppingInv, NameInv,
     LifecycleInv, OneServing, vars, mediaVars, othersVars, controlVars, handlerVars,
     serviceVars
<1> QED  BY <1>1, <1>2

LEMMA SwitchInvInit == Init => SwitchInv
<1> SUFFICES ASSUME Init PROVE SwitchInv  OBVIOUS
<1>1. /\ \A h \in Handlers : pc[h] = "idle"
      /\ current = 0 /\ requests = 0 /\ lifecycle = "new" /\ settings = Startup
      /\ processors[0] = Create(Startup, Startup["processor"])
  BY SizesAssumption DEF Init, Instances
<1>2. \A i \in Instances : processors[i].phase \in {"created", "absent"}
  BY DEF Init, Create, NoProcessor
<1>3. processors[0].name = Startup["processor"]  BY <1>1 DEF Create
<1> QED
  BY <1>1, <1>2, <1>3 DEF SwitchInv, ReplacementsInv, Installing, StoppingInv, NameInv,
     LifecycleInv, OneServing

LEMMA SwitchInvariant == Spec => [](IInv /\ SwitchInv)
<1>1. Init => IInv /\ SwitchInv  BY InitIInv, SwitchInvInit
<1>2. IInv /\ SwitchInv /\ [Next]_vars => (IInv /\ SwitchInv)'
  BY SwitchInvStep, TypeStep, LockStep, OrderStep DEF IInv
<1> QED  BY <1>1, <1>2, PTL DEF Spec

-----------------------------------------------------------------------------
(* The theorems.                                                           *)

\* However requests overlap and fail, packets reach a processor that is started
\* and not stopped, and no object that was ever installed is forgotten.
THEOREM ServingCorrect == Spec => []OneServing
<1>1. IInv /\ SwitchInv => OneServing  BY DEF SwitchInv
<1> QED  BY <1>1, SwitchInvariant, PTL

\* When nobody holds the lock, the settings name the active processor, although
\* select_processor writes the name after its critical section's last await.
THEOREM SettingsName == Spec => []SettingsNameProcessor
<1>1. IInv /\ SwitchInv => SettingsNameProcessor
  <2> SUFFICES ASSUME IInv, SwitchInv, lock = <<>>
               PROVE  settings["processor"] = processors[current].name
    BY DEF SettingsNameProcessor
  <2>1. \A h \in Handlers : pc[h] # "stopping"
    BY DEF IInv, LockDiscipline, ToSet
  <2> QED  BY <2>1 DEF SwitchInv, NameInv
<1> QED  BY <1>1, SwitchInvariant, PTL

\* Only a switch changes self.processor.
LEMMA OnlySwitchInstalls ==
  ASSUME [Next]_vars, current' # current
  PROVE  \E h \in Handlers : Switch(h)
<1> USE DEF mediaVars, othersVars, controlVars, handlerVars, serviceVars
<1>1. CASE Ingress \/ Worker
  BY <1>1 DEF Ingress, DatagramReceived, OversizedReceived, Worker, WorkerGet,
     ProcessDirect, ProcessDelay, WorkerWakes, ProcessSegmented, ProcessError,
     WorkerCancelled, NextRound
<1>2. CASE \E i \in Instances : InferenceEnds(i)  BY <1>2 DEF InferenceEnds
<1>3. ASSUME NEW h \in Handlers, Begin(h) PROVE FALSE
  BY <1>3 DEF Begin, BeginSelect, LiveApply, BeginUpdate, BeginRestore, BeginReset, Construct
<1>4. ASSUME NEW h \in Handlers, Handle(h) PROVE Switch(h)
  BY <1>4 DEF Handle, StartFails, Started, FlushFails, NotInstalled, OldStopped, ResetCancels,
     ResetClears
<1>5. CASE Start \/ StartupFails \/ StopBegins \/ Stop
  BY <1>5 DEF Start, StartupFails, StopBegins, Stop, StopFlushFails, StopFlushes, StopCloses
<1>6. CASE UNCHANGED vars  BY <1>6 DEF vars
<1> QED  BY <1>1, <1>2, <1>3, <1>4, <1>5, <1>6 DEF Next

\* What is installed has started, and nothing has ever been buffered in it.
THEOREM InstalledHasStarted == Spec => InstallsStarted
<1>1. IInv /\ SwitchInv /\ [Next]_vars =>
        [current' # current => /\ processors[current'].phase = "started"
                               /\ Buffered(processors[current']) = <<>>]_vars
  <2> SUFFICES ASSUME IInv, SwitchInv, [Next]_vars, current' # current
               PROVE  /\ processors[current'].phase = "started"
                      /\ Buffered(processors[current']) = <<>>
    OBVIOUS
  <2>1. PICK h \in Handlers : Switch(h)  BY OnlySwitchInstalls
  <2>2. pc[h] = "locking" /\ request[h].kind # "reset" /\ current' = request[h].inst
    BY <2>1 DEF Switch, InLock
  <2>3. IsReplacement(h)  BY <2>2 DEF SwitchInv, ReplacementsInv, Installing
  <2> QED  BY <2>2, <2>3 DEF IsReplacement
<1> QED  BY <1>1, SwitchInvariant, PTL DEF Spec, InstallsStarted

\* A request that fails has changed nothing of the settings, the registry and
\* the active processor, and neither has anybody else in that step.
THEOREM FailureIsClean == Spec => FailureChangesNothing
<1> DEFINE A == \A h \in Handlers :
                  /\ pc[h] \in {"starting", "locking"}
                  /\ pc'[h] = "idle"
                  /\ request[h].kind # "reset"
                  => UNCHANGED controlVars
<1>1. IInv /\ [Next]_vars => A
  <2> SUFFICES ASSUME IInv, [Next]_vars, NEW h \in Handlers,
                      pc[h] \in {"starting", "locking"}, pc'[h] = "idle",
                      request[h].kind # "reset"
               PROVE  UNCHANGED controlVars
    OBVIOUS
  <2> USE DEF mediaVars, othersVars, handlerVars
  <2>1. pc' # pc  OBVIOUS
  <2>2. CASE Ingress \/ Worker
    BY <2>1, <2>2 DEF Ingress, DatagramReceived, OversizedReceived, Worker, WorkerGet,
       ProcessDirect, ProcessDelay, WorkerWakes, ProcessSegmented, ProcessError,
       WorkerCancelled, NextRound
  <2>3. CASE \E i \in Instances : InferenceEnds(i)  BY <2>1, <2>3 DEF InferenceEnds
  <2>4. ASSUME NEW g \in Handlers, Begin(g) PROVE UNCHANGED controlVars
    BY <2>1, <2>4 DEF Begin, BeginSelect, LiveApply, BeginUpdate, BeginRestore, BeginReset,
       Construct
  <2>5. ASSUME NEW g \in Handlers, Handle(g) PROVE UNCHANGED controlVars
    <3>1. pc \in [Handlers -> {"idle", "starting", "locking", "stopping", "resetting"}]
      BY DEF IInv, TypeOK
    <3>2. CASE Switch(g)
      <4>1. pc' = [pc EXCEPT ![g] = "stopping"]  BY <3>2 DEF Switch
      <4>2. pc'[h] = "stopping" \/ pc'[h] = pc[h]  BY <3>1, <4>1
      <4> QED  BY <4>2
    <3>3. CASE OldStopped(g)
      <4>1. pc[g] = "stopping" /\ pc' = [pc EXCEPT ![g] = "idle"]
        BY <3>3 DEF OldStopped, Finish
      <4>2. h # g  BY <4>1
      <4>3. pc'[h] = pc[h]  BY <3>1, <4>1, <4>2
      <4> QED  BY <4>3
    <3>4. CASE StartFails(g) \/ Started(g) \/ FlushFails(g) \/ ResetCancels(g) \/ ResetClears(g)
      BY <3>4 DEF StartFails, Started, FlushFails, NotInstalled, ResetCancels, ResetClears
    <3> QED  BY <2>5, <3>2, <3>3, <3>4 DEF Handle
  <2>6. CASE Start \/ StartupFails \/ StopBegins \/ Stop
    BY <2>1, <2>6 DEF Start, StartupFails, StopBegins, Stop, StopFlushFails, StopFlushes,
       StopCloses
  <2>7. CASE UNCHANGED vars  BY <2>1, <2>7 DEF vars
  <2> QED  BY <2>2, <2>3, <2>4, <2>5, <2>6, <2>7 DEF Next
<1>2. IInv /\ [Next]_vars => [A]_vars  BY <1>1
<1> QED  BY <1>2, SwitchInvariant, PTL DEF Spec, FailureChangesNothing

-----------------------------------------------------------------------------
(* The flush before the stop.                                              *)

\* Nothing is ready in an object that is being stopped.
DrainedInv ==
  /\ \A h \in Handlers : pc[h] = "stopping" => processors[request[h].old].ready = <<>>
  /\ lifecycle = "closing" => worker = "ended" /\ processors[current].ready = <<>>

\* No step puts anything into a replaced object, and only stop() ends its service.
LEMMA ReplacedKept ==
  ASSUME IInv, SwitchInv, [Next]_vars, NEW i \in Instances, i # current,
         processors[i].phase = "installed"
  PROVE  /\ processors[i].ready = <<>> => processors'[i].ready = <<>>
         /\ \/ processors'[i].phase = "installed"
            \/ \E h \in Handlers : OldStopped(h) /\ request[h].old = i
<1>1. /\ processors \in [Instances -> Object] /\ current \in Instances
      /\ processors[i] \in Object /\ requests \in Nat
      /\ \A h \in Handlers : request[h].inst \in Instances /\ request[h].old \in Instances
  BY SizesAssumption DEF IInv, TypeOK
<1>2. CASE processors'[i] = processors[i]  BY <1>2
<1>3. ASSUME NEW j \in Instances, NEW s, j # i, processors' = [processors EXCEPT ![j] = s]
      PROVE  processors'[i] = processors[i]
  BY <1>1, <1>3
<1>4. CASE Ingress \/ Worker
  <2>1. (\E s : processors' = [processors EXCEPT ![current] = s]) \/ UNCHANGED processors
    BY <1>4 DEF Ingress, DatagramReceived, OversizedReceived, Worker, WorkerGet,
       ProcessDirect, ProcessDelay, WorkerWakes, ProcessSegmented, ProcessError,
       WorkerCancelled
  <2> QED  BY <1>1, <1>2, <1>3, <2>1
<1>5. ASSUME NEW j \in Instances, InferenceEnds(j)
      PROVE  processors'[i].ready = processors[i].ready /\ processors'[i].phase = "installed"
  <2>1. PICK outcome \in {"done", "failed"} :
          processors' = [processors EXCEPT ![j].task = outcome]
    BY <1>5 DEF InferenceEnds
  <2> QED  BY <1>1, <2>1 DEF Object
<1>6. \A h \in Handlers : Installing(h) => request[h].inst # i
  BY DEF SwitchInv, ReplacementsInv, IsReplacement
<1>7. ASSUME NEW h \in Handlers, Begin(h) PROVE processors'[i] = processors[i]
  <2>1. CASE UNCHANGED processors  BY <2>1
  <2>2. CASE \E u \in Updates : LiveApply(h, u)
    <3>1. \E v : processors' = [processors EXCEPT ![current].level = v]
      BY <2>2 DEF LiveApply
    <3> QED  BY <1>1, <3>1
  <2>3. CASE \E s : processors' = [processors EXCEPT ![requests + 1] = s]
    <3>1. requests + 1 # i
      <4>1. PICK g \in Handlers : pc[g] = "stopping" /\ request[g].old = i
        BY DEF SwitchInv, OneServing
      <4>2. request[g].old <= requests  BY <4>1 DEF SwitchInv, StoppingInv
      <4> QED  BY <1>1, <4>1, <4>2
    <3> QED  BY <1>1, <2>3, <3>1
  <2> QED  BY <1>7, <2>1, <2>2, <2>3 DEF Begin, BeginSelect, BeginUpdate, BeginRestore,
                                         BeginReset, Construct
<1>8. ASSUME NEW h \in Handlers, Handle(h), ~OldStopped(h)
      PROVE  processors'[i] = processors[i]
  <2>1. CASE StartFails(h) \/ Started(h)
    <3>1. Installing(h)  BY <2>1 DEF StartFails, Started, Installing
    <3>2. \E ph : processors' = [processors EXCEPT ![request[h].inst].phase = ph]
      BY <2>1 DEF StartFails, Started, StartAwaited
    <3> QED  BY <1>1, <1>6, <3>1, <3>2
  <2>2. CASE Switch(h)
    <3>1. Installing(h)  BY <2>2 DEF Switch, InLock, Installing
    <3>2. \E s : processors' = [processors EXCEPT ![request[h].inst].phase = "installed",
                                                 ![current] = s]
      BY <2>2 DEF Switch
    <3> QED  BY <1>1, <1>6, <3>1, <3>2
  <2>3. CASE FlushFails(h) \/ ResetCancels(h) \/ ResetClears(h)
    <3>1. \/ \E s : processors' = [processors EXCEPT ![current] = s]
          \/ processors' = [processors EXCEPT ![current].task = "cancelled"]
      BY <2>3 DEF FlushFails, ResetCancels, ResetClears
    <3> QED  BY <1>1, <3>1
  <2> QED  BY <1>8, <2>1, <2>2, <2>3 DEF Handle
<1>9. ASSUME NEW h \in Handlers, OldStopped(h)
      PROVE  /\ processors[i].ready = <<>> => processors'[i].ready = <<>>
             /\ processors'[i].phase = "installed" \/ request[h].old = i
  <2>1. processors' = [processors EXCEPT ![request[h].old] = Stopped(processors[request[h].old])]
    BY <1>9 DEF OldStopped
  <2>2. CASE request[h].old = i
    <3>1. processors'[i] = Stopped(processors[i])  BY <1>1, <2>1, <2>2
    <3>2. Stopped(processors[i]).ready = <<>>  BY <1>1 DEF Stopped, Cleared, Object
    <3> QED  BY <2>2, <3>1, <3>2
  <2>3. CASE request[h].old # i  BY <1>1, <2>1, <2>3
  <2> QED  BY <2>2, <2>3
<1>10. CASE Start \/ StartupFails \/ StopBegins \/ Stop
  <2>1. lifecycle = "new" => current = 0  BY DEF SwitchInv, LifecycleInv
  <2>2. \/ UNCHANGED processors
        \/ \E s : processors' = [processors EXCEPT ![current] = s]
        \/ \E ph : processors' = [processors EXCEPT ![current].phase = ph]
    BY <1>10, <2>1 DEF Start, StartupFails, StopBegins, Stop, StopFlushFails, StopFlushes,
       StopCloses
  <2> QED  BY <1>1, <2>2
<1>11. CASE UNCHANGED vars  BY <1>11 DEF vars
<1> QED  BY <1>2, <1>4, <1>5, <1>7, <1>8, <1>9, <1>10, <1>11 DEF Next

\* A handler that is stopping was so before, or has just switched.
LEMMA StoppingArises ==
  ASSUME IInv, [Next]_vars, NEW h \in Handlers, pc'[h] = "stopping"
  PROVE  Switch(h) \/ (pc[h] = "stopping" /\ request'[h] = request[h])
<1> USE DEF mediaVars, othersVars, handlerVars
<1>1. /\ pc \in [Handlers -> {"idle", "starting", "locking", "stopping", "resetting"}]
      /\ DOMAIN request = Handlers
  BY DEF IInv, TypeOK
<1>2. CASE UNCHANGED <<pc, request>>  BY <1>2
<1>3. ASSUME NEW g \in Handlers, NEW next, next # "stopping",
             pc' = [pc EXCEPT ![g] = next],
             request' = request \/ \E r : request' = [request EXCEPT ![g] = r]
      PROVE  pc[h] = "stopping" /\ request'[h] = request[h]
  <2>1. g # h  BY <1>1, <1>3
  <2> QED  BY <1>1, <1>3, <2>1
<1>4. ASSUME NEW g \in Handlers, Begin(g)
      PROVE  pc[h] = "stopping" /\ request'[h] = request[h]
  <2>1. CASE \E u \in Updates : LiveApply(g, u)  BY <1>2, <2>1 DEF LiveApply
  <2>2. CASE \E kind, t, n, c : Construct(g, kind, t, n, c)
    <3>1. PICK kind, t, n, c : Construct(g, kind, t, n, c)  BY <2>2
    <3>2. /\ pc' = [pc EXCEPT ![g] = "starting"]
          /\ \E r : request' = [request EXCEPT ![g] = r]
      BY ONLY <3>1 DEF Construct
    <3> QED  BY <1>3, <3>2
  <2>3. CASE BeginReset(g)
    <3>1. /\ pc' = [pc EXCEPT ![g] = "locking"]
          /\ \E r : request' = [request EXCEPT ![g] = r]
      BY ONLY <2>3 DEF BeginReset
    <3> QED  BY <1>3, <3>1
  <2> QED
    BY <1>4, <2>1, <2>2, <2>3 DEF Begin, BeginSelect, BeginUpdate, BeginRestore
<1>5. ASSUME NEW g \in Handlers, Handle(g), ~Switch(g)
      PROVE  pc[h] = "stopping" /\ request'[h] = request[h]
  <2>1. request' = request
    BY <1>5 DEF Handle, StartFails, Started, FlushFails, OldStopped, ResetCancels,
       ResetClears, Finish
  <2>2. \/ pc' = [pc EXCEPT ![g] = "idle"]
        \/ pc' = [pc EXCEPT ![g] = "locking"]
        \/ pc' = [pc EXCEPT ![g] = "resetting"]
    BY <1>5 DEF Handle, StartFails, Started, FlushFails, OldStopped, ResetCancels,
       ResetClears, Finish
  <2> QED  BY <1>3, <2>1, <2>2
<1>6. ASSUME NEW g \in Handlers, Switch(g), g # h
      PROVE  pc[h] = "stopping" /\ request'[h] = request[h]
  <2>1. /\ pc' = [pc EXCEPT ![g] = "stopping"]
        /\ request' = [request EXCEPT ![g].old = current]
    BY <1>6 DEF Switch
  <2> QED  BY <1>1, <1>6, <2>1
<1>7. CASE Ingress \/ Worker \/ \E i \in Instances : InferenceEnds(i)
  BY <1>2, <1>7 DEF Ingress, DatagramReceived, OversizedReceived, Worker, WorkerGet,
     ProcessDirect, ProcessDelay, WorkerWakes, ProcessSegmented, ProcessError,
     WorkerCancelled, NextRound, InferenceEnds
<1>8. CASE Start \/ StartupFails \/ StopBegins \/ Stop
  BY <1>2, <1>8 DEF Start, StartupFails, StopBegins, Stop, StopFlushFails, StopFlushes,
     StopCloses
<1>9. CASE UNCHANGED vars  BY <1>2, <1>9 DEF vars
<1> QED  BY <1>4, <1>5, <1>6, <1>7, <1>8, <1>9 DEF Next

\* And it remains so until the old processor has stopped.
LEMMA StoppingStays ==
  ASSUME IInv, [Next]_vars, NEW h \in Handlers, pc[h] = "stopping", ~OldStopped(h)
  PROVE  pc'[h] = "stopping"
<1> USE DEF mediaVars, othersVars, handlerVars
<1>1. pc \in [Handlers -> {"idle", "starting", "locking", "stopping", "resetting"}]
  BY DEF IInv, TypeOK
<1>2. ASSUME NEW g \in Handlers, NEW next, g # h \/ next = "stopping",
             pc' = [pc EXCEPT ![g] = next]
      PROVE  pc'[h] = "stopping"
  BY <1>1, <1>2
<1>3. ASSUME NEW g \in Handlers, Begin(g) PROVE pc'[h] = "stopping"
  <2>1. CASE \E u \in Updates : LiveApply(g, u)  BY <2>1 DEF LiveApply
  <2>2. CASE ~\E u \in Updates : LiveApply(g, u)
    <3>1. pc[g] = "idle" /\ \E next : pc' = [pc EXCEPT ![g] = next]
      BY <1>3, <2>2 DEF Begin, BeginSelect, BeginUpdate, BeginRestore, BeginReset,
         Construct, CanBegin
    <3> QED  BY <1>2, <3>1
  <2> QED  BY <2>1, <2>2
<1>4. ASSUME NEW g \in Handlers, Handle(g) PROVE pc'[h] = "stopping"
  <2>1. CASE OldStopped(g)
    <3>1. g # h /\ pc' = [pc EXCEPT ![g] = "idle"]  BY <2>1 DEF OldStopped, Finish
    <3> QED  BY <1>2, <3>1
  <2>2. CASE ~OldStopped(g)
    <3>1. pc[g] # "stopping" /\ \E next : pc' = [pc EXCEPT ![g] = next]
      BY <1>4, <2>2 DEF Handle, StartFails, Started, FlushFails, Switch, ResetCancels,
         ResetClears, InLock, Finish
    <3> QED  BY <1>2, <3>1
  <2> QED  BY <2>1, <2>2
<1>5. CASE Ingress \/ Worker \/ \E i \in Instances : InferenceEnds(i)
  BY <1>5 DEF Ingress, DatagramReceived, OversizedReceived, Worker, WorkerGet,
     ProcessDirect, ProcessDelay, WorkerWakes, ProcessSegmented, ProcessError,
     WorkerCancelled, NextRound, InferenceEnds
<1>6. CASE Start \/ StartupFails \/ StopBegins \/ Stop
  BY <1>6 DEF Start, StartupFails, StopBegins, Stop, StopFlushFails, StopFlushes,
     StopCloses
<1>7. CASE UNCHANGED vars  BY <1>7 DEF vars
<1> QED  BY <1>3, <1>4, <1>5, <1>6, <1>7 DEF Next

LEMMA DrainedStep ==
  ASSUME IInv, SwitchInv, DrainedInv, [Next]_vars
  PROVE  DrainedInv'
<1>1. /\ processors \in [Instances -> Object] /\ current \in Instances
      /\ processors[current] \in Object
      /\ \A h \in Handlers : request[h].inst \in Instances /\ request[h].old \in Instances
      /\ DOMAIN request = Handlers
  BY DEF IInv, TypeOK
<1>2. Drained(Harvested(processors[current])).ready = <<>>
  <2>1. Harvested(processors[current]) \in Object  BY <1>1, HarvestedType
  <2> QED  BY <2>1 DEF Drained, Object
<1>3. ASSUME NEW h \in Handlers, pc'[h] = "stopping"
      PROVE  processors'[request'[h].old].ready = <<>>
  <2>1. CASE Switch(h)
    <3>1. /\ request' = [request EXCEPT ![h].old = current]
          /\ processors' = [processors EXCEPT ![request[h].inst].phase = "installed",
                              ![current] = Drained(Harvested(processors[current]))]
      BY <2>1 DEF Switch
    <3>2. request'[h].old = current  BY <1>1, <3>1
    <3>3. processors'[current] = Drained(Harvested(processors[current]))
      BY <1>1, <3>1
    <3> QED  BY <1>2, <3>2, <3>3
  <2>2. CASE pc[h] = "stopping" /\ request'[h] = request[h]
    <3>1. /\ processors[request[h].old].ready = <<>>
          /\ request[h].old # current
          /\ processors[request[h].old].phase = "installed"
      BY <2>2 DEF DrainedInv, SwitchInv, StoppingInv
    <3> QED  BY <1>1, <2>2, <3>1, ReplacedKept
  <2> QED  BY <1>3, <2>1, <2>2, StoppingArises
<1>4. ASSUME lifecycle' = "closing"
      PROVE  worker' = "ended" /\ processors'[current'].ready = <<>>
  <2> USE DEF mediaVars, othersVars, controlVars, handlerVars, serviceVars
  <2>1. CASE StopFlushes
    <3>1. /\ worker = "ended" /\ UNCHANGED <<worker, current>>
          /\ processors' = [processors EXCEPT ![current] = Drained(Harvested(processors[current]))]
      BY <2>1 DEF StopFlushes
    <3> QED  BY <1>1, <1>2, <3>1
  <2>2. CASE lifecycle = "closing" /\ ~StopFlushes
    <3>1. worker = "ended" /\ processors[current].ready = <<>>  BY <2>2 DEF DrainedInv
    <3>2. \A h \in Handlers : pc[h] = "idle"  BY <2>2 DEF SwitchInv, LifecycleInv
    <3>3. ~Worker
      BY <3>1 DEF Worker, WorkerGet, ProcessDirect, ProcessDelay, WorkerWakes,
         ProcessSegmented, ProcessError, WorkerCancelled, Processing
    <3>4. \A h \in Handlers : ~Begin(h)
      BY <2>2 DEF Begin, BeginSelect, LiveApply, BeginUpdate, BeginRestore, BeginReset,
         CanBegin
    <3>5. \A h \in Handlers : ~Handle(h)
      BY <3>2 DEF Handle, StartFails, Started, FlushFails, Switch, OldStopped, ResetCancels,
         ResetClears, InLock
    <3>6. ~(Start \/ StartupFails \/ StopBegins \/ StopFlushFails \/ StopCloses)
      BY <1>4, <2>2 DEF Start, StartupFails, StopBegins, StopFlushFails, StopCloses
    <3>7. CASE Ingress \/ UNCHANGED vars
      BY <3>1, <3>7 DEF Ingress, DatagramReceived, OversizedReceived, vars
    <3>8. ASSUME NEW i \in Instances, InferenceEnds(i)
          PROVE  worker' = "ended" /\ processors'[current'].ready = <<>>
      <4>1. PICK outcome \in {"done", "failed"} :
              processors' = [processors EXCEPT ![i].task = outcome]
        BY <3>8 DEF InferenceEnds
      <4>2. UNCHANGED <<worker, current>>  BY <3>8 DEF InferenceEnds
      <4>3. processors'[current].ready = processors[current].ready
        BY <1>1, <4>1 DEF Object
      <4> QED  BY <3>1, <4>2, <4>3
    <3> QED  BY <2>2, <3>3, <3>4, <3>5, <3>6, <3>7, <3>8 DEF Next, Stop
  <2>3. lifecycle = "closing" \/ StopFlushes
    BY <1>4 DEF Next, Ingress, DatagramReceived, OversizedReceived, Worker, WorkerGet,
       ProcessDirect, ProcessDelay, WorkerWakes, ProcessSegmented, ProcessError,
       WorkerCancelled, NextRound, InferenceEnds, Begin, BeginSelect, LiveApply, BeginUpdate,
       BeginRestore, BeginReset, Construct, Handle, StartFails, Started, FlushFails, Switch,
       OldStopped, ResetCancels, ResetClears, Start, StartupFails, StopBegins, Stop,
       StopFlushFails, StopCloses, vars
  <2> QED  BY <2>1, <2>2, <2>3
<1> QED  BY <1>3, <1>4 DEF DrainedInv

\* Only stop() of the service stops the active object.
LEMMA ActiveNotStopped ==
  ASSUME IInv, SwitchInv, [Next]_vars, ~StopCloses,
         processors[current].phase = "installed"
  PROVE  processors'[current].phase # "stopped"
<1> DEFINE c == processors[current]
<1>1. /\ processors \in [Instances -> Object] /\ current \in Instances
      /\ c \in Object /\ c.phase = "installed"
      /\ requests \in Nat
      /\ \A h \in Handlers : request[h].inst \in Instances /\ request[h].old \in Instances
  BY SizesAssumption DEF IInv, TypeOK
<1>2. CASE UNCHANGED processors  BY <1>1, <1>2
<1>3. ASSUME NEW s, s.phase # "stopped", processors' = [processors EXCEPT ![current] = s]
      PROVE  processors'[current].phase # "stopped"
  BY <1>1, <1>3
<1>4. ASSUME NEW j, j # current, \E s : processors' = [processors EXCEPT ![j] = s]
      PROVE  processors'[current].phase # "stopped"
  BY <1>1, <1>4
<1>5. Harvested(c).phase = "installed" /\ Harvested(c) \in Object
  BY <1>1, SameIdentity, HarvestedType
<1>6. /\ Drained(Harvested(c)).phase = "installed" /\ Cleared(c).phase = "installed"
      /\ Accepted(Harvested(c), packet).phase = "installed"
  BY <1>1, <1>5, SameIdentity
<1>7. CASE Ingress \/ Worker
  <2>1. CASE ProcessSegmented
    <3>1. PICK s : s = [Accepted(Harvested(c), packet) EXCEPT !.ready = RestOf(@)]  OBVIOUS
    <3>2. s.phase = "installed"  BY ONLY <1>6, <3>1
    <3>3. processors' = [processors EXCEPT ![current] = s]  BY <2>1, <3>1 DEF ProcessSegmented
    <3> QED  BY <1>3, <3>2, <3>3
  <2>2. CASE ProcessError  BY <1>3, <1>5, <2>2 DEF ProcessError
  <2>3. CASE UNCHANGED processors  BY <1>2, <2>3
  <2> QED
    BY <1>7, <2>1, <2>2, <2>3 DEF Ingress, DatagramReceived, OversizedReceived, Worker,
       WorkerGet, ProcessDirect, ProcessDelay, WorkerWakes, WorkerCancelled
<1>8. ASSUME NEW j \in Instances, InferenceEnds(j)
      PROVE  processors'[current].phase # "stopped"
  <2>1. PICK outcome \in {"done", "failed"} :
          processors' = [processors EXCEPT ![j].task = outcome]
    BY <1>8 DEF InferenceEnds
  <2> QED  BY <1>1, <2>1 DEF Object
<1>9. ASSUME NEW h \in Handlers, Begin(h) PROVE processors'[current].phase # "stopped"
  <2>1. CASE \E u \in Updates : LiveApply(h, u)
    <3>1. PICK v : processors' = [processors EXCEPT ![current].level = v]
      BY <2>1 DEF LiveApply
    <3> QED  BY <1>1, <3>1 DEF Object
  <2>2. CASE \E kind, t, n, x : Construct(h, kind, t, n, x)
    <3>1. \E s : processors' = [processors EXCEPT ![requests + 1] = s]
      BY <2>2 DEF Construct
    <3>2. current <= requests /\ current \in Nat
      BY <1>1 DEF SwitchInv, LifecycleInv, Instances
    <3>3. requests + 1 # current  BY <1>1, <3>2
    <3> QED  BY <1>4, <3>1, <3>3
  <2>3. CASE BeginReset(h)  BY <1>2, <2>3 DEF BeginReset
  <2> QED
    BY <1>9, <2>1, <2>2, <2>3 DEF Begin, BeginSelect, BeginUpdate, BeginRestore
<1>10. \A h \in Handlers : Installing(h) => request[h].inst # current
  BY DEF SwitchInv, ReplacementsInv, IsReplacement
<1>11. ASSUME NEW h \in Handlers, Handle(h) PROVE processors'[current].phase # "stopped"
  <2>1. CASE StartFails(h) \/ Started(h)
    <3>1. Installing(h)  BY <2>1 DEF StartFails, Started, Installing
    <3>2. PICK ph : processors' = [processors EXCEPT ![request[h].inst].phase = ph]
      BY <2>1 DEF StartFails, Started, StartAwaited
    <3> QED  BY <1>1, <1>10, <3>1, <3>2
  <2>2. CASE Switch(h)
    <3>1. processors' = [processors EXCEPT ![request[h].inst].phase = "installed",
                           ![current] = Drained(Harvested(c))]
      BY <2>2 DEF Switch
    <3>2. processors'[current] = Drained(Harvested(c))  BY <1>1, <3>1
    <3> QED  BY <1>6, <3>2
  <2>3. CASE FlushFails(h)  BY <1>3, <1>5, <2>3 DEF FlushFails
  <2>4. CASE OldStopped(h)
    <3>1. request[h].old # current  BY <2>4 DEF OldStopped, SwitchInv, StoppingInv
    <3>2. \E s : processors' = [processors EXCEPT ![request[h].old] = s]
      BY <2>4 DEF OldStopped
    <3> QED  BY <1>4, <3>1, <3>2
  <2>5. CASE ResetCancels(h)
    <3>1. processors' = [processors EXCEPT ![current].task = "cancelled"]
      BY <2>5 DEF ResetCancels
    <3> QED  BY <1>1, <3>1 DEF Object
  <2>6. CASE ResetClears(h)  BY <1>3, <1>6, <2>6 DEF ResetClears
  <2> QED  BY <1>11, <2>1, <2>2, <2>3, <2>4, <2>5, <2>6 DEF Handle
<1>12. CASE Start \/ StartupFails \/ StopBegins \/ StopFlushFails \/ StopFlushes
  <2>1. lifecycle = "new" => current = 0  BY DEF SwitchInv, LifecycleInv
  <2>2. CASE Start \/ StartupFails
    <3>1. PICK ph \in {"installed", "discarded", "started"} :
            processors' = [processors EXCEPT ![current].phase = ph]
      BY <2>1, <2>2 DEF Start, StartupFails
    <3> QED  BY <1>1, <3>1 DEF Object
  <2>3. CASE StopBegins  BY <1>2, <2>3 DEF StopBegins
  <2>4. CASE StopFlushFails  BY <1>3, <1>5, <2>4 DEF StopFlushFails
  <2>5. CASE StopFlushes  BY <1>3, <1>6, <2>5 DEF StopFlushes
  <2> QED  BY <1>12, <2>2, <2>3, <2>4, <2>5
<1>13. CASE UNCHANGED vars  BY <1>2, <1>13 DEF vars
<1> QED  BY <1>7, <1>8, <1>9, <1>11, <1>12, <1>13 DEF Next, Stop

\* "Buffered output from the old processor is flushed before it is stopped": no
\* stop() clears a segment that was ready to be sent.
THEOREM FlushedFirst == Spec => FlushedBeforeStopped
<1> DEFINE Inv == IInv /\ SwitchInv /\ DrainedInv
           A == \A i \in Instances :
                  processors[i].phase = "installed" /\ processors'[i].phase = "stopped"
                  => processors[i].ready = <<>>
<1>1. Init => Inv
  <2>1. Init => DrainedInv  BY DEF Init, DrainedInv
  <2> QED  BY <2>1, InitIInv, SwitchInvInit
<1>2. Inv /\ [Next]_vars => Inv'
  BY SwitchInvStep, TypeStep, LockStep, OrderStep, DrainedStep DEF IInv
<1>3. Inv /\ [Next]_vars => [A]_vars
  <2> SUFFICES ASSUME IInv, SwitchInv, DrainedInv, [Next]_vars, NEW i \in Instances,
                      processors[i].phase = "installed", processors'[i].phase = "stopped"
               PROVE  processors[i].ready = <<>>
    OBVIOUS
  <2>1. CASE i # current
    <3>1. PICK h \in Handlers : OldStopped(h) /\ request[h].old = i
      BY <2>1, ReplacedKept
    <3> QED  BY <3>1 DEF OldStopped, DrainedInv
  <2>2. CASE i = current
    <3>1. CASE StopCloses  BY <2>2, <3>1 DEF StopCloses, DrainedInv
    <3>2. CASE ~StopCloses
      BY <2>2, <3>2, ActiveNotStopped
    <3> QED  BY <3>1, <3>2
  <2> QED  BY <2>1, <2>2
<1> QED  BY <1>1, <1>2, <1>3, PTL DEF Spec, FlushedBeforeStopped

-----------------------------------------------------------------------------
(* Which processor serves, and with which parameter.                       *)

\* What the operations on buffers do not touch.
LEMMA SameLevel ==
  ASSUME NEW s \in Object, NEW p
  PROVE  /\ Harvested(s).level = s.level /\ Accepted(s, p).level = s.level
         /\ Cleared(s).level = s.level /\ Drained(s).level = s.level
         /\ Stopped(s).level = s.level
BY DEF Harvested, Accepted, Cleared, Drained, Stopped, Object

\* Name and level of the active object through a step that replaces one object.
LEMMA ActiveReplaced ==
  ASSUME TypeOK, NEW i, NEW s, processors' = [processors EXCEPT ![i] = s],
         i = current => /\ s.name = processors[current].name
                        /\ s.level = processors[current].level
  PROVE  /\ processors'[current].name = processors[current].name
         /\ processors'[current].level = processors[current].level
<1>1. processors \in [Instances -> Object] /\ current \in Instances  BY DEF TypeOK
<1>2. CASE i = current  BY <1>1, <1>2
<1>3. CASE i # current  BY <1>1, <1>3
<1> QED  BY <1>2, <1>3

\* The same when only the phase or the task changes.
LEMMA ActiveMarked ==
  ASSUME TypeOK, NEW i, NEW v,
         \/ processors' = [processors EXCEPT ![i].phase = v]
         \/ processors' = [processors EXCEPT ![i].task = v]
  PROVE  /\ processors'[current].name = processors[current].name
         /\ processors'[current].level = processors[current].level
<1>1. processors \in [Instances -> Object] /\ current \in Instances
      /\ processors[current] \in Object
  BY DEF TypeOK
<1>2. CASE i = current  BY <1>1, <1>2 DEF Object
<1>3. CASE i # current  BY <1>1, <1>3
<1> QED  BY <1>2, <1>3

\* The processor that serves keeps its name and parameter.
ServingSame ==
  /\ processors'[current].name = processors[current].name
  /\ processors'[current].level = processors[current].level

\* A live change is one of the active processor's own parameter, in the object and
\* in the settings.
LEMMA LiveChange ==
  ASSUME TypeOK, NEW h \in Handlers, NEW u \in Updates, LiveApply(h, u)
  PROVE  LET n == processors[current].name
         IN  /\ n \in Live /\ n # "processor" /\ u[n] \in Levels
             /\ settings' = [settings EXCEPT ![n] = u[n]]
             /\ processors' = [processors EXCEPT ![current].level = u[n]]
             /\ processors'[current].name = n /\ processors'[current].level = u[n]
             /\ UNCHANGED <<current, pc, request>>
<1> DEFINE n == processors[current].name
<1>1. /\ processors' = [processors EXCEPT ![current].level = u[n]]
      /\ settings' = Replaced(settings, u) /\ DOMAIN u = {n}
      /\ UNCHANGED <<current, pc, request>>
  BY DEF LiveApply, LiveRule, handlerVars
<1>2. /\ processors \in [Instances -> Object] /\ current \in Instances
      /\ processors[current] \in Object /\ settings \in SettingsSet
  BY DEF TypeOK
<1>3. n \in Names /\ n # "processor"  BY <1>2, ConstantsAssumption DEF Object
<1>4. PICK K \in SUBSET Keys \ {{}} :
        /\ u \in [K -> Names \cup Levels]
        /\ \A k \in K : u[k] \in IF k = "processor" THEN Names ELSE Levels
  BY DEF Updates
<1>5. K = {n}  BY <1>1, <1>4
<1>6. n \in Live /\ u[n] \in Levels  BY <1>3, <1>4, <1>5 DEF Keys
<1>7. settings' = [settings EXCEPT ![n] = u[n]]
  <2>1. settings \in [Keys -> Names \cup Levels]  BY <1>2 DEF SettingsSet
  <2>2. \A k \in Keys : (IF k \in DOMAIN u THEN u[k] ELSE settings[k])
                          = (IF k = n THEN u[n] ELSE settings[k])
    BY <1>1
  <2>3. Replaced(settings, u) = [k \in Keys |-> IF k = n THEN u[n] ELSE settings[k]]
    BY <2>2 DEF Replaced
  <2> QED  BY <1>1, <2>1, <2>3
<1>8. processors'[current].name = n /\ processors'[current].level = u[n]
  BY <1>1, <1>2 DEF Object
<1> QED  BY <1>1, <1>3, <1>6, <1>7, <1>8

\* A switch installs the replacement with the parameter it was constructed with,
\* which for an update is the one of its candidate.
LEMMA SwitchServes ==
  ASSUME IInv, SwitchInv, NEW h \in Handlers, Switch(h)
  PROVE  LET new == processors[request[h].inst]
         IN  /\ current' = request[h].inst /\ current' \in Instances
             /\ processors'[current'].name = new.name
             /\ processors'[current'].level = new.level
             /\ pc' = [pc EXCEPT ![h] = "stopping"]
             /\ request' = [request EXCEPT ![h].old = current]
             /\ \/ request[h].kind = "select" /\ settings' = settings
                \/ /\ request[h].kind = "update" /\ settings' = request[h].candidate
                   /\ new.name = settings'["processor"]
                   /\ new.level = LevelIn(settings', new.name)
<1> DEFINE i == request[h].inst
           new == processors[i]
           old == Drained(Harvested(processors[current]))
<1>1. /\ processors \in [Instances -> Object] /\ current \in Instances
      /\ i \in Instances /\ new \in Object
  BY DEF IInv, TypeOK
<1>2. /\ processors' = [processors EXCEPT ![i].phase = "installed", ![current] = old]
      /\ current' = i /\ pc[h] = "locking" /\ request[h].kind # "reset"
      /\ pc' = [pc EXCEPT ![h] = "stopping"]
      /\ request' = [request EXCEPT ![h].old = current]
      /\ IF request[h].kind = "update" THEN settings' = request[h].candidate
                                       ELSE settings' = settings
  BY DEF Switch, InLock
<1>3. Installing(h)  BY <1>2 DEF Installing
<1>4. IsReplacement(h)  BY <1>3 DEF SwitchInv, ReplacementsInv
<1>5. /\ i # current /\ request[h].kind \in {"select", "update"}
      /\ request[h].kind = "update" =>
           /\ new.name = request[h].candidate["processor"]
           /\ new.level = LevelIn(request[h].candidate, new.name)
  BY <1>4 DEF IsReplacement
<1> HIDE DEF old
<1>6. processors'[i] = [new EXCEPT !.phase = "installed"]  BY <1>1, <1>2, <1>5
<1>7. processors'[i].name = new.name /\ processors'[i].level = new.level
  BY <1>1, <1>6 DEF Object
<1> QED  BY <1>1, <1>2, <1>5, <1>7

\* No other step changes either, and of the settings only the name a selection
\* records.
LEMMA ServingKept ==
  ASSUME IInv, SwitchInv, [Next]_vars,
         \A h \in Handlers : ~Switch(h),
         \A h \in Handlers, u \in Updates : ~LiveApply(h, u)
  PROVE  /\ current' = current /\ ServingSame
         /\ settings' = settings \/ \E h \in Handlers : OldStopped(h)
<1> DEFINE c == processors[current]
<1>1. /\ TypeOK /\ processors \in [Instances -> Object] /\ current \in Instances
      /\ c \in Object /\ Harvested(c) \in Object
      /\ \A h \in Handlers : request[h].inst \in Instances /\ request[h].old \in Instances
  BY HarvestedType DEF IInv, TypeOK
<1>2. /\ Harvested(c).name = c.name /\ Harvested(c).level = c.level
      /\ Cleared(c).name = c.name /\ Cleared(c).level = c.level
      /\ Drained(Harvested(c)).name = c.name /\ Drained(Harvested(c)).level = c.level
      /\ Accepted(Harvested(c), packet).name = c.name
      /\ Accepted(Harvested(c), packet).level = c.level
      /\ Stopped(c).name = c.name /\ Stopped(c).level = c.level
  BY <1>1, SameIdentity, SameLevel
<1>3. current' = current  BY OnlySwitchInstalls
<1>4. ASSUME UNCHANGED processors PROVE ServingSame  BY <1>4 DEF ServingSame
<1> USE DEF ServingSame
<1>5. CASE Ingress \/ Worker
  <2>1. UNCHANGED settings
    BY <1>5 DEF Ingress, DatagramReceived, OversizedReceived, Worker, WorkerGet,
       ProcessDirect, ProcessDelay, WorkerWakes, ProcessSegmented, ProcessError,
       WorkerCancelled, NextRound, othersVars, controlVars
  <2>2. CASE ProcessSegmented
    <3>1. PICK s : s = [Accepted(Harvested(c), packet) EXCEPT !.ready = RestOf(@)]  OBVIOUS
    <3>2. s.name = c.name /\ s.level = c.level  BY ONLY <1>2, <3>1
    <3>3. processors' = [processors EXCEPT ![current] = s]  BY <2>2, <3>1 DEF ProcessSegmented
    <3> QED  BY <1>1, <1>3, <2>1, <3>2, <3>3, ActiveReplaced
  <2>3. CASE ProcessError
    <3>1. processors' = [processors EXCEPT ![current] = Harvested(c)]
      BY <2>3 DEF ProcessError
    <3> QED  BY <1>1, <1>2, <1>3, <2>1, <3>1, ActiveReplaced
  <2>4. CASE UNCHANGED processors  BY <1>3, <1>4, <2>1, <2>4
  <2> QED
    BY <1>5, <2>2, <2>3, <2>4 DEF Ingress, DatagramReceived, OversizedReceived, Worker,
       WorkerGet, ProcessDirect, ProcessDelay, WorkerWakes, WorkerCancelled
<1>6. CASE \E i \in Instances : InferenceEnds(i)
  <2>1. UNCHANGED settings  BY <1>6 DEF InferenceEnds, othersVars, controlVars
  <2>2. \E i, v : processors' = [processors EXCEPT ![i].task = v]
    BY <1>6 DEF InferenceEnds
  <2> QED  BY <1>1, <1>3, <2>1, <2>2, ActiveMarked
<1>7. ASSUME NEW h \in Handlers, NEW kind, NEW s, NEW n, NEW x, Construct(h, kind, s, n, x)
      PROVE  ServingSame /\ settings' = settings
  <2>1. settings' = settings /\ processors' = [processors EXCEPT ![requests + 1] = Create(s, n)]
    BY <1>7 DEF Construct, controlVars
  <2>2. requests + 1 # current
    <3>1. requests \in Nat /\ current \in Nat /\ current <= requests
      BY <1>1, SizesAssumption DEF TypeOK, SwitchInv, LifecycleInv, Instances
    <3> QED  BY <3>1
  <2> QED  BY <1>1, <2>1, <2>2, ActiveReplaced
<1>8. ASSUME NEW h \in Handlers, Begin(h) PROVE ServingSame /\ settings' = settings
  <2>1. CASE BeginReset(h)  BY <1>4, <2>1 DEF BeginReset, controlVars
  <2>2. CASE ~BeginReset(h)
    BY <1>7, <1>8, <2>2 DEF Begin, BeginSelect, BeginUpdate, BeginRestore
  <2> QED  BY <2>1, <2>2
<1>9. ASSUME NEW h \in Handlers, Handle(h)
      PROVE  ServingSame /\ (settings' = settings \/ OldStopped(h))
  <2>1. settings' = settings \/ OldStopped(h)
    BY <1>9 DEF Handle, StartFails, Started, FlushFails, NotInstalled, ResetCancels,
       ResetClears, controlVars
  <2>2. CASE StartFails(h) \/ Started(h)
    <3>1. \E v : processors' = [processors EXCEPT ![request[h].inst].phase = v]
      BY <2>2 DEF StartFails, Started, StartAwaited
    <3> QED  BY <1>1, <2>1, <3>1, ActiveMarked
  <2>3. CASE FlushFails(h)
    <3>1. processors' = [processors EXCEPT ![current] = Harvested(c)]
      BY <2>3 DEF FlushFails
    <3> QED  BY <1>1, <1>2, <2>1, <3>1, ActiveReplaced
  <2>4. CASE OldStopped(h)
    <3>1. request[h].old # current  BY <2>4 DEF OldStopped, SwitchInv, StoppingInv
    <3>2. PICK s : processors' = [processors EXCEPT ![request[h].old] = s]
      BY <2>4 DEF OldStopped
    <3> QED  BY <1>1, <2>1, <3>1, <3>2, ActiveReplaced
  <2>5. CASE ResetCancels(h)  BY <1>1, <2>1, <2>5, ActiveMarked DEF ResetCancels
  <2>6. CASE ResetClears(h)
    <3>1. processors' = [processors EXCEPT ![current] = Cleared(c)]
      BY <2>6 DEF ResetClears
    <3> QED  BY <1>1, <1>2, <2>1, <3>1, ActiveReplaced
  <2> QED  BY <1>9, <2>2, <2>3, <2>4, <2>5, <2>6 DEF Handle
<1>10. CASE Start \/ StartupFails \/ StopBegins \/ Stop
  <2>1. UNCHANGED settings
    BY <1>10 DEF Start, StartupFails, StopBegins, Stop, StopFlushFails, StopFlushes,
       StopCloses, controlVars
  <2>2. CASE Start \/ StartupFails
    <3>1. \E v : processors' = [processors EXCEPT ![0].phase = v]
      BY <2>2 DEF Start, StartupFails
    <3> QED  BY <1>1, <1>3, <2>1, <3>1, ActiveMarked
  <2>3. CASE StopBegins  BY <1>3, <1>4, <2>1, <2>3 DEF StopBegins
  <2>4. CASE Stop
    <3>1. \/ processors' = [processors EXCEPT ![current] = Harvested(c)]
          \/ processors' = [processors EXCEPT ![current] = Drained(Harvested(c))]
          \/ processors' = [processors EXCEPT ![current] = Stopped(c)]
      BY <2>4 DEF Stop, StopFlushFails, StopFlushes, StopCloses
    <3> QED  BY <1>1, <1>2, <1>3, <2>1, <3>1, ActiveReplaced
  <2> QED  BY <1>10, <2>2, <2>3, <2>4
<1>11. CASE UNCHANGED vars
  BY <1>3, <1>4, <1>11 DEF vars, othersVars, controlVars
<1> QED
  BY <1>3, <1>5, <1>6, <1>8, <1>9, <1>10, <1>11 DEF Next

-----------------------------------------------------------------------------
(* Settings and parameters, as long as nobody selects by name.             *)

\* Requests are updates, restores and resets, and the active parameter is the
\* one the settings report.
LevelInv ==
  /\ \A h \in Handlers : request[h].kind # "select"
  /\ processors[current].level = LevelIn(settings, processors[current].name)

\* Without BeginSelect no request becomes a selection.
LEMMA NoSelection ==
  ASSUME Selectable = {}, IInv, LevelInv, [Next]_vars, NEW g \in Handlers
  PROVE  request'[g].kind # "select"
<1> USE DEF mediaVars, othersVars, handlerVars
<1>1. /\ request[g].kind # "select"
      /\ request \in [Handlers -> [kind : {"none", "select", "update", "reset"},
                                   inst : Instances, old : Instances,
                                   candidate : SettingsSet]]
  BY DEF IInv, TypeOK, LevelInv
<1>2. ASSUME NEW h \in Handlers, Begin(h) PROVE request'[g].kind # "select"
  <2>1. CASE \E u \in Updates : LiveApply(h, u)  BY <1>1, <2>1 DEF LiveApply
  <2>2. CASE ~\E u \in Updates : LiveApply(h, u)
    <3>1. \E r : r.kind # "select" /\ request' = [request EXCEPT ![h] = r]
      BY <1>2, <2>2 DEF Begin, BeginUpdate, BeginRestore, BeginReset, Construct
    <3> QED  BY <1>1, <3>1
  <2> QED  BY <2>1, <2>2
<1>3. ASSUME NEW h \in Handlers, Handle(h) PROVE request'[g].kind # "select"
  <2>1. CASE Switch(h)
    <3>1. request' = [request EXCEPT ![h].old = current]  BY <2>1 DEF Switch
    <3> QED  BY <1>1, <3>1
  <2>2. CASE ~Switch(h)
    BY <1>1, <1>3, <2>2 DEF Handle, StartFails, Started, FlushFails, OldStopped,
       ResetCancels, ResetClears, Finish
  <2> QED  BY <2>1, <2>2
<1>4. CASE Ingress \/ Worker \/ \E i \in Instances : InferenceEnds(i)
  BY <1>1, <1>4 DEF Ingress, DatagramReceived, OversizedReceived, Worker, WorkerGet,
     ProcessDirect, ProcessDelay, WorkerWakes, ProcessSegmented, ProcessError,
     WorkerCancelled, NextRound, InferenceEnds
<1>5. CASE Start \/ StartupFails \/ StopBegins \/ Stop
  BY <1>1, <1>5 DEF Start, StartupFails, StopBegins, Stop, StopFlushFails, StopFlushes,
     StopCloses
<1>6. CASE UNCHANGED vars  BY <1>1, <1>6 DEF vars
<1> QED  BY <1>2, <1>3, <1>4, <1>5, <1>6 DEF Next

LEMMA LevelStep ==
  ASSUME Selectable = {}, IInv, SwitchInv, LevelInv, [Next]_vars
  PROVE  LevelInv'
<1>1. \A h \in Handlers : request[h].kind # "select" /\ request'[h].kind # "select"
  BY NoSelection DEF LevelInv
<1>2. CASE \E h \in Handlers : Switch(h)
  <2>1. PICK h \in Handlers : Switch(h)  BY <1>2
  <2> DEFINE new == processors[request[h].inst]
  <2>2. /\ new.level = LevelIn(settings', new.name)
        /\ processors'[current'].name = new.name /\ processors'[current'].level = new.level
    BY <1>1, <2>1, SwitchServes
  <2> QED  BY <1>1, <2>2 DEF LevelInv
<1>3. CASE \E h \in Handlers, u \in Updates : LiveApply(h, u)
  <2>1. PICK h \in Handlers, u \in Updates : LiveApply(h, u)  BY <1>3
  <2> DEFINE n == processors[current].name
  <2>2. /\ n \in Live /\ settings' = [settings EXCEPT ![n] = u[n]]
        /\ processors'[current].name = n /\ processors'[current].level = u[n]
        /\ current' = current
    BY <2>1, LiveChange DEF IInv
  <2>3. settings \in [Keys -> Names \cup Levels]  BY DEF IInv, TypeOK, SettingsSet
  <2>4. settings'[n] = u[n]  BY <2>2, <2>3 DEF Keys
  <2> QED  BY <1>1, <2>2, <2>4 DEF LevelInv, LevelIn
<1>4. CASE /\ \A h \in Handlers : ~Switch(h)
           /\ \A h \in Handlers, u \in Updates : ~LiveApply(h, u)
  <2>1. /\ current' = current /\ ServingSame
        /\ settings' = settings \/ \E h \in Handlers : OldStopped(h)
    BY <1>4, ServingKept
  <2>2. settings' = settings  BY <1>1, <2>1 DEF OldStopped, NameRecorded
  <2> QED  BY <1>1, <2>1, <2>2 DEF LevelInv, ServingSame
<1> QED  BY <1>2, <1>3, <1>4

\* Live changes, restarts and restores keep the active parameter what the
\* settings report, in every interleaving.  What breaks it is PUT
\* /processor/{name} alone, which constructs from the service's older registry.
THEOREM LevelsMatchWithoutSelect ==
  ASSUME Selectable = {}
  PROVE  Spec => []ActiveLevelMatchesSettings
<1> DEFINE Inv == IInv /\ SwitchInv /\ LevelInv
<1>1. Init => Inv
  <2>1. ASSUME Init PROVE LevelInv
    <3>1. processors[0] = Create(Startup, Startup["processor"]) /\ current = 0
          /\ settings = Startup /\ \A h \in Handlers : request[h].kind = "none"
      BY <2>1, SizesAssumption DEF Init, Instances
    <3> QED  BY <3>1 DEF LevelInv, Create
  <2> QED  BY <2>1, InitIInv, SwitchInvInit
<1>2. Inv /\ [Next]_vars => Inv'
  BY SwitchInvStep, TypeStep, LockStep, OrderStep, LevelStep DEF IInv
<1>3. Inv => ActiveLevelMatchesSettings  BY DEF LevelInv, ActiveLevelMatchesSettings
<1> QED  BY <1>1, <1>2, <1>3, PTL DEF Spec

-----------------------------------------------------------------------------
(* Requests implement ControlPlane.                                        *)

\* A request that is stopping the old processor is the only one inside the lock,
\* and what is reported then is what it selected or constructed.
LEMMA OneStopping ==
  ASSUME IInv, NEW g \in Handlers, NEW h \in Handlers, pc[g] = "stopping",
         pc[h] = "stopping" \/ Owns(h)
  PROVE  g = h
BY DEF IInv, LockDiscipline, Owns

LEMMA SwitchIsAtomic ==
  ASSUME IInv, SwitchInv, NEW h \in Handlers, Switch(h)
  PROVE  Control!Next
<1> DEFINE i == request[h].inst
           new == processors[i]
<1>1. /\ current' = i /\ processors'[current'].name = new.name
      /\ processors'[current'].level = new.level
      /\ pc' = [pc EXCEPT ![h] = "stopping"]
      /\ request' = [request EXCEPT ![h].old = current]
      /\ \/ request[h].kind = "select" /\ settings' = settings
         \/ /\ request[h].kind = "update" /\ settings' = request[h].candidate
            /\ new.name = settings'["processor"]
            /\ new.level = LevelIn(settings', new.name)
  BY SwitchServes
<1>2. pc[h] = "locking" /\ Owns(h)  BY DEF Switch, InLock
<1>3. /\ pc \in [Handlers -> {"idle", "starting", "locking", "stopping", "resetting"}]
      /\ request \in [Handlers -> [kind : {"none", "select", "update", "reset"},
                                   inst : Instances, old : Instances,
                                   candidate : SettingsSet]]
      /\ processors \in [Instances -> Object]
  BY DEF IInv, TypeOK
<1>4. new \in Object /\ request[h].candidate \in SettingsSet  BY <1>3
<1>5. new.name \in Names /\ new.level \in Levels \cup {NoLevel}  BY <1>4 DEF Object
<1>6. \A g \in Handlers : pc[g] # "stopping"  BY <1>2, OneStopping
<1>7. Reported = settings  BY <1>6 DEF Reported
<1>8. /\ pc'[h] = "stopping" /\ request'[h].kind = request[h].kind
      /\ \A g \in Handlers : pc'[g] = "stopping" => g = h
  BY <1>1, <1>3, <1>6
<1> HIDE DEF new
<1>9. CASE request[h].kind = "select" /\ settings' = settings
  <2>1. Reported' = [settings EXCEPT !["processor"] = new.name]
    BY <1>1, <1>8, <1>9 DEF Reported
  <2>2. Control!Select  BY <1>1, <1>5, <1>7, <2>1 DEF Control!Select
  <2> QED  BY <2>2 DEF Control!Next
<1>10. CASE /\ request[h].kind = "update" /\ settings' = request[h].candidate
            /\ new.name = settings'["processor"]
            /\ new.level = LevelIn(settings', new.name)
  <2>1. Reported' = settings'  BY <1>8, <1>10 DEF Reported
  <2>2. settings' \in SettingsSet  BY <1>4, <1>10
  <2>3. Control!Constructed(settings') = [name |-> new.name, level |-> new.level]
    BY <1>10 DEF Control!Constructed, LevelIn
  <2>4. Control!Replace  BY <1>1, <2>1, <2>2, <2>3 DEF Control!Replace
  <2> QED  BY <2>4 DEF Control!Next
<1> QED  BY <1>1, <1>9, <1>10 DEF new

LEMMA LiveIsAtomic ==
  ASSUME IInv, NEW h \in Handlers, NEW u \in Updates, LiveApply(h, u)
  PROVE  Control!Next
<1> DEFINE n == processors[current].name
<1>1. /\ n \in Live /\ n # "processor" /\ u[n] \in Levels
      /\ settings' = [settings EXCEPT ![n] = u[n]]
      /\ processors'[current].name = n /\ processors'[current].level = u[n]
      /\ UNCHANGED <<current, pc, request>>
  BY LiveChange DEF IInv
<1>2. settings \in [Keys -> Names \cup Levels]  BY DEF IInv, TypeOK, SettingsSet
<1> DEFINE v == u[n]
<1> HIDE DEF v
<1>3. \/ Reported = settings /\ Reported' = settings'
      \/ /\ Reported = [settings EXCEPT !["processor"] = n]
         /\ Reported' = [settings' EXCEPT !["processor"] = n]
  BY <1>1 DEF Reported
<1> HIDE DEF n
<1>4. Reported' = [Reported EXCEPT ![n] = v]
  <2>1. [[settings EXCEPT ![n] = v] EXCEPT !["processor"] = n]
          = [[settings EXCEPT !["processor"] = n] EXCEPT ![n] = v]
    BY <1>1, <1>2
  <2> QED  BY <1>1, <1>3, <2>1 DEF v
<1>5. [name |-> n, level |-> v] = [[name |-> n, level |-> processors[current].level]
                                     EXCEPT !.level = v]
  OBVIOUS
<1>6. Control!Adjust  BY <1>1, <1>4, <1>5 DEF Control!Adjust, v, n
<1> QED  BY <1>6 DEF Control!Next

\* Every other step, that of recording a selection included, changes nothing that
\* is in force.
LEMMA OthersStutter ==
  ASSUME IInv, SwitchInv, [Next]_vars,
         \A h \in Handlers : ~Switch(h),
         \A h \in Handlers, u \in Updates : ~LiveApply(h, u)
  PROVE  UNCHANGED Control!controlVars
<1>1. /\ current' = current /\ ServingSame
      /\ settings' = settings \/ \E h \in Handlers : OldStopped(h)
  BY ServingKept
<1>2. \A g \in Handlers : pc'[g] = "stopping" =>
        pc[g] = "stopping" /\ request'[g] = request[g]
  BY StoppingArises
<1>3. Reported' = Reported
  <2>1. CASE \E h \in Handlers : OldStopped(h)
    <3>1. PICK h \in Handlers : OldStopped(h)  BY <2>1
    <3>2. /\ pc[h] = "stopping" /\ pc' = [pc EXCEPT ![h] = "idle"]
          /\ settings' = NameRecorded(h)
      BY <3>1 DEF OldStopped, Finish
    <3>3. request[h].inst = current  BY <3>2 DEF SwitchInv, StoppingInv
    <3>4. \A g \in Handlers : pc[g] = "stopping" => g = h  BY <3>2, OneStopping
    <3>5. pc'[h] = "idle"  BY <3>2 DEF IInv, TypeOK
    <3>6. \A g \in Handlers : pc'[g] # "stopping"  BY <1>2, <3>4, <3>5
    <3>7. Reported' = settings'  BY <3>6 DEF Reported
    <3>8. Reported = NameRecorded(h)  BY <3>2, <3>3, <3>4 DEF Reported, NameRecorded
    <3> QED  BY <3>2, <3>7, <3>8
  <2>2. CASE \A h \in Handlers : ~OldStopped(h)
    <3>1. settings' = settings  BY <1>1, <2>2
    <3>2. \A g \in Handlers : pc[g] = "stopping" => pc'[g] = "stopping"
      BY <2>2, StoppingStays
    <3>3. processors'[current'].name = processors[current].name  BY <1>1 DEF ServingSame
    <3> QED  BY <1>2, <3>1, <3>2, <3>3 DEF Reported
  <2> QED  BY <2>1, <2>2
<1> QED  BY <1>1, <1>3 DEF ServingSame, Control!controlVars

\* Requests are atomic: for any number of them and whatever suspends between the
\* assignments of a switch, each changes processor, parameter and settings at one
\* moment, or none of them.
THEOREM RequestsAreAtomic == Spec => ImplementsControlPlane
<1>1. Init => Control!Init
  <2> SUFFICES ASSUME Init PROVE Control!Init  OBVIOUS
  <2>1. /\ processors[0] = Create(Startup, Startup["processor"]) /\ current = 0
        /\ settings = Startup /\ \A h \in Handlers : pc[h] = "idle"
    BY SizesAssumption DEF Init, Instances
  <2>2. Reported = Startup  BY <2>1 DEF Reported
  <2>3. Control!Constructed(Startup)
          = [name |-> processors[0].name, level |-> processors[0].level]
    BY <2>1 DEF Control!Constructed, Create, LevelIn
  <2> QED  BY <2>1, <2>2, <2>3 DEF Control!Init
<1>2. IInv /\ SwitchInv /\ [Next]_vars => [Control!Next]_(Control!controlVars)
  <2> SUFFICES ASSUME IInv, SwitchInv, [Next]_vars
               PROVE  Control!Next \/ UNCHANGED Control!controlVars
    OBVIOUS
  <2>1. CASE \E h \in Handlers : Switch(h)  BY <2>1, SwitchIsAtomic
  <2>2. CASE \E h \in Handlers, u \in Updates : LiveApply(h, u)  BY <2>2, LiveIsAtomic
  <2>3. CASE /\ \A h \in Handlers : ~Switch(h)
             /\ \A h \in Handlers, u \in Updates : ~LiveApply(h, u)
    BY <2>3, OthersStutter
  <2> QED  BY <2>1, <2>2, <2>3
<1> QED  BY <1>1, <1>2, SwitchInvariant, PTL DEF Spec, ImplementsControlPlane, Control!Spec

-----------------------------------------------------------------------------
(* What the operations on buffers do to the line.                          *)

LineOf(o, s, p, q) == Line(o, s.ready, s.active, s.input, p, q)

LEMMA PacketsAreNumbers ==
  /\ Packets \subseteq Nat /\ NoPacket \in Nat
  /\ \A q \in Seq(Packets) : q \in Seq(Nat)
BY SizesAssumption DEF Packets, NoPacket

LEMMA BuffersType ==
  ASSUME NEW s \in Object
  PROVE  s.ready \in Seq(Nat) /\ s.active \in Seq(Nat) /\ s.input \in Seq(Nat)
BY PacketsAreNumbers DEF Object

LEMMA LineOfType ==
  ASSUME NEW o \in Seq(Nat), NEW s \in Object, NEW p \in Seq(Nat), NEW q \in Seq(Nat)
  PROVE  LineOf(o, s, p, q) \in Seq(Nat)
BY LineType, BuffersType DEF LineOf

\* Every part is kept or emptied.
LEMMA PartsLost ==
  ASSUME NEW o \in Seq(Nat), NEW p \in Seq(Nat), NEW q \in Seq(Nat),
         NEW s \in Object, NEW t \in Object, NEW x \in Seq(Nat),
         t.ready \in {<<>>, s.ready}, t.active \in {<<>>, s.active},
         t.input \in {<<>>, s.input}, x \in {<<>>, p}
  PROVE  Subsequence(LineOf(o, t, x, q), LineOf(o, s, p, q))
<1>1. /\ s.ready \in Seq(Nat) /\ s.active \in Seq(Nat) /\ s.input \in Seq(Nat)
      /\ t.ready \in Seq(Nat) /\ t.active \in Seq(Nat) /\ t.input \in Seq(Nat)
  BY BuffersType
<1>2. /\ Subsequence(o, o) /\ Subsequence(q, q)
      /\ Subsequence(t.ready, s.ready) /\ Subsequence(t.active, s.active)
      /\ Subsequence(t.input, s.input) /\ Subsequence(x, p)
  BY <1>1, SubsequenceSelf, SubsequenceEmpty
<1> QED  BY <1>1, <1>2, LineLoses DEF LineOf

\* A finished segment is ready, a failed one is lost.
LEMMA HarvestedLine ==
  ASSUME NEW o \in Seq(Nat), NEW p \in Seq(Nat), NEW q \in Seq(Nat), NEW s \in Object
  PROVE  Subsequence(LineOf(o, Harvested(s), p, q), LineOf(o, s, p, q))
<1>1. /\ s.ready \in Seq(Nat) /\ s.active \in Seq(Nat) /\ s.input \in Seq(Nat)
  BY BuffersType
<1>2. Harvested(s) \in Object  BY HarvestedType
<1>3. PICK e \in Seq(Nat) : e = <<>>  BY EmptySeq
<1>4. CASE s.task = "done"
  <2>1. /\ Harvested(s).ready = Joined(s.ready, s.active) /\ Harvested(s).active = e
        /\ Harvested(s).input = s.input
    BY <1>3, <1>4 DEF Harvested, Object, Joined
  <2>2. Line(o, Joined(s.ready, s.active), e, s.input, p, q)
          = Line(o, s.ready, Joined(s.active, e), s.input, p, q)
    BY <1>1, SegmentReady
  <2>3. Joined(s.active, e) = s.active  BY <1>1, <1>3, JoinedIs
  <2>4. LineOf(o, Harvested(s), p, q) = LineOf(o, s, p, q)
    BY <2>1, <2>2, <2>3 DEF LineOf
  <2> QED  BY <2>4, LineOfType, SubsequenceSelf
<1>5. CASE s.task # "done"
  <2>1. /\ Harvested(s).ready = s.ready /\ Harvested(s).active \in {<<>>, s.active}
        /\ Harvested(s).input = s.input
    BY <1>5 DEF Harvested, Object
  <2> QED  BY <1>2, <2>1, PartsLost
<1> QED  BY <1>4, <1>5

\* The packet in hand becomes the last of the input, and a full segment starts.
LEMMA AcceptedLine ==
  ASSUME NEW o \in Seq(Nat), NEW q \in Seq(Nat), NEW s \in Object, NEW n \in Packets
  PROVE  Subsequence(LineOf(o, Accepted(s, n), <<>>, q), LineOf(o, s, <<n>>, q))
<1>1. /\ s.ready \in Seq(Nat) /\ s.active \in Seq(Nat) /\ s.input \in Seq(Nat)
      /\ s.input \in Seq(Packets)
  BY BuffersType DEF Object
<1>2. PICK e \in Seq(Nat) : e = <<>>  BY EmptySeq
<1>3. n \in Nat  BY PacketsAreNumbers
<1>4. PICK x \in Seq(Nat) : x = <<n>>  BY <1>3, SingleNumber
<1>5. PICK i \in Seq(Nat) : i = Append(s.input, n)  BY <1>1, <1>3, AppendProperties
<1>6. i = Joined(s.input, x)  BY <1>1, <1>3, <1>4, <1>5, AppendIsConcat DEF Joined
<1>7. Line(o, s.ready, s.active, i, e, q) = LineOf(o, s, x, q)
  <2>1. Line(o, s.ready, s.active, Joined(s.input, x), e, q)
          = Line(o, s.ready, s.active, s.input, Joined(x, e), q)
    BY <1>1, PacketBuffered
  <2>2. Joined(x, e) = x  BY <1>2, JoinedIs
  <2> QED  BY <1>6, <2>1, <2>2 DEF LineOf
<1>8. CASE s.task = "none" /\ Len(i) >= SegmentPackets
  <2>1. SegmentPackets \in 0..Len(i)
    <3>1. Len(i) \in Nat  BY LenProperties
    <3> QED  BY <1>8, <3>1, SizesAssumption
  <2>2. PICK a \in Seq(Nat) : a = SubSeq(i, 1, SegmentPackets)  BY <2>1, Cut
  <2>3. PICK r \in Seq(Nat) : r = After(i, SegmentPackets)  BY <2>1, Cut
  <2>4. Joined(a, r) = i  BY <2>1, <2>2, <2>3, Cut DEF Joined
  <2>5. /\ Accepted(s, n).ready = s.ready /\ Accepted(s, n).active = a
        /\ Accepted(s, n).input = r
    BY <1>5, <1>8, <2>2, <2>3 DEF Accepted, Object, After
  <2>6. Line(o, s.ready, Joined(e, a), r, e, q) = Line(o, s.ready, e, Joined(a, r), e, q)
    BY <1>1, InputLaunched
  <2>7. Joined(e, a) = a  BY <1>2, JoinedIs
  <2>8. LineOf(o, Accepted(s, n), e, q) = Line(o, s.ready, e, i, e, q)
    BY <2>4, <2>5, <2>6, <2>7 DEF LineOf
  <2>9. Subsequence(Line(o, s.ready, e, i, e, q), Line(o, s.ready, s.active, i, e, q))
    <3>1. /\ Subsequence(o, o) /\ Subsequence(s.ready, s.ready) /\ Subsequence(e, s.active)
          /\ Subsequence(i, i) /\ Subsequence(e, e) /\ Subsequence(q, q)
      BY <1>1, <1>2, SubsequenceSelf, SubsequenceEmpty
    <3> QED  BY <1>1, <3>1, LineLoses
  <2> QED  BY <1>2, <1>4, <1>7, <2>8, <2>9
<1>9. CASE ~(s.task = "none" /\ Len(i) >= SegmentPackets)
  <2>1. /\ Accepted(s, n).ready = s.ready /\ Accepted(s, n).active = s.active
        /\ Accepted(s, n).input = i
    BY <1>5, <1>9 DEF Accepted, Object
  <2>2. LineOf(o, Accepted(s, n), e, q) = LineOf(o, s, x, q)  BY <1>7, <2>1 DEF LineOf
  <2>3. LineOf(o, s, x, q) \in Seq(Nat)  BY LineOfType
  <2> QED  BY <1>2, <1>4, <2>2, <2>3, SubsequenceSelf
<1> QED  BY <1>8, <1>9

\* process() releases the first ready packet.
LEMMA ReleasedLine ==
  ASSUME NEW o \in Seq(Nat), NEW p \in Seq(Nat), NEW q \in Seq(Nat), NEW s \in Object
  PROVE  LineOf(Joined(o, FirstOf(s.ready)), [s EXCEPT !.ready = RestOf(@)], p, q)
           = LineOf(o, s, p, q)
<1>1. s.ready \in Seq(Nat) /\ s.active \in Seq(Nat) /\ s.input \in Seq(Nat)
  BY BuffersType
<1>2. s.ready \in Seq(Packets)  BY DEF Object
<1>3. FirstOf(s.ready) \in Seq(Nat) /\ RestOf(s.ready) \in Seq(Nat)
  BY <1>2, ReleaseType, PacketsAreNumbers
<1>4. Joined(FirstOf(s.ready), RestOf(s.ready)) = s.ready
  <2>1. CASE s.ready = <<>>
    <3>1. PICK e \in Seq(Nat) : e = <<>>  BY EmptySeq
    <3>2. FirstOf(s.ready) = e /\ RestOf(s.ready) = e  BY <2>1, <3>1 DEF FirstOf, RestOf
    <3> QED  BY <2>1, <3>1, <3>2, JoinedIs
  <2>2. CASE s.ready # <<>>
    <3>1. FirstOf(s.ready) = <<Head(s.ready)>> /\ RestOf(s.ready) = Tail(s.ready)
      BY <2>2 DEF FirstOf, RestOf
    <3>2. Joined(<<Head(s.ready)>>, Tail(s.ready)) = s.ready  BY <1>1, <2>2, HeadAndTail
    <3> QED  BY <3>1, <3>2
  <2> QED  BY <2>1, <2>2
<1>5. Line(Joined(o, FirstOf(s.ready)), RestOf(s.ready), s.active, s.input, p, q)
        = Line(o, Joined(FirstOf(s.ready), RestOf(s.ready)), s.active, s.input, p, q)
  BY <1>1, <1>3, ReadyLeaves
<1>6. PICK t : t = [s EXCEPT !.ready = RestOf(@)]  OBVIOUS
<1>7. t.ready = RestOf(s.ready) /\ t.active = s.active /\ t.input = s.input
  BY <1>6 DEF Object
<1> QED  BY <1>4, <1>5, <1>6, <1>7 DEF LineOf

\* flush() releases them all.
LEMMA FlushedLine ==
  ASSUME NEW o \in Seq(Nat), NEW p \in Seq(Nat), NEW q \in Seq(Nat), NEW s \in Object
  PROVE  LineOf(Joined(o, s.ready), Drained(s), p, q) = LineOf(o, s, p, q)
<1>1. s.ready \in Seq(Nat) /\ s.active \in Seq(Nat) /\ s.input \in Seq(Nat)
  BY BuffersType
<1>2. PICK e \in Seq(Nat) : e = <<>>  BY EmptySeq
<1>3. Line(Joined(o, s.ready), e, s.active, s.input, p, q)
        = Line(o, Joined(s.ready, e), s.active, s.input, p, q)
  BY <1>1, ReadyLeaves
<1>4. Joined(s.ready, e) = s.ready  BY <1>1, <1>2, JoinedIs
<1>5. /\ Drained(s).ready = e /\ Drained(s).active = s.active /\ Drained(s).input = s.input
  BY <1>2 DEF Drained, Object
<1> QED  BY <1>3, <1>4, <1>5 DEF LineOf

\* Of the outputs x, only y reaches the wire.
LEMMA SentLine ==
  ASSUME NEW o \in Seq(Nat), NEW p \in Seq(Nat), NEW q \in Seq(Nat), NEW s \in Object,
         NEW x \in Seq(Nat), NEW y \in Seq(Nat), Subsequence(y, x)
  PROVE  Subsequence(LineOf(Joined(o, y), s, p, q), LineOf(Joined(o, x), s, p, q))
<1>1. s.ready \in Seq(Nat) /\ s.active \in Seq(Nat) /\ s.input \in Seq(Nat)
  BY BuffersType
<1>2. Subsequence(Joined(o, y), Joined(o, x))
  BY SubsequenceSelf, SubsequenceConcat DEF Joined
<1>3. /\ Subsequence(s.ready, s.ready) /\ Subsequence(s.active, s.active)
      /\ Subsequence(s.input, s.input) /\ Subsequence(p, p) /\ Subsequence(q, q)
  BY <1>1, SubsequenceSelf
<1> QED  BY <1>1, <1>2, <1>3, JoinType, LineLoses DEF LineOf

\* What is ready is older than the packet in hand, and has arrived.
LEMMA ReadyIsOlder ==
  ASSUME NEW o \in Seq(Nat), NEW p \in Seq(Nat), NEW q \in Seq(Nat), NEW s \in Object,
         NEW top \in Nat, InOrder(LineOf(o, s, p, q), top), NEW j \in 1..Len(s.ready)
  PROVE  s.ready[j] <= top /\ \A k \in 1..Len(p) : s.ready[j] < p[k]
<1>1. s.ready \in Seq(Nat) /\ s.active \in Seq(Nat) /\ s.input \in Seq(Nat)
  BY BuffersType
<1>2. PICK e \in Seq(Nat) : e = <<>>  BY EmptySeq
<1>3. Subsequence(Line(o, s.ready, e, e, p, e), LineOf(o, s, p, q))
  <2>1. /\ Subsequence(o, o) /\ Subsequence(s.ready, s.ready) /\ Subsequence(e, s.active)
        /\ Subsequence(e, s.input) /\ Subsequence(p, p) /\ Subsequence(e, q)
    BY <1>1, <1>2, SubsequenceSelf, SubsequenceEmpty
  <2> QED  BY <1>1, <2>1, LineLoses DEF LineOf
<1>4. Line(o, s.ready, e, e, p, e) = Joined(o, Joined(s.ready, p))
  <2>1. /\ Joined(p, e) = p /\ Joined(e, p) = p  BY <1>2, JoinedIs
  <2> QED  BY <2>1 DEF Line
<1>5. LineOf(o, s, p, q) \in Seq(Nat) /\ Joined(o, Joined(s.ready, p)) \in Seq(Nat)
  BY <1>1, LineOfType, JoinType
<1>6. InOrder(Joined(o, Joined(s.ready, p)), top)
  <2>1. top <= top  OBVIOUS
  <2> QED  BY <1>3, <1>4, <1>5, <2>1, FollowsSubsequence DEF Follows
<1>7. InOrder(o \o (s.ready \o p), top)  BY <1>6 DEF Joined
<1> QED  BY <1>1, <1>7, EarlierIsSmaller

-----------------------------------------------------------------------------
(* The order of the outputs.                                               *)

Active == processors[current]
Outs == [k \in 1..Len(wire) |-> wire[k].packet]
InHand == IF packet = NoPacket THEN <<>> ELSE <<packet>>

\* Everything the service has sent or can still send, oldest first.
InLine == LineOf(Outs, Active, InHand, queue)

\* A processor that does not buffer holds nothing, and only such a one suspends.
DirectInv ==
  /\ ~IsSegmented(Active) => Active.ready = <<>> /\ Active.active = <<>> /\ Active.input = <<>>
  /\ worker = "sleeping" => ~IsSegmented(Active)

InLineInv == InOrder(InLine, metrics.received)
SentInv == DirectInv /\ InLineInv /\ SenderNotOlder

LEMMA OutsType ==
  ASSUME NEW w \in Seq(OutputSet)
  PROVE  [k \in 1..Len(w) |-> w[k].packet] \in Seq(Nat)
<1>1. Len(w) \in Nat /\ \A k \in 1..Len(w) : w[k] \in OutputSet  BY LenProperties, ElementOfSeq
<1>2. \A k \in 1..Len(w) : w[k].packet \in Nat  BY <1>1, PacketsAreNumbers DEF OutputSet
<1>3. PICK n \in Nat : n = Len(w)  BY <1>1
<1>4. [k \in 1..n |-> w[k].packet] \in [1..n -> Nat]  BY <1>2, <1>3
<1> QED  BY <1>3, <1>4, FunctionIsSeq

LEMMA InHandType ==
  ASSUME TypeOK
  PROVE  /\ InHand \in Seq(Nat)
         /\ packet = NoPacket => InHand = <<>>
         /\ packet # NoPacket => packet \in Packets /\ InHand = <<packet>>
<1>1. packet \in Packets \cup {NoPacket}  BY DEF TypeOK
<1>2. CASE packet = NoPacket  BY <1>2, EmptySeq DEF InHand
<1>3. CASE packet # NoPacket
  <2>1. packet \in Packets /\ packet \in Nat  BY <1>1, <1>3, PacketsAreNumbers
  <2>2. <<packet>> \in Seq(Nat)  BY <2>1, SingleNumber
  <2> QED  BY <1>3, <2>1, <2>2 DEF InHand
<1> QED  BY <1>2, <1>3

LEMMA LineTypes ==
  ASSUME TypeOK
  PROVE  /\ Outs \in Seq(Nat) /\ InHand \in Seq(Nat) /\ queue \in Seq(Nat)
         /\ Active \in Object /\ metrics.received \in Nat /\ InLine \in Seq(Nat)
<1>1. /\ queue \in Seq(Packets) /\ wire \in Seq(OutputSet) /\ processors \in [Instances -> Object]
      /\ current \in Instances /\ metrics \in Counters
  BY DEF TypeOK, OutputSet
<1>2. queue \in Seq(Nat) /\ Outs \in Seq(Nat) /\ InHand \in Seq(Nat)
  BY <1>1, PacketsAreNumbers, OutsType, InHandType DEF Outs
<1>3. Active \in Object /\ metrics.received \in Nat  BY <1>1 DEF Active, Counters
<1> QED  BY <1>2, <1>3, LineOfType DEF InLine

LEMMA LineTypesNext ==
  ASSUME TypeOK'
  PROVE  /\ Outs' \in Seq(Nat) /\ InHand' \in Seq(Nat) /\ queue' \in Seq(Nat)
         /\ Active' \in Object /\ InLine' \in Seq(Nat)
<1>1. /\ processors' \in [Instances -> Object] /\ current' \in Instances
      /\ wire' \in Seq(OutputSet) /\ queue' \in Seq(Packets)
      /\ packet' \in Packets \cup {NoPacket}
  BY DEF TypeOK, OutputSet
<1>2. Active' \in Object /\ Outs' \in Seq(Nat) /\ queue' \in Seq(Nat)
  BY <1>1, OutsType, PacketsAreNumbers DEF Active, Outs
<1>3. packet' # NoPacket => <<packet'>> \in Seq(Nat)
  BY <1>1, PacketsAreNumbers, SingleNumber
<1>4. InHand' \in Seq(Nat)  BY <1>3, EmptySeq DEF InHand
<1> QED  BY <1>2, <1>4, LineOfType DEF InLine

\* The outputs that reach the wire are some of them, in their order.
LEMMA Sends ==
  ASSUME wire \in Seq(OutputSet), NEW outs \in Seq(Packets), NEW chosen \in Choices(Len(outs)),
         NEW via \in Packets \cup {NoPacket}, wire' = wire \o OnWire(outs, chosen, via)
  PROVE  \E y \in Seq(Nat) :
           /\ Subsequence(y, outs) /\ Outs' = Joined(Outs, y)
           /\ SenderNotOlder /\ (\A k \in 1..Len(outs) : outs[k] <= via) => SenderNotOlder'
<1>1. PICK n \in 0..Len(outs) :
        /\ chosen \in [1..n -> 1..Len(outs)]
        /\ \A i, j \in 1..n : i < j => chosen[i] < chosen[j]
  BY DEF Choices
<1>2. n \in Nat /\ Len(outs) \in Nat /\ Len(chosen) = n
  <2>1. n \in Nat /\ Len(outs) \in Nat  BY LenProperties
  <2> QED  BY <1>1, <2>1, FunctionIsSeq
<1>3. PICK sent : sent = OnWire(outs, chosen, via)  OBVIOUS
<1>4. sent \in Seq(OutputSet) /\ Len(sent) = n  BY <1>2, <1>3, OnWireType DEF OutputSet
<1>5. \A k \in 1..n : sent[k].packet = outs[chosen[k]] /\ sent[k].via = via
  BY <1>2, <1>3 DEF OnWire
<1>6. PICK y : y = [k \in 1..n |-> sent[k].packet]  OBVIOUS
<1>7. y \in Seq(Nat) /\ Len(y) = n /\ \A k \in 1..n : y[k] = outs[chosen[k]]
  <2>1. y \in Seq(Nat)  BY <1>4, <1>6, OutsType
  <2>2. Len(y) = n  BY <1>2, <1>6
  <2> QED  BY <1>5, <1>6, <2>1, <2>2
<1>8. Subsequence(y, outs)  BY <1>1, <1>7 DEF Subsequence
<1>9. PICK w : w = wire \o sent  OBVIOUS
<1>10. /\ Len(wire) \in Nat /\ Len(w) = Len(wire) + n /\ wire' = w
       /\ \A k \in 1..(Len(wire) + n) : w[k] = IF k <= Len(wire) THEN wire[k] ELSE sent[k - Len(wire)]
  BY <1>3, <1>4, <1>9, LenProperties, ConcatProperties
<1>11. Outs' = Joined(Outs, y)
  <2>1. Outs \in Seq(Nat) /\ Len(Outs) = Len(wire) /\ \A k \in 1..Len(wire) : Outs[k] = wire[k].packet
    BY <1>10, OutsType DEF Outs
  <2>2. PICK j : j = Joined(Outs, y)  OBVIOUS
  <2>3. /\ j \in Seq(Nat) /\ Len(j) = Len(wire) + n
        /\ \A k \in 1..(Len(wire) + n) : j[k] = IF k <= Len(wire) THEN Outs[k] ELSE y[k - Len(wire)]
    <3>1. /\ Len(j) = Len(Outs) + Len(y)
          /\ \A k \in 1..(Len(Outs) + Len(y)) :
               j[k] = IF k <= Len(Outs) THEN Outs[k] ELSE y[k - Len(Outs)]
      BY <1>7, <2>1, <2>2, JoinElements
    <3>2. j \in Seq(Nat)  BY <1>7, <2>1, <2>2, JoinType
    <3> QED  BY <1>7, <2>1, <3>1, <3>2
  <2>4. PICK m \in Nat : m = Len(wire) + n  BY <1>2, <1>10
  <2>5. ASSUME NEW k \in 1..m PROVE w[k].packet = j[k]
    <3>1. CASE k <= Len(wire)
      <4>1. k \in 1..Len(wire)  BY <1>10, <2>4, <3>1
      <4> QED  BY <1>10, <2>1, <2>3, <2>4, <3>1, <4>1
    <3>2. CASE ~(k <= Len(wire))
      <4>1. k - Len(wire) \in 1..n  BY <1>2, <1>10, <2>4, <3>2
      <4> QED  BY <1>5, <1>7, <1>10, <2>3, <2>4, <3>2, <4>1
    <3> QED  BY <3>1, <3>2
  <2>6. Outs' = [k \in 1..m |-> w[k].packet]  BY <1>10, <2>4 DEF Outs
  <2>7. [k \in 1..m |-> w[k].packet] = [k \in 1..m |-> j[k]]  BY <2>5
  <2>8. [k \in 1..m |-> j[k]] = j
    <3>1. j = [k \in 1..Len(j) |-> j[k]]  BY <2>3, LenProperties
    <3> QED  BY <2>3, <2>4, <3>1
  <2> QED  BY <2>2, <2>6, <2>7, <2>8
<1>12. ASSUME SenderNotOlder, \A k \in 1..Len(outs) : outs[k] <= via PROVE SenderNotOlder'
  <2> SUFFICES ASSUME NEW k \in 1..Len(w) PROVE w[k].via >= w[k].packet
    BY <1>10 DEF SenderNotOlder
  <2>1. CASE k <= Len(wire)
    <3>1. k \in 1..Len(wire) /\ w[k] = wire[k]  BY <1>2, <1>10, <2>1
    <3> QED  BY <1>12, <3>1 DEF SenderNotOlder
  <2>2. CASE ~(k <= Len(wire))
    <3>a. k - Len(wire) \in 1..n  BY <1>2, <1>10, <2>2
    <3>1. PICK m \in 1..n : m = k - Len(wire)  BY <3>a
    <3>2. w[k] = sent[m]  BY <1>10, <2>2, <3>1
    <3>3. chosen[m] \in 1..Len(outs) /\ outs[chosen[m]] \in Packets  BY <1>1, ElementOfSeq
    <3>4. outs[chosen[m]] <= via  BY <1>12, <3>3
    <3>5. outs[chosen[m]] \in Nat /\ via \in Nat  BY <3>3, PacketsAreNumbers
    <3> QED  BY <1>5, <3>2, <3>4, <3>5
  <2> QED  BY <2>1, <2>2
<1> QED  BY <1>7, <1>8, <1>11, <1>12

-----------------------------------------------------------------------------
\* A step in which nothing arrives: it may send and lose packets, never reorder.
Orderly ==
  /\ metrics'.received = metrics.received
  /\ Subsequence(InLine', InLine)
  /\ \E y \in Seq(Nat) : Outs' = Joined(Outs, y)
  /\ SenderNotOlder'

\* A processor that does not buffer has nothing to harvest.
LEMMA NothingHarvested ==
  ASSUME NEW s \in Object, s.ready = <<>>, s.active = <<>>, s.input = <<>>
  PROVE  /\ Harvested(s).ready = <<>> /\ Harvested(s).active = <<>>
         /\ Harvested(s).input = <<>>
<1>1. <<>> \o <<>> = <<>>  OBVIOUS
<1> QED  BY <1>1 DEF Harvested, Object

\* Nothing is sent: the active processor harvests or forgets, the worker lets its
\* packet go.
LEMMA Quiet ==
  ASSUME TypeOK, TypeOK', DirectInv, SenderNotOlder, wire' = wire, queue' = queue,
         metrics'.received = metrics.received, packet' \in {packet, NoPacket},
         worker' = "sleeping" => worker = "sleeping" \/ ~IsSegmented(Active),
         NEW s \in {Active, Harvested(Active)}, Active'.name = Active.name,
         Active'.ready \in {<<>>, s.ready}, Active'.active \in {<<>>, s.active},
         Active'.input \in {<<>>, s.input}
  PROVE  Orderly /\ DirectInv'
<1>1. /\ Outs \in Seq(Nat) /\ InHand \in Seq(Nat) /\ queue \in Seq(Nat) /\ Active \in Object
      /\ InLine \in Seq(Nat)
  BY LineTypes
<1>2. InHand' \in Seq(Nat) /\ Active' \in Object /\ InLine' \in Seq(Nat)  BY LineTypesNext
<1>3. InHand' \in {<<>>, InHand} /\ Outs' = Outs  BY DEF InHand, Outs
<1>4. s \in Object /\ Subsequence(LineOf(Outs, s, InHand, queue), InLine)
  <2>1. Subsequence(InLine, InLine)  BY <1>1, SubsequenceSelf
  <2>2. Harvested(Active) \in Object  BY <1>1, HarvestedType
  <2>3. Subsequence(LineOf(Outs, Harvested(Active), InHand, queue), InLine)
    BY <1>1, HarvestedLine DEF InLine
  <2> QED  BY <1>1, <2>1, <2>2, <2>3 DEF InLine
<1>5. Subsequence(LineOf(Outs, Active', InHand', queue), LineOf(Outs, s, InHand, queue))
  BY <1>1, <1>2, <1>3, <1>4, PartsLost
<1>6. Subsequence(InLine', InLine)
  <2>1. InLine' = LineOf(Outs, Active', InHand', queue)  BY <1>3 DEF InLine
  <2>2. Len(InLine') \in Nat  BY <1>2, LenProperties
  <2> QED  BY <1>4, <1>5, <2>1, <2>2, SubsequenceTransitive
<1>7. \E y \in Seq(Nat) : Outs' = Joined(Outs, y)
  <2>1. Joined(Outs, <<>>) = Outs  BY <1>1, JoinedIs
  <2> QED  BY <1>3, <2>1, EmptySeq
<1>8. SenderNotOlder'  BY DEF SenderNotOlder
<1>9. DirectInv'
  <2>1. IsSegmented(Active') <=> IsSegmented(Active)  BY DEF IsSegmented
  <2>2. ASSUME ~IsSegmented(Active) PROVE s.ready = <<>> /\ s.active = <<>> /\ s.input = <<>>
    BY <1>1, <2>2, NothingHarvested DEF DirectInv
  <2>3. ~IsSegmented(Active') => Active'.ready = <<>> /\ Active'.active = <<>> /\ Active'.input = <<>>
    BY <2>1, <2>2
  <2>4. worker' = "sleeping" => ~IsSegmented(Active')  BY <2>1 DEF DirectInv
  <2> QED  BY <2>3, <2>4 DEF DirectInv, IsSegmented
<1> QED  BY <1>6, <1>7, <1>8, <1>9 DEF Orderly

\* Outputs leave from the front.
LEMMA OutputsLeave ==
  ASSUME TypeOK, TypeOK', SenderNotOlder, metrics'.received = metrics.received,
         NEW outs \in Seq(Packets), NEW chosen \in Choices(Len(outs)),
         NEW via \in Packets \cup {NoPacket}, wire' = wire \o OnWire(outs, chosen, via),
         \A k \in 1..Len(outs) : outs[k] <= via,
         Subsequence(LineOf(Joined(Outs, outs), Active', InHand', queue'), InLine)
  PROVE  Orderly
<1>1. Outs \in Seq(Nat) /\ wire \in Seq(OutputSet) /\ outs \in Seq(Nat)
  BY LineTypes, PacketsAreNumbers DEF TypeOK, OutputSet
<1>2. InHand' \in Seq(Nat) /\ queue' \in Seq(Nat) /\ Active' \in Object  BY LineTypesNext
<1>3. PICK y \in Seq(Nat) : Subsequence(y, outs) /\ Outs' = Joined(Outs, y) /\ SenderNotOlder'
  BY <1>1, Sends
<1>4. Subsequence(LineOf(Joined(Outs, y), Active', InHand', queue'),
                  LineOf(Joined(Outs, outs), Active', InHand', queue'))
  BY <1>1, <1>2, <1>3, SentLine
<1>5. InLine' = LineOf(Joined(Outs, y), Active', InHand', queue')  BY <1>3 DEF InLine
<1>6. Len(InLine') \in Nat
  <2>1. Joined(Outs, y) \in Seq(Nat)  BY <1>1, JoinType
  <2> QED  BY <1>2, <1>5, <2>1, LineOfType, LenProperties
<1>7. Subsequence(InLine', InLine)  BY <1>4, <1>5, <1>6, SubsequenceTransitive
<1> QED  BY <1>3, <1>7 DEF Orderly

-----------------------------------------------------------------------------
(* The worker's steps.                                                     *)

LEMMA GetKeepsLine ==
  ASSUME IInv, TypeOK', DirectInv, SenderNotOlder, WorkerGet
  PROVE  Orderly /\ DirectInv'
<1>1. /\ Outs \in Seq(Nat) /\ queue \in Seq(Nat) /\ Active \in Object /\ InLine \in Seq(Nat)
  BY LineTypes DEF IInv
<1>2. /\ worker = "getting" /\ queue # <<>> /\ packet' = Head(queue) /\ queue' = Tail(queue)
      /\ worker' = "locking"
      /\ UNCHANGED <<metrics, wire, processors, current>>
  BY DEF WorkerGet, othersVars, controlVars
<1>3. packet = NoPacket /\ InHand = <<>>
  BY <1>2 DEF IInv, WorkerHolds, InHand
<1>4. queue \in Seq(Packets)  BY DEF IInv, TypeOK
<1>5. Head(queue) \in Packets /\ Tail(queue) \in Seq(Nat) /\ Head(queue) # NoPacket
  <2>1. Head(queue) \in Packets /\ Tail(queue) \in Seq(Packets)
    BY <1>2, <1>4, HeadTailProperties
  <2>2. Head(queue) # NoPacket  BY <2>1, SizesAssumption DEF Packets, NoPacket
  <2> QED  BY <2>1, <2>2, PacketsAreNumbers
<1>6. PICK x \in Seq(Nat) : x = <<Head(queue)>>  BY <1>5, PacketsAreNumbers, SingleNumber
<1>7. PICK e \in Seq(Nat) : e = <<>>  BY EmptySeq
<1>8. InHand' = x  BY <1>2, <1>5, <1>6 DEF InHand
<1>9. Joined(x, Tail(queue)) = queue
  BY <1>1, <1>2, <1>6, HeadAndTail
<1>10. Joined(e, x) = x  BY <1>7, JoinedIs
<1>11. Active' = Active /\ Outs' = Outs  BY <1>2 DEF Active, Outs
<1>12. InLine' = InLine
  <2>1. PICK r \in Seq(Nat) : r = Active.ready  BY <1>1, BuffersType
  <2>2. PICK a \in Seq(Nat) : a = Active.active  BY <1>1, BuffersType
  <2>3. PICK i \in Seq(Nat) : i = Active.input  BY <1>1, BuffersType
  <2>4. PICK t \in Seq(Nat) : t = Tail(queue)  BY <1>5
  <2>5. Line(Outs, r, a, i, Joined(e, x), t) = Line(Outs, r, a, i, e, Joined(x, t))
    BY <1>1, PacketTaken
  <2>6. InLine' = Line(Outs, r, a, i, x, t)
    BY <1>2, <1>8, <1>11, <2>1, <2>2, <2>3, <2>4 DEF InLine, LineOf
  <2>7. InLine = Line(Outs, r, a, i, e, queue)
    BY <1>3, <1>7, <2>1, <2>2, <2>3 DEF InLine, LineOf
  <2> QED  BY <1>9, <1>10, <2>4, <2>5, <2>6, <2>7
<1>13. Subsequence(InLine', InLine)  BY <1>1, <1>12, SubsequenceSelf
<1>14. \E y \in Seq(Nat) : Outs' = Joined(Outs, y)
  <2>1. Joined(Outs, <<>>) = Outs  BY <1>1, JoinedIs
  <2> QED  BY <1>11, <2>1, EmptySeq
<1>15. SenderNotOlder' /\ DirectInv'
  BY <1>2, <1>11 DEF SenderNotOlder, DirectInv, IsSegmented
<1> QED  BY <1>2, <1>13, <1>14, <1>15 DEF Orderly

\* A packet passes a processor that holds nothing, or is swallowed.
LEMMA DirectKeepsLine ==
  ASSUME IInv, TypeOK', DirectInv, SenderNotOlder, ProcessDirect \/ WorkerWakes
  PROVE  Orderly /\ DirectInv'
<1>1. /\ Outs \in Seq(Nat) /\ queue \in Seq(Nat) /\ Active \in Object /\ InLine \in Seq(Nat)
  BY LineTypes DEF IInv
<1>2. /\ worker \in {"locking", "sleeping"} /\ packet' = NoPacket /\ worker' = "getting"
      /\ UNCHANGED <<queue, processors, current>>
  BY DEF ProcessDirect, WorkerWakes, Processing, NextRound, LoopState, othersVars, controlVars
<1>3. packet \in Packets /\ InHand = <<packet>> /\ InHand' = <<>>
  <2>1. packet # NoPacket  BY <1>2 DEF IInv, WorkerHolds
  <2> QED  BY <1>2, <2>1, InHandType DEF IInv, InHand
<1>4. ~IsSegmented(Active)
  BY DEF ProcessDirect, WorkerWakes, DirectInv, IsSegmented, Active
<1>5. Active.ready = <<>> /\ Active.active = <<>> /\ Active.input = <<>>
  BY <1>4 DEF DirectInv
<1>6. Active' = Active  BY <1>2 DEF Active
<1>7. PICK outs \in {<<>>, <<packet>>} : Finished(outs)
  BY DEF ProcessDirect, WorkerWakes
<1>8. PICK chosen \in Choices(Len(outs)) : wire' = wire \o OnWire(outs, chosen, packet)
  BY <1>7 DEF Finished
<1>9. outs \in Seq(Packets) /\ \A k \in 1..Len(outs) : outs[k] <= packet
  <2>1. CASE outs = <<>>  BY <2>1, EmptySeq
  <2>2. CASE outs = <<packet>>
    <3>1. packet \in Nat  BY <1>3, PacketsAreNumbers
    <3>2. Len(outs) = 1 /\ outs[1] = packet  BY <2>2, <3>1, SingleNumber
    <3>3. outs \in Seq(Packets)  BY <1>3, <2>2
    <3> QED  BY <3>1, <3>2, <3>3
  <2> QED  BY <1>7, <2>1, <2>2
<1>10. metrics'.received = metrics.received  BY <1>7, <1>9, FinishedType DEF IInv
<1>11. Subsequence(LineOf(Joined(Outs, outs), Active', InHand', queue'), InLine)
  <2>1. PICK x \in Seq(Nat) : x = <<packet>>  BY <1>3, PacketsAreNumbers, SingleNumber
  <2>2. CASE outs = <<>>
    <3>1. Joined(Outs, outs) = Outs  BY <1>1, <2>2, JoinedIs
    <3>2. Subsequence(LineOf(Outs, Active, <<>>, queue), LineOf(Outs, Active, x, queue))
      BY <1>1, EmptySeq, PartsLost
    <3> QED  BY <1>2, <1>3, <1>6, <2>1, <3>1, <3>2 DEF InLine
  <2>3. CASE outs = <<packet>>
    <3>1. Line(Joined(Outs, x), <<>>, <<>>, <<>>, <<>>, queue)
            = Line(Outs, <<>>, <<>>, <<>>, x, queue)
      BY <1>1, LinePasses
    <3>2. LineOf(Joined(Outs, outs), Active', InHand', queue') = InLine
      BY <1>2, <1>3, <1>5, <1>6, <2>1, <2>3, <3>1 DEF LineOf, InLine
    <3> QED  BY <1>1, <3>2, SubsequenceSelf
  <2> QED  BY <1>7, <2>2, <2>3
<1>12. Orderly  BY <1>3, <1>8, <1>9, <1>10, <1>11, OutputsLeave DEF IInv
<1>13. DirectInv'  BY <1>2, <1>6 DEF DirectInv, IsSegmented
<1> QED  BY <1>12, <1>13

\* The packet is buffered behind what the processor holds, and the oldest ready
\* one leaves.
LEMMA SegmentedKeepsLine ==
  ASSUME IInv, TypeOK', DirectInv, InLineInv, SenderNotOlder, ProcessSegmented
  PROVE  Orderly /\ DirectInv'
<1>1. /\ Outs \in Seq(Nat) /\ queue \in Seq(Nat) /\ Active \in Object /\ InLine \in Seq(Nat)
      /\ metrics.received \in Nat
  BY LineTypes DEF IInv
<1> DEFINE s0 == Harvested(Active)
           s == Accepted(s0, packet)
           t == [s EXCEPT !.ready = RestOf(@)]
<1>2. /\ packet' = NoPacket /\ worker = "locking" /\ worker' = "getting" /\ IsSegmented(Active)
      /\ UNCHANGED <<queue, current>> /\ processors' = [processors EXCEPT ![current] = t]
      /\ Finished(FirstOf(s.ready))
  BY DEF ProcessSegmented, Processing, NextRound, LoopState, othersVars, controlVars, Active
<1>3. packet \in Packets /\ InHand = <<packet>> /\ InHand' = <<>>
  <2>1. packet # NoPacket  BY <1>2 DEF IInv, WorkerHolds
  <2> QED  BY <1>2, <2>1, InHandType DEF IInv, InHand
<1>4. s0 \in Object /\ s \in Object  BY <1>1, <1>3, HarvestedType, AcceptedType
<1>5. s0.name = Active.name /\ s.name = Active.name /\ t.name = Active.name
      /\ s.ready = s0.ready
  <2>1. s0.name = Active.name /\ s.name = s0.name  BY <1>1, <1>4, SameIdentity
  <2>2. s.ready = s0.ready  BY <1>4 DEF Accepted, Object
  <2>3. t.name = s.name  BY <1>4 DEF Object
  <2> QED  BY <2>1, <2>2, <2>3
<1>6. Active' = t
  BY <1>2 DEF IInv, TypeOK, Active
<1> HIDE DEF s0, s, t
<1>7. FirstOf(s.ready) \in Seq(Packets) /\ s0.ready \in Seq(Packets)
  BY <1>4, <1>5, ReleaseType DEF Object
<1>8. PICK chosen \in Choices(Len(FirstOf(s.ready))) :
        wire' = wire \o OnWire(FirstOf(s.ready), chosen, packet)
  BY <1>2 DEF Finished
<1>9. metrics'.received = metrics.received  BY <1>2, <1>7, FinishedType DEF IInv
<1>10. PICK x \in Seq(Nat) : x = <<packet>>  BY <1>3, PacketsAreNumbers, SingleNumber
<1>11. Subsequence(LineOf(Outs, s0, x, queue), InLine)
  BY <1>1, <1>3, <1>10, HarvestedLine DEF s0, InLine
<1>12. Subsequence(LineOf(Outs, s, <<>>, queue), LineOf(Outs, s0, x, queue))
  BY <1>1, <1>3, <1>4, <1>10, AcceptedLine DEF s
<1>13. LineOf(Joined(Outs, FirstOf(s.ready)), t, <<>>, queue) = LineOf(Outs, s, <<>>, queue)
  <2>1. PICK e \in Seq(Nat) : e = <<>>  BY EmptySeq
  <2>2. LineOf(Joined(Outs, FirstOf(s.ready)), [s EXCEPT !.ready = RestOf(@)], e, queue)
          = LineOf(Outs, s, e, queue)
    BY <1>1, <1>4, ReleasedLine
  <2> QED  BY <2>1, <2>2 DEF t
<1>14. Subsequence(LineOf(Joined(Outs, FirstOf(s.ready)), Active', InHand', queue'), InLine)
  <2>1. LineOf(Outs, s, <<>>, queue) \in Seq(Nat)  BY <1>1, <1>4, EmptySeq, LineOfType
  <2>2. Len(LineOf(Outs, s, <<>>, queue)) \in Nat  BY <2>1, LenProperties
  <2>3. Subsequence(LineOf(Outs, s, <<>>, queue), InLine)
    BY <1>11, <1>12, <2>2, SubsequenceTransitive
  <2> QED  BY <1>2, <1>3, <1>6, <1>13, <2>3
<1>15. \A k \in 1..Len(FirstOf(s.ready)) : FirstOf(s.ready)[k] <= packet
  <2>1. LineOf(Outs, s0, x, queue) \in Seq(Nat)  BY <1>1, <1>4, LineOfType
  <2>2. InOrder(LineOf(Outs, s0, x, queue), metrics.received)
    <3>1. metrics.received <= metrics.received  BY <1>1
    <3> QED  BY <1>1, <1>11, <2>1, <3>1, FollowsSubsequence DEF InLineInv, Follows
  <2>3. \A j \in 1..Len(s0.ready) : s0.ready[j] < x[1]
    <3>1. 1 \in 1..Len(x)  BY <1>3, <1>10, PacketsAreNumbers, SingleNumber
    <3>2. \A j \in 1..Len(s0.ready) : \A k \in 1..Len(x) : s0.ready[j] < x[k]
      BY <1>1, <1>4, <2>2, ReadyIsOlder
    <3> QED  BY <3>1, <3>2
  <2>4. CASE s0.ready = <<>>
    <3>1. FirstOf(s.ready) = <<>>  BY <1>5, <2>4 DEF FirstOf
    <3> QED  BY <3>1, EmptySeq
  <2>5. CASE s0.ready # <<>>
    <3>1. Len(s0.ready) \in Nat /\ Len(s0.ready) # 0  BY <1>7, <2>5, EmptySeq, LenProperties
    <3>2. Head(s0.ready) = s0.ready[1] /\ s0.ready[1] \in Packets
      BY <1>7, <3>1, ElementOfSeq
    <3>3. s0.ready[1] < packet
      <4>1. x[1] = packet  BY <1>10
      <4> QED  BY <2>3, <3>1, <4>1
    <3>4. FirstOf(s.ready) = <<s0.ready[1]>>  BY <1>5, <2>5, <3>2 DEF FirstOf
    <3>5. s0.ready[1] \in Nat /\ packet \in Nat  BY <1>3, <3>2, PacketsAreNumbers
    <3>6. Len(FirstOf(s.ready)) = 1 /\ FirstOf(s.ready)[1] = s0.ready[1]
      BY <3>4, <3>5, SingleNumber
    <3> QED  BY <3>3, <3>5, <3>6
  <2> QED  BY <2>4, <2>5
<1>16. Orderly  BY <1>3, <1>7, <1>8, <1>9, <1>14, <1>15, OutputsLeave DEF IInv
<1>17. DirectInv'
  <2>1. IsSegmented(Active')  BY <1>2, <1>5, <1>6 DEF IsSegmented
  <2> QED  BY <1>2, <2>1 DEF DirectInv, IsSegmented
<1> QED  BY <1>16, <1>17

-----------------------------------------------------------------------------
(* Flushes, requests, and the other steps.                                 *)

\* A flush sends what is ready; afterwards the active processor holds what is
\* left, or is another one that holds nothing.
LEMMA FlushKeepsLine ==
  ASSUME IInv, TypeOK', InLineInv, SenderNotOlder, queue' = queue, packet' = packet,
         Flush(Harvested(Active).ready), Active'.ready = <<>>,
         Active'.active \in {<<>>, Harvested(Active).active},
         Active'.input \in {<<>>, Harvested(Active).input}
  PROVE  Orderly
<1>1. /\ Outs \in Seq(Nat) /\ InHand \in Seq(Nat) /\ queue \in Seq(Nat) /\ Active \in Object
      /\ InLine \in Seq(Nat) /\ metrics.received \in Nat
  BY LineTypes DEF IInv
<1> DEFINE s == Harvested(Active)
<1>2. s \in Object /\ Drained(s) \in Object /\ Active' \in Object
  <2>1. processors' \in [Instances -> Object] /\ current' \in Instances  BY DEF TypeOK
  <2> QED  BY <1>1, <2>1, HarvestedType, EndedType DEF Active
<1>3. s.ready \in Seq(Packets) /\ s.ready \in Seq(Nat)
  <2>1. s.ready \in Seq(Packets)  BY <1>2 DEF Object
  <2> QED  BY <2>1, PacketsAreNumbers
<1>4. PICK chosen \in Choices(Len(s.ready)) :
        wire' = wire \o OnWire(s.ready, chosen, metrics.received)
  BY DEF Flush, LastSender
<1>5. metrics'.received = metrics.received  BY <1>3, FlushType DEF IInv
<1>6. /\ Drained(s).ready = <<>> /\ Drained(s).active = s.active /\ Drained(s).input = s.input
  BY <1>2 DEF Drained, Object
<1> HIDE DEF s
<1>7. Subsequence(LineOf(Outs, s, InHand, queue), InLine)
  BY <1>1, HarvestedLine DEF s, InLine
<1>8. LineOf(Joined(Outs, s.ready), Drained(s), InHand, queue) = LineOf(Outs, s, InHand, queue)
  BY <1>1, <1>2, FlushedLine
<1>9. Joined(Outs, s.ready) \in Seq(Nat)  BY <1>1, <1>3, JoinType
<1>10. Subsequence(LineOf(Joined(Outs, s.ready), Active', InHand, queue),
                   LineOf(Joined(Outs, s.ready), Drained(s), InHand, queue))
  <2>1. /\ Active'.ready \in {<<>>, Drained(s).ready}
        /\ Active'.active \in {<<>>, Drained(s).active}
        /\ Active'.input \in {<<>>, Drained(s).input}
    BY <1>6 DEF s
  <2> QED  BY <1>1, <1>2, <1>9, <2>1, PartsLost
<1>11. Subsequence(LineOf(Joined(Outs, s.ready), Active', InHand', queue'), InLine)
  <2>1. LineOf(Joined(Outs, s.ready), Active', InHand, queue) \in Seq(Nat)
    BY <1>1, <1>2, <1>9, LineOfType
  <2>2. Len(LineOf(Joined(Outs, s.ready), Active', InHand, queue)) \in Nat
    BY <2>1, LenProperties
  <2>3. InHand' = InHand  BY DEF InHand
  <2> QED  BY <1>7, <1>8, <1>10, <2>2, <2>3, SubsequenceTransitive
<1>12. \A k \in 1..Len(s.ready) : s.ready[k] <= metrics.received
  <2>1. LineOf(Outs, s, InHand, queue) \in Seq(Nat)  BY <1>1, <1>2, LineOfType
  <2>2. InOrder(LineOf(Outs, s, InHand, queue), metrics.received)
    <3>1. metrics.received <= metrics.received  BY <1>1
    <3> QED  BY <1>1, <1>7, <2>1, <3>1, FollowsSubsequence DEF InLineInv, Follows
  <2> QED  BY <1>1, <1>2, <2>2, ReadyIsOlder
<1>13. metrics.received \in Packets \cup {NoPacket}
  BY <1>1, SizesAssumption DEF IInv, TypeOK, Packets, NoPacket
<1> QED  BY <1>3, <1>4, <1>5, <1>11, <1>12, <1>13, OutputsLeave DEF IInv

\* The steps of a request that do not touch what the active processor holds.
LEMMA Untouched ==
  ASSUME TypeOK, TypeOK', DirectInv, SenderNotOlder,
         UNCHANGED <<mediaVars, current>>, Active'.name = Active.name,
         Active'.ready = Active.ready, Active'.active = Active.active,
         Active'.input = Active.input
  PROVE  Orderly /\ DirectInv'
<1>1. UNCHANGED <<wire, queue, metrics, packet, worker>>  BY DEF mediaVars
<1> QED  BY <1>1, Quiet

LEMMA BeginKeepsLine ==
  ASSUME IInv, TypeOK', SwitchInv, DirectInv, SenderNotOlder, NEW h \in Handlers, Begin(h)
  PROVE  Orderly /\ DirectInv'
<1>1. /\ TypeOK /\ processors \in [Instances -> Object] /\ current \in Instances
      /\ processors[current] \in Object
  BY DEF IInv, TypeOK
<1>2. ASSUME NEW k, NEW s, NEW n, NEW c, Construct(h, k, s, n, c)
      PROVE  Orderly /\ DirectInv'
  <2>1. /\ UNCHANGED <<mediaVars, current>>
        /\ processors' = [processors EXCEPT ![requests + 1] = Create(s, n)]
    BY <1>2 DEF Construct, controlVars
  <2>2. requests + 1 # current
    <3>1. requests \in Nat /\ current \in Nat /\ current <= requests
      BY <1>1, SizesAssumption DEF TypeOK, SwitchInv, LifecycleInv, Instances
    <3> QED  BY <3>1
  <2>3. Active' = Active  BY <1>1, <2>1, <2>2 DEF Active
  <2> QED  BY <1>1, <2>1, <2>3, Untouched
<1>3. CASE BeginReset(h)
  <2>1. UNCHANGED <<mediaVars, current, processors>>  BY <1>3 DEF BeginReset, controlVars
  <2> QED  BY <1>1, <2>1, Untouched DEF Active
<1>4. ASSUME NEW u, LiveApply(h, u) PROVE Orderly /\ DirectInv'
  <2>1. /\ UNCHANGED <<mediaVars, current>>
        /\ processors' = [processors EXCEPT ![current].level = u[processors[current].name]]
    BY <1>4 DEF LiveApply
  <2>2. /\ Active'.name = Active.name /\ Active'.ready = Active.ready
        /\ Active'.active = Active.active /\ Active'.input = Active.input
    BY <1>1, <2>1 DEF Active, Object
  <2> QED  BY <1>1, <2>1, <2>2, Untouched
<1> QED  BY <1>2, <1>3, <1>4 DEF Begin, BeginSelect, BeginUpdate, BeginRestore

\* A switch flushes the old processor and goes on with one that holds nothing.
LEMMA SwitchKeepsLine ==
  ASSUME IInv, TypeOK', SwitchInv, DirectInv, InLineInv, SenderNotOlder,
         NEW h \in Handlers, Switch(h)
  PROVE  Orderly /\ DirectInv'
<1>1. /\ TypeOK /\ processors \in [Instances -> Object] /\ current \in Instances
      /\ request[h].inst \in Instances /\ Active \in Object
  BY DEF IInv, TypeOK, Active
<1> DEFINE new == processors[request[h].inst]
           old == Harvested(Active)
<1>2. /\ Flush(old.ready) /\ UNCHANGED <<queue, worker, packet>>
      /\ processors' = [processors EXCEPT ![request[h].inst].phase = "installed",
                                          ![current] = Drained(old)]
      /\ current' = request[h].inst /\ Owns(h)
  BY DEF Switch, InLock, Active
<1>3. request[h].inst # current /\ Buffered(new) = <<>>
  <2>1. Installing(h)  BY DEF Switch, InLock, Installing
  <2> QED  BY <2>1 DEF SwitchInv, ReplacementsInv, IsReplacement
<1>4. new \in Object  BY <1>1
<1>5. Active' = [new EXCEPT !.phase = "installed"]  BY <1>1, <1>2, <1>3 DEF Active
<1> HIDE DEF new, old
<1>6. new.ready = <<>> /\ new.active = <<>> /\ new.input = <<>>
  <2>1. PICK r \in Seq(Nat) : r = new.ready  BY <1>4, BuffersType
  <2>2. PICK a \in Seq(Nat) : a = new.active  BY <1>4, BuffersType
  <2>3. PICK i \in Seq(Nat) : i = new.input  BY <1>4, BuffersType
  <2>4. Joined(Joined(r, a), i) = <<>>  BY <1>3, <2>1, <2>2, <2>3 DEF Buffered, Joined
  <2>5. /\ Len(Joined(r, a)) = Len(r) + Len(a) /\ Joined(r, a) \in Seq(Nat)
        /\ Len(Joined(Joined(r, a), i)) = Len(Joined(r, a)) + Len(i)
    BY JoinType, JoinElements
  <2>6. Len(r) \in Nat /\ Len(a) \in Nat /\ Len(i) \in Nat  BY LenProperties
  <2>7. Len(r) = 0 /\ Len(a) = 0 /\ Len(i) = 0
    <3>1. Len(Joined(Joined(r, a), i)) = 0  BY <2>4, EmptySeq
    <3>2. PICK l \in Nat, m \in Nat, n \in Nat : l = Len(r) /\ m = Len(a) /\ n = Len(i)
      BY <2>6
    <3>3. (l + m) + n = 0  BY <2>5, <3>1, <3>2
    <3>4. l = 0 /\ m = 0 /\ n = 0  BY <3>3
    <3> QED  BY <3>2, <3>4
  <2> QED  BY <2>1, <2>2, <2>3, <2>7, EmptySeq
<1>7. Active'.ready = <<>> /\ Active'.active = <<>> /\ Active'.input = <<>>
  BY <1>4, <1>5, <1>6 DEF Object
<1>8. Orderly  BY <1>2, <1>7, FlushKeepsLine DEF old
<1>9. worker # "sleeping"
  <2>1. worker = "sleeping" => Owns("worker")  BY DEF IInv, LockDiscipline
  <2>2. h # "worker"  BY ConstantsAssumption
  <2> QED  BY <1>2, <2>1, <2>2 DEF Owns
<1>10. DirectInv'  BY <1>2, <1>7, <1>9 DEF DirectInv
<1> QED  BY <1>8, <1>10

LEMMA HandleKeepsLine ==
  ASSUME IInv, TypeOK', SwitchInv, DirectInv, InLineInv, SenderNotOlder,
         NEW h \in Handlers, Handle(h)
  PROVE  Orderly /\ DirectInv'
<1>1. /\ TypeOK /\ processors \in [Instances -> Object] /\ current \in Instances
      /\ Active \in Object
  BY DEF IInv, TypeOK, Active
<1>2. CASE StartFails(h) \/ Started(h)
  <2>1. PICK ph : processors' = [processors EXCEPT ![request[h].inst].phase = ph]
    BY <1>2 DEF StartFails, Started, StartAwaited
  <2>2. UNCHANGED <<mediaVars, current>>  BY <1>2 DEF StartFails, Started, controlVars
  <2>3. /\ Active'.name = Active.name /\ Active'.ready = Active.ready
        /\ Active'.active = Active.active /\ Active'.input = Active.input
    <3>1. processors'[current] \in {processors[current], [processors[current] EXCEPT !.phase = ph]}
      BY <1>1, <2>1
    <3> QED  BY <1>1, <2>2, <3>1 DEF Active, Object
  <2> QED  BY <1>1, <2>2, <2>3, Untouched
<1>3. CASE FlushFails(h)
  <2>1. /\ processors' = [processors EXCEPT ![current] = Harvested(Active)]
        /\ UNCHANGED <<wire, queue, metrics, packet, worker, current>>
    BY <1>3 DEF FlushFails, NotInstalled, controlVars, mediaVars, Active
  <2>2. Active' = Harvested(Active)  BY <1>1, <2>1 DEF Active
  <2>3. Harvested(Active).name = Active.name  BY <1>1, SameIdentity
  <2> QED  BY <1>1, <2>1, <2>2, <2>3, Quiet
<1>4. CASE Switch(h)  BY <1>4, SwitchKeepsLine
<1>5. CASE OldStopped(h)
  <2>1. request[h].old # current  BY <1>5 DEF OldStopped, SwitchInv, StoppingInv
  <2>2. \E s : processors' = [processors EXCEPT ![request[h].old] = s]
    BY <1>5 DEF OldStopped
  <2>3. UNCHANGED <<mediaVars, current>>  BY <1>5 DEF OldStopped
  <2>4. Active' = Active  BY <1>1, <2>1, <2>2, <2>3 DEF Active
  <2> QED  BY <1>1, <2>3, <2>4, Untouched
<1>6. CASE ResetCancels(h)
  <2>1. /\ processors' = [processors EXCEPT ![current].task = "cancelled"]
        /\ UNCHANGED <<mediaVars, current>>
    BY <1>6 DEF ResetCancels, controlVars
  <2>2. Active' = [Active EXCEPT !.task = "cancelled"]  BY <1>1, <2>1 DEF Active
  <2>3. /\ Active'.name = Active.name /\ Active'.ready = Active.ready
        /\ Active'.active = Active.active /\ Active'.input = Active.input
    BY <1>1, <2>2 DEF Object
  <2> QED  BY <1>1, <2>1, <2>3, Untouched
<1>7. CASE ResetClears(h)
  <2>1. /\ processors' = [processors EXCEPT ![current] = Cleared(Active)]
        /\ UNCHANGED <<wire, queue, metrics, packet, worker, current>>
    BY <1>7 DEF ResetClears, controlVars, mediaVars, Active
  <2>2. Active' = Cleared(Active)  BY <1>1, <2>1 DEF Active
  <2>3. /\ Cleared(Active).name = Active.name /\ Cleared(Active).ready = <<>>
        /\ Cleared(Active).active = <<>> /\ Cleared(Active).input = <<>>
    BY <1>1 DEF Cleared, Object
  <2> QED  BY <1>1, <2>1, <2>2, <2>3, Quiet
<1> QED  BY <1>2, <1>3, <1>4, <1>5, <1>6, <1>7 DEF Handle

LEMMA LifecycleKeepsLine ==
  ASSUME IInv, TypeOK', SwitchInv, DirectInv, InLineInv, SenderNotOlder,
         Start \/ StartupFails \/ StopBegins \/ Stop
  PROVE  Orderly /\ DirectInv'
<1>1. /\ TypeOK /\ processors \in [Instances -> Object] /\ current \in Instances
      /\ Active \in Object
  BY DEF IInv, TypeOK, Active
<1>2. CASE Start \/ StartupFails
  <2>1. PICK ph : processors' = [processors EXCEPT ![0].phase = ph]
    BY <1>2 DEF Start, StartupFails
  <2>2. /\ UNCHANGED <<wire, queue, metrics, packet, current>>
        /\ worker' \in {worker, "getting"}
    BY <1>2 DEF Start, StartupFails, controlVars, mediaVars
  <2>3. /\ Active'.name = Active.name /\ Active'.ready = Active.ready
        /\ Active'.active = Active.active /\ Active'.input = Active.input
    <3>1. processors'[current] \in {processors[current], [processors[current] EXCEPT !.phase = ph]}
      BY <1>1, <2>1
    <3> QED  BY <1>1, <2>2, <3>1 DEF Active, Object
  <2> QED  BY <1>1, <2>2, <2>3, Quiet
<1>3. CASE StopBegins
  <2>1. UNCHANGED <<mediaVars, current, processors>>  BY <1>3 DEF StopBegins, controlVars
  <2> QED  BY <1>1, <2>1, Untouched DEF Active
<1>4. CASE StopFlushFails
  <2>1. /\ processors' = [processors EXCEPT ![current] = Harvested(Active)]
        /\ UNCHANGED <<wire, queue, metrics, packet, worker, current>>
    BY <1>4 DEF StopFlushFails, controlVars, mediaVars, Active
  <2>2. Active' = Harvested(Active)  BY <1>1, <2>1 DEF Active
  <2>3. Harvested(Active).name = Active.name  BY <1>1, SameIdentity
  <2> QED  BY <1>1, <2>1, <2>2, <2>3, Quiet
<1>5. CASE StopFlushes
  <2>1. /\ processors' = [processors EXCEPT ![current] = Drained(Harvested(Active))]
        /\ Flush(Harvested(Active).ready)
        /\ UNCHANGED <<queue, packet, worker, current>>
    BY <1>5 DEF StopFlushes, controlVars, Active
  <2>2. Active' = Drained(Harvested(Active))  BY <1>1, <2>1 DEF Active
  <2>3. Harvested(Active) \in Object  BY <1>1, HarvestedType
  <2>4. /\ Active'.ready = <<>> /\ Active'.active = Harvested(Active).active
        /\ Active'.input = Harvested(Active).input /\ Active'.name = Active.name
    <3>1. Harvested(Active).name = Active.name  BY <1>1, SameIdentity
    <3> QED  BY <2>2, <2>3, <3>1 DEF Drained, Object
  <2>5. Orderly  BY <2>1, <2>4, FlushKeepsLine
  <2>6. DirectInv'
    <3>1. ~IsSegmented(Active) => /\ Harvested(Active).active = <<>>
                                  /\ Harvested(Active).input = <<>>
      BY <1>1, NothingHarvested DEF DirectInv
    <3> QED  BY <2>1, <2>4, <3>1 DEF DirectInv, IsSegmented
  <2> QED  BY <2>5, <2>6
<1>6. CASE StopCloses
  <2>1. /\ processors' = [processors EXCEPT ![current] = Stopped(Active)]
        /\ UNCHANGED <<wire, queue, metrics, packet, worker, current>>
    BY <1>6 DEF StopCloses, controlVars, mediaVars, Active
  <2>2. Active' = Stopped(Active)  BY <1>1, <2>1 DEF Active
  <2>3. /\ Stopped(Active).name = Active.name /\ Stopped(Active).ready = <<>>
        /\ Stopped(Active).active = <<>> /\ Stopped(Active).input = <<>>
    BY <1>1 DEF Stopped, Cleared, Object
  <2> QED  BY <1>1, <2>1, <2>2, <2>3, Quiet
<1> QED  BY <1>2, <1>3, <1>4, <1>5, <1>6 DEF Stop

-----------------------------------------------------------------------------
LEMMA WorkerKeepsLine ==
  ASSUME IInv, TypeOK', DirectInv, InLineInv, SenderNotOlder, Worker
  PROVE  Orderly /\ DirectInv'
<1>1. /\ TypeOK /\ processors \in [Instances -> Object] /\ current \in Instances
      /\ Active \in Object
  BY DEF IInv, TypeOK, Active
<1>2. CASE ProcessDelay
  <2>1. /\ UNCHANGED <<wire, queue, metrics, packet, processors, current>>
        /\ ~IsSegmented(Active)
    BY <1>2 DEF ProcessDelay, othersVars, controlVars, Active, IsSegmented
  <2>2. Active' = Active  BY <2>1 DEF Active
  <2> QED  BY <1>1, <2>1, <2>2, Quiet
<1>3. CASE ProcessError
  <2>1. /\ processors' = [processors EXCEPT ![current] = Harvested(Active)]
        /\ UNCHANGED <<wire, queue, current>>
        /\ packet' = NoPacket /\ worker' = "getting" /\ metrics' = ErrorCounted
    BY <1>3 DEF ProcessError, NextRound, LoopState, othersVars, controlVars, Active
  <2>2. Active' = Harvested(Active)  BY <1>1, <2>1 DEF Active
  <2>3. Harvested(Active).name = Active.name  BY <1>1, SameIdentity
  <2>4. metrics'.received = metrics.received  BY <1>1, <2>1 DEF ErrorCounted, TypeOK, Counters
  <2> QED  BY <1>1, <2>1, <2>2, <2>3, <2>4, Quiet
<1>4. CASE WorkerCancelled
  <2>1. /\ UNCHANGED <<wire, queue, metrics, processors, current>>
        /\ packet' = NoPacket /\ worker' = "ended"
    BY <1>4 DEF WorkerCancelled, CancelEnds, othersVars, controlVars
  <2>2. Active' = Active  BY <2>1 DEF Active
  <2> QED  BY <1>1, <2>1, <2>2, Quiet
<1> QED
  BY <1>2, <1>3, <1>4, GetKeepsLine, DirectKeepsLine, SegmentedKeepsLine DEF Worker

\* Every step but an arrival.
LEMMA NothingArrives ==
  ASSUME IInv, TypeOK', SwitchInv, SentInv, [Next]_vars, ~DatagramReceived
  PROVE  Orderly /\ DirectInv'
<1>1. /\ TypeOK /\ processors \in [Instances -> Object] /\ current \in Instances
      /\ Active \in Object /\ DirectInv /\ InLineInv /\ SenderNotOlder
  BY DEF IInv, TypeOK, Active, SentInv
<1>2. CASE OversizedReceived
  <2>1. /\ UNCHANGED <<wire, queue, packet, worker, processors, current>>
        /\ metrics'.received = metrics.received
    BY <1>1, <1>2 DEF OversizedReceived, othersVars, controlVars, TypeOK, Counters
  <2>2. Active' = Active  BY <2>1 DEF Active
  <2> QED  BY <1>1, <2>1, <2>2, Quiet
<1>3. ASSUME NEW i \in Instances, InferenceEnds(i) PROVE Orderly /\ DirectInv'
  <2>1. PICK t : processors' = [processors EXCEPT ![i].task = t]
    BY <1>3 DEF InferenceEnds
  <2>2. UNCHANGED <<mediaVars, current>>  BY <1>3 DEF InferenceEnds, othersVars, controlVars
  <2>3. /\ Active'.name = Active.name /\ Active'.ready = Active.ready
        /\ Active'.active = Active.active /\ Active'.input = Active.input
    <3>1. processors'[current] \in {processors[current], [processors[current] EXCEPT !.task = t]}
      BY <1>1, <2>1
    <3> QED  BY <1>1, <2>2, <3>1 DEF Active, Object
  <2> QED  BY <1>1, <2>2, <2>3, Untouched
<1>4. CASE UNCHANGED vars
  <2>1. UNCHANGED <<mediaVars, current, processors>>
    BY <1>4 DEF vars, othersVars, controlVars
  <2> QED  BY <1>1, <2>1, Untouched DEF Active
<1> QED
  BY <1>1, <1>2, <1>3, <1>4, WorkerKeepsLine, BeginKeepsLine, HandleKeepsLine, LifecycleKeepsLine
  DEF Next, Ingress

\* An accepted datagram is last in line; a dropped one never joins it.
LEMMA Arrives ==
  ASSUME IInv, SentInv, DatagramReceived
  PROVE  /\ Follows(InLine, metrics.received, InLine', metrics'.received)
         /\ metrics'.received = metrics.received + 1
         /\ Outs' = Outs /\ SenderNotOlder' /\ DirectInv'
<1>1. /\ Outs \in Seq(Nat) /\ InHand \in Seq(Nat) /\ queue \in Seq(Nat) /\ Active \in Object
      /\ metrics.received \in Nat /\ InLine \in Seq(Nat)
  BY LineTypes DEF IInv
<1>2. UNCHANGED <<wire, packet, worker, processors, current>>
  BY DEF DatagramReceived, othersVars, controlVars
<1>3. Outs' = Outs /\ Active' = Active /\ InHand' = InHand  BY <1>2 DEF Outs, Active, InHand
<1>4. /\ metrics'.received = metrics.received + 1
      /\ queue' \in {queue, Append(queue, metrics.received + 1)}
  BY DEF DatagramReceived, IInv, TypeOK, Counters
<1>5. InOrder(InLine, metrics.received)  BY DEF SentInv, InLineInv
<1>6. Follows(InLine, metrics.received, InLine', metrics'.received)
  <2>1. CASE queue' = queue
    <3>1. InLine' = InLine  BY <1>3, <2>1 DEF InLine
    <3>2. metrics.received + 1 \in Nat /\ metrics.received <= metrics.received + 1  BY <1>1
    <3> QED  BY <1>1, <1>4, <1>5, <3>1, <3>2, FollowsKept
  <2>2. CASE queue' = Append(queue, metrics.received + 1)
    <3>1. PICK n \in Nat : n = metrics.received + 1  BY <1>1
    <3>2. InLine' = Append(InLine, n)
      <4>1. PICK r \in Seq(Nat) : r = Active.ready  BY <1>1, BuffersType
      <4>2. PICK a \in Seq(Nat) : a = Active.active  BY <1>1, BuffersType
      <4>3. PICK i \in Seq(Nat) : i = Active.input  BY <1>1, BuffersType
      <4>4. Line(Outs, r, a, i, InHand, Append(queue, n))
              = Append(Line(Outs, r, a, i, InHand, queue), n)
        BY <1>1, LineGrows
      <4> QED  BY <1>3, <2>2, <3>1, <4>1, <4>2, <4>3, <4>4 DEF InLine, LineOf
    <3> QED  BY <1>1, <1>4, <1>5, <3>1, <3>2, FollowsAppended
  <2> QED  BY <1>4, <2>1, <2>2
<1>7. SenderNotOlder'  BY <1>2 DEF SenderNotOlder, SentInv
<1>8. DirectInv'  BY <1>2, <1>3 DEF DirectInv, IsSegmented, SentInv
<1> QED  BY <1>3, <1>4, <1>6, <1>7, <1>8

\* What a step of the service does to the line, whatever step it is.
LEMMA LineStep ==
  ASSUME IInv, TypeOK', SwitchInv, SentInv, [Next]_vars
  PROVE  /\ Follows(InLine, metrics.received, InLine', metrics'.received)
         /\ metrics'.received \in Nat /\ metrics.received <= metrics'.received
         /\ \E y \in Seq(Nat) : Outs' = Joined(Outs, y)
         /\ SentInv'
<1>1. /\ Outs \in Seq(Nat) /\ metrics.received \in Nat /\ InLine \in Seq(Nat)
      /\ InOrder(InLine, metrics.received)
  BY LineTypes DEF IInv, SentInv, InLineInv
<1>2. Follows(InLine, metrics.received, InLine', metrics'.received) => InLineInv'
  BY DEF Follows, InLineInv
<1>3. CASE DatagramReceived
  <2>1. /\ Follows(InLine, metrics.received, InLine', metrics'.received)
        /\ metrics'.received = metrics.received + 1
        /\ Outs' = Outs /\ SenderNotOlder' /\ DirectInv'
    BY <1>3, Arrives
  <2>2. \E y \in Seq(Nat) : Outs' = Joined(Outs, y)
    <3>1. Joined(Outs, <<>>) = Outs  BY <1>1, JoinedIs
    <3> QED  BY <2>1, <3>1, EmptySeq
  <2>3. metrics'.received \in Nat /\ metrics.received <= metrics'.received
    BY <1>1, <2>1
  <2>4. SentInv'  BY <1>2, <2>1 DEF SentInv
  <2> QED  BY <2>1, <2>2, <2>3, <2>4
<1>4. CASE ~DatagramReceived
  <2>1. Orderly /\ DirectInv'  BY <1>4, NothingArrives
  <2>2. InLine' \in Seq(Nat)  BY LineTypesNext
  <2>3. metrics.received <= metrics.received  BY <1>1
  <2>4. Follows(InLine, metrics.received, InLine', metrics.received)
    BY <1>1, <2>1, <2>2, <2>3, FollowsSubsequence DEF Orderly
  <2> QED  BY <1>1, <1>2, <2>1, <2>3, <2>4 DEF Orderly, SentInv
<1> QED  BY <1>3, <1>4

\* The line is what the refinement mapping says: outputs, then Pending.
LEMMA SameLine ==
  ASSUME NEW o \in Seq(Nat), NEW s \in Object, NEW p \in Seq(Nat), NEW q \in Seq(Nat)
  PROVE  o \o (Buffered(s) \o p \o q) = LineOf(o, s, p, q)
<1>1. PICK r \in Seq(Nat) : r = s.ready  BY BuffersType
<1>2. PICK a \in Seq(Nat) : a = s.active  BY BuffersType
<1>3. PICK i \in Seq(Nat) : i = s.input  BY BuffersType
<1>4. Buffered(s) \o p \o q = Joined(Joined(Joined(Joined(r, a), i), p), q)
  BY <1>1, <1>2, <1>3 DEF Buffered, Joined
<1>5. Joined(o, Joined(Joined(Joined(Joined(r, a), i), p), q)) = Line(o, r, a, i, p, q)
  BY LineFromLeft
<1> QED  BY <1>1, <1>2, <1>3, <1>4, <1>5 DEF Joined, LineOf

LEMMA InitLine ==
  ASSUME Init
  PROVE  SentInv /\ metrics.received = 0 /\ Outs = <<>> /\ Pending = <<>>
<1>1. /\ wire = <<>> /\ packet = NoPacket /\ queue = <<>> /\ metrics.received = 0
      /\ worker = "none"
  BY DEF Init
<1>2. Active = Create(Startup, Startup["processor"])
  BY SizesAssumption DEF Init, Active, Instances
<1>3. Active.ready = <<>> /\ Active.active = <<>> /\ Active.input = <<>>
  BY <1>2 DEF Create
<1>4. PICK e \in Seq(Nat) : e = <<>>  BY EmptySeq
<1>5. Outs = e /\ Len(e) = 0
  <2>1. Outs = [k \in 1..0 |-> wire[k].packet]  BY <1>1 DEF Outs
  <2> QED  BY <1>4, <2>1
<1>6. InHand = e  BY <1>1, <1>4 DEF InHand
<1>7. Joined(e, e) = e  BY <1>4, JoinedIs
<1>8. InLine = e  BY <1>1, <1>3, <1>4, <1>5, <1>6, <1>7 DEF InLine, LineOf, Line
<1>9. InLineInv  BY <1>5, <1>8 DEF InLineInv, InOrder
<1>10. SenderNotOlder /\ DirectInv  BY <1>1, <1>3 DEF SenderNotOlder, DirectInv
<1>11. Pending = <<>>
  <2>1. Pending = Joined(Joined(Joined(Joined(e, e), e), e), e)
    BY <1>1, <1>3, <1>4 DEF Pending, Buffered, Active, Joined
  <2> QED  BY <1>4, <1>7, <2>1
<1> QED  BY <1>1, <1>4, <1>5, <1>9, <1>10, <1>11 DEF SentInv

LEMMA SentInvariant == Spec => [](IInv /\ SwitchInv /\ SentInv)
<1>1. Init => IInv /\ SwitchInv /\ SentInv  BY InitIInv, SwitchInvInit, InitLine
<1>2. IInv /\ SwitchInv /\ SentInv /\ [Next]_vars => (IInv /\ SwitchInv /\ SentInv)'
  BY SwitchInvStep, TypeStep, LockStep, OrderStep, LineStep DEF IInv
<1> QED  BY <1>1, <1>2, PTL DEF Spec

\* An output is addressed to the sender of its own packet or of a later one, also
\* when a switch or stop() flushes it: packets are numbered as they arrive, and
\* whatever is buffered arrived no later than the packet that releases it.
THEOREM NeverToAnOlderSender == Spec => []SenderNotOlder
<1>1. SentInv => SenderNotOlder  BY DEF SentInv
<1> QED  BY <1>1, SentInvariant, PTL

\* From the socket to the socket, the service is a lossy FIFO: through drops,
\* failures, resets, switches and stop(), nothing is sent twice, out of arrival
\* order, or after it was given up.
THEOREM ServiceIsLossyFifo == Spec => ImplementsLossyFifo
<1>1. Init => Fifo!Init
  BY InitLine DEF Fifo!Init, Outs
<1>2. IInv /\ SwitchInv /\ SentInv /\ [Next]_vars => [Fifo!Next]_(Fifo!fifoVars)
  <2> SUFFICES ASSUME IInv, SwitchInv, SentInv, [Next]_vars PROVE Fifo!Next
    BY DEF Fifo!fifoVars
  <2>1. TypeOK /\ TypeOK'  BY TypeStep DEF IInv
  <2>2. /\ Follows(InLine, metrics.received, InLine', metrics'.received)
        /\ metrics'.received \in Nat /\ metrics.received <= metrics'.received
    BY <2>1, LineStep
  <2>3. PICK y \in Seq(Nat) : Outs' = Joined(Outs, y)  BY <2>1, LineStep
  <2>4. Fifo!Extends(Outs, Outs')
    <3>1. Outs \in Seq(Nat)  BY <2>1, LineTypes
    <3> QED  BY <2>3, <3>1, LeavesBehind DEF Fifo!Extends, Joined
  <2>5. Outs \o Pending = InLine /\ (Outs \o Pending)' = InLine'
    <3>1. Outs \o Pending = InLine
      BY <2>1, LineTypes, SameLine DEF Pending, InHand, Active, InLine
    <3>2. (Outs \o Pending)' = InLine'
      BY <2>1, LineTypesNext, SameLine DEF Pending, InHand, Active, InLine
    <3> QED  BY <3>1, <3>2
  <2>6. Fifo!StrictlyIncreasing(InLine')
    BY <2>2 DEF Follows, InOrder, Fifo!StrictlyIncreasing
  <2>7. Fifo!Items(InLine') \subseteq Fifo!Items(InLine)
          \cup (metrics.received + 1)..metrics'.received
    BY <2>2 DEF Follows, ItemsOf, Fifo!Items
  <2> QED
    BY <2>2, <2>4, <2>5, <2>6, <2>7 DEF Fifo!Next, Outs
<1> QED  BY <1>1, <1>2, SentInvariant, PTL DEF Spec, ImplementsLossyFifo, Fifo!Spec
=============================================================================
