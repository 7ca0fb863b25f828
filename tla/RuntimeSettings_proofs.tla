----------------------- MODULE RuntimeSettings_proofs -----------------------
(***************************************************************************)
(* The settings, the registry, the requests in flight and the active       *)
(* processor stay consistent, for every environment, every payload, every  *)
(* number of concurrent requests, with and without a GPU.                  *)
(*                                                                         *)
(* The invariant says of every request in flight what its Install needs:   *)
(* the candidate was validated when the request began, the replacement was *)
(* created from it, and neither changes while others overtake the request. *)
(***************************************************************************)
EXTENDS RuntimeSettings, TLAPS

AllConstruct(s) == \A n \in ProcessorNames : Constructs(n, s)

ProcessorInv(p) ==
  /\ p = [name |-> p.name, config |-> p.config, via |-> p.via]
  /\ IsProcessor(p) /\ Constructs(p.name, p.config)

RequestInv(r) ==
  /\ r.kind \in {"update", "select"}
  /\ DOMAIN r.wanted \subseteq Fields /\ IsFields(r.wanted, DOMAIN r.wanted)
  /\ IsFields(r.candidate, Fields)
  /\ ProcessorInv(r.replacement) /\ r.replacement.via = r.kind
  /\ r.kind = "update" =>
       /\ AllConstruct(r.candidate)
       /\ \A f \in DOMAIN r.wanted : r.candidate[f] = r.wanted[f]
       /\ \A f \in ConfigFields(r.replacement.name) :
            r.replacement.config[f] = r.candidate[f]
  /\ r.kind = "select" => DOMAIN r.wanted = {"processor"}

ControlOK ==
  /\ requests \in 0..MaxRequests /\ turn \in Handlers \cup {"loop"}
  /\ pc \in [Handlers -> {"idle", "starting", "locking", "stopping"}]
  /\ request = [h \in Handlers |-> request[h]]
RequestsInv == \A h \in Handlers : pc[h] # "idle" => RequestInv(request[h])

StartupInv == IsFields(startup, Fields)
RegistryInv == IsFields(registry, Fields) /\ (registry = startup \/ AllConstruct(registry))
ReportedInv ==
  /\ IsFields(settings, Fields)
  /\ DOMAIN asked \subseteq Fields /\ IsFields(asked, DOMAIN asked)
  /\ AskedIsReported
ActiveInv == ProcessorInv(active) /\ ActiveUsesSettings

SettingsInv ==
  ControlOK /\ RequestsInv /\ StartupInv /\ RegistryInv /\ ReportedInv /\ ActiveInv

-----------------------------------------------------------------------------
(* Fields.                                                                 *)

LEMMA FieldsDomain ==
  ASSUME NEW s, NEW F, IsFields(s, F)
  PROVE  DOMAIN s = F
BY DEF IsFields

LEMMA ReplaceValues ==
  ASSUME NEW s, NEW u
  PROVE  /\ \A f \in DOMAIN u : Replace(s, u)[f] = u[f]
         /\ \A f \in DOMAIN s \ DOMAIN u : Replace(s, u)[f] = s[f]
BY DEF Replace

LEMMA ReplaceFields ==
  ASSUME NEW s, NEW u, IsFields(s, DOMAIN s), IsFields(u, DOMAIN u)
  PROVE  IsFields(Replace(s, u), DOMAIN s \cup DOMAIN u)
BY DEF IsFields, Replace

LEMMA TheGroups ==
  /\ ConfigFields(HTDemucs) =
       {"demucs_model", "demucs_device", "demucs_segment", "demucs_overlap",
        "demucs_shifts", "demucs_vocal_reduction"}
  /\ ConfigFields(ConvTasNet) =
       {"convtasnet_model_path", "convtasnet_device", "convtasnet_segment",
        "convtasnet_vocal_reduction", "convtasnet_vocal_index",
        "convtasnet_accompaniment_index"}
  /\ ConfigFields(Mdx23c) =
       {"mdx23c_device", "mdx23c_segment", "mdx23c_overlap", "mdx23c_batch_size",
        "mdx23c_vocal_reduction", "mdx23c_precision"}
  /\ ConfigFields(Centre) = {"centre_reduction"}
BY DEF ConfigFields, HTDemucs, ConvTasNet, Mdx23c, Centre

\* No group of settings contains the name of the processor, nor a field that the
\* settings do not have.
LEMMA GroupsFields ==
  ASSUME NEW n \in ProcessorNames
  PROVE  ConfigFields(n) \subseteq Fields \ {"processor"}
<1>1. ConfigFields(n) \subseteq Fields  BY DEF Fields
<1>2. "processor" \notin ConfigFields(n)
  BY DEF ConfigFields, HTDemucs, ConvTasNet, Mdx23c, Centre
<1> QED  BY <1>1, <1>2

LEMMA NoneIsNoField == "none" \notin Fields
<1>1. ASSUME NEW n \in ProcessorNames PROVE "none" \notin ConfigFields(n)
  BY DEF ConfigFields, HTDemucs, ConvTasNet, Mdx23c, Centre
<1> QED  BY <1>1 DEF Fields

\* What an update lets through, all constructors accept.
LEMMA ValidatedConstruct ==
  ASSUME NEW s, Valid(s)
  PROVE  AllConstruct(s)
BY DEF AllConstruct, Constructs, Valid, ValidDemucs, ValidConvTasNet, ValidMdx23c,
   HTDemucsConfig, ConvTasNetConfig, Mdx23cConfig

\* A factory passes on what its constructor checks.
LEMMA CreatedConstructs ==
  ASSUME NEW s, NEW n, NEW via \in {"startup", "update", "select"},
         IsFields(s, Fields), Constructs(n, s)
  PROVE  /\ ProcessorInv(Create(s, n, via))
         /\ Create(s, n, via).name = n /\ Create(s, n, via).via = via
         /\ \A f \in ConfigFields(n) : Create(s, n, via).config[f] = s[f]
<1> DEFINE c == Create(s, n, via).config
<1>1. n \in ProcessorNames  BY DEF Constructs
<1>2. c = [f \in ConfigFields(n) |-> s[f]]  BY DEF Create
<1>3. \A f \in ConfigFields(n) : c[f] = s[f]  BY <1>2
<1>4. IsFields(c, ConfigFields(n))  BY <1>1, <1>2, GroupsFields DEF IsFields
<1>5. Constructs(n, c)
  <2> HIDE DEF c
  <2>1. n = HTDemucs => HTDemucsConfig(c)
    BY <1>3, TheGroups DEF Constructs, HTDemucsConfig
  <2>2. n = ConvTasNet => ConvTasNetConfig(c)
    BY <1>3, TheGroups DEF Constructs, ConvTasNetConfig
  <2>3. n = Mdx23c => Mdx23cConfig(c)
    BY <1>3, TheGroups DEF Constructs, Mdx23cConfig
  <2>4. n = Centre => Fraction(c.centre_reduction)
    BY <1>3, TheGroups DEF Constructs
  <2> QED  BY <1>1, <2>1, <2>2, <2>3, <2>4 DEF Constructs
<1> QED  BY <1>1, <1>3, <1>4, <1>5 DEF ProcessorInv, IsProcessor, Create
\* What is left of a payload once the values that stay are dropped still sets every
\* field of the payload to its value.
LEMMA FlattenedSets ==
  ASSUME NEW p, DOMAIN p \subseteq Fields, IsFields(p, DOMAIN p), IsFields(settings, Fields)
  PROVE  /\ DOMAIN Flattened(p) \subseteq DOMAIN p
         /\ IsFields(Flattened(p), DOMAIN Flattened(p))
         /\ \A f \in DOMAIN Flattened(p) : Flattened(p)[f] = p[f]
         /\ IsFields(Replace(settings, Flattened(p)), Fields)
         /\ \A f \in DOMAIN p : Replace(settings, Flattened(p))[f] = p[f]
         /\ \A f \in Fields \ DOMAIN Flattened(p) :
              Replace(settings, Flattened(p))[f] = settings[f]
<1>1. PICK u : u = Flattened(p)  OBVIOUS
<1>2. PICK D : D = {g \in DOMAIN p : p[g] # settings[g]}  OBVIOUS
<1>3. DOMAIN u = D /\ \A f \in D : u[f] = p[f]  BY <1>1, <1>2 DEF Flattened
<1>4. IsFields(u, DOMAIN u)  BY <1>1, <1>2, <1>3 DEF IsFields, Flattened
<1>5. /\ \A f \in D : Replace(settings, u)[f] = u[f]
      /\ \A f \in Fields \ D : Replace(settings, u)[f] = settings[f]
  BY <1>3, FieldsDomain, ReplaceValues
<1>6. IsFields(Replace(settings, u), Fields)
  <2>1. DOMAIN settings = Fields /\ Fields \cup DOMAIN u = Fields
    BY <1>2, <1>3, FieldsDomain
  <2> QED  BY <1>4, <2>1, ReplaceFields
<1>7. \A f \in DOMAIN p : Replace(settings, u)[f] = p[f]  BY <1>2, <1>3, <1>5
<1> QED  BY <1>1, <1>2, <1>3, <1>4, <1>5, <1>6, <1>7

\* The setting a processor takes while it runs is one of its own, and a fraction in
\* its place is what its constructor would accept.
LEMMA LiveConstructs ==
  ASSUME NEW n \in ProcessorNames, NEW s, IsFields(s, ConfigFields(n)), Constructs(n, s),
         NEW u, DOMAIN u = {LiveField(n)}, IsFields(u, DOMAIN u), DOMAIN u \subseteq Fields,
         Fraction(u[LiveField(n)])
  PROVE  /\ DOMAIN u \subseteq ConfigFields(n)
         /\ IsFields(Replace(s, u), ConfigFields(n))
         /\ Constructs(n, Replace(s, u))
<1> DEFINE r == Replace(s, u)
<1>1. n \in {HTDemucs, ConvTasNet, Mdx23c, Centre}  BY NoneIsNoField DEF LiveField
<1>2. LiveField(n) \in ConfigFields(n)
  BY <1>1, TheGroups DEF LiveField, HTDemucs, ConvTasNet, Mdx23c, Centre
<1>3. DOMAIN s = ConfigFields(n) /\ ConfigFields(n) \cup DOMAIN u = ConfigFields(n)
  BY <1>2, FieldsDomain
<1>4. IsFields(r, ConfigFields(n))  BY <1>3, ReplaceFields
<1>5. /\ r[LiveField(n)] = u[LiveField(n)]
      /\ \A f \in ConfigFields(n) : f # LiveField(n) => r[f] = s[f]
  BY <1>3, ReplaceValues
<1> HIDE DEF r
<1>6. n = HTDemucs => HTDemucsConfig(r)
  <2> HAVE n = HTDemucs
  <2>1. LiveField(n) = "demucs_vocal_reduction"
    BY DEF LiveField, HTDemucs, ConvTasNet, Mdx23c, Centre
  <2> QED  BY <1>5, <2>1, TheGroups DEF Constructs, HTDemucsConfig
<1>7. n = ConvTasNet => ConvTasNetConfig(r)
  <2> HAVE n = ConvTasNet
  <2>1. LiveField(n) = "convtasnet_vocal_reduction"
    BY DEF LiveField, HTDemucs, ConvTasNet, Mdx23c, Centre
  <2> QED  BY <1>5, <2>1, TheGroups DEF Constructs, ConvTasNetConfig
<1>8. n = Mdx23c => Mdx23cConfig(r)
  <2> HAVE n = Mdx23c
  <2>1. LiveField(n) = "mdx23c_vocal_reduction"
    BY DEF LiveField, HTDemucs, ConvTasNet, Mdx23c, Centre
  <2> QED  BY <1>5, <2>1, TheGroups DEF Constructs, Mdx23cConfig
<1>9. n = Centre => Fraction(r.centre_reduction)
  <2> HAVE n = Centre
  <2>1. LiveField(n) = "centre_reduction"
    BY DEF LiveField, HTDemucs, ConvTasNet, Mdx23c, Centre
  <2> QED  BY <1>5, <2>1
<1> QED  BY <1>2, <1>3, <1>4, <1>6, <1>7, <1>8, <1>9 DEF Constructs, r

-----------------------------------------------------------------------------
(* The steps of a request.                                                 *)

LEMMA InitInv == Init => SettingsInv
<1> SUFFICES ASSUME Init PROVE SettingsInv  OBVIOUS
<1>1. startup \in Environments /\ Constructs(startup.processor, startup)  BY DEF Init
<1>2. IsFields(startup, Fields)  BY <1>1, EnvironmentAssumption
<1>3. /\ ProcessorInv(active)
      /\ \A f \in ConfigFields(active.name) : active.config[f] = settings[f]
  BY <1>1, <1>2, CreatedConstructs DEF Init
<1>4. DOMAIN asked = {} /\ IsFields(asked, DOMAIN asked)  BY DEF Init, IsFields
<1>5. ControlOK /\ RequestsInv
  BY EnvironmentAssumption DEF Init, ControlOK, RequestsInv
<1> QED
  BY <1>2, <1>3, <1>4, <1>5 DEF Init, SettingsInv, StartupInv, RegistryInv, ReportedInv,
     ActiveInv, ActiveUsesSettings, AskedIsReported

LEMMA LiveApplyStep ==
  ASSUME SettingsInv, NEW p \in Payloads, LiveApply(p)
  PROVE  SettingsInv'
<1> DEFINE u == Flattened(p)
           n == active.name
<1>1. /\ DOMAIN p \subseteq Fields /\ IsFields(p, DOMAIN p)
      /\ IsFields(settings, Fields) /\ IsFields(asked, DOMAIN asked)
      /\ DOMAIN asked \subseteq Fields
  BY EnvironmentAssumption DEF SettingsInv, ReportedInv
<1>2. /\ settings' = Replace(settings, u) /\ asked' = Replace(asked, p)
      /\ active' = [active EXCEPT !.config = Replace(active.config, u)]
      /\ DOMAIN u = {LiveField(n)} /\ SchemaAccepts(p)
  BY DEF LiveApply, Accepted, LiveRule, Taken
<1>3. /\ DOMAIN u \subseteq DOMAIN p /\ IsFields(u, DOMAIN u)
      /\ \A f \in DOMAIN u : u[f] = p[f]
      /\ IsFields(settings', Fields)
      /\ \A f \in DOMAIN p : settings'[f] = p[f]
      /\ \A f \in Fields \ DOMAIN u : settings'[f] = settings[f]
  BY <1>1, <1>2, FlattenedSets
<1>4. /\ IsFields(asked', DOMAIN asked \cup DOMAIN p) /\ DOMAIN asked' = DOMAIN asked \cup DOMAIN p
      /\ \A f \in DOMAIN p : asked'[f] = p[f]
      /\ \A f \in DOMAIN asked \ DOMAIN p : asked'[f] = asked[f]
  <2>1. IsFields(asked', DOMAIN asked \cup DOMAIN p)  BY <1>1, <1>2, ReplaceFields
  <2>2. DOMAIN asked' = DOMAIN asked \cup DOMAIN p  BY <2>1, FieldsDomain
  <2> QED  BY <1>2, <2>1, <2>2, ReplaceValues
<1>5. ReportedInv'
  <2>1. ASSUME NEW f \in DOMAIN asked' PROVE settings'[f] = asked'[f]
    <3>1. CASE f \in DOMAIN p  BY <1>3, <1>4, <3>1
    <3>2. CASE f \notin DOMAIN p
      BY <1>1, <1>3, <1>4, <3>2 DEF SettingsInv, ReportedInv, AskedIsReported
    <3> QED  BY <3>1, <3>2
  <2>2. DOMAIN asked' \subseteq Fields /\ IsFields(asked', DOMAIN asked')  BY <1>1, <1>4
  <2> QED  BY <1>3, <2>1, <2>2 DEF ReportedInv, AskedIsReported
<1>6. /\ n \in ProcessorNames /\ Constructs(n, active.config)
      /\ IsFields(active.config, ConfigFields(n)) /\ DOMAIN u \subseteq Fields
      /\ Fraction(u[LiveField(n)])
  <2>1. n \in ProcessorNames /\ Constructs(n, active.config)
        /\ IsFields(active.config, ConfigFields(n))
    BY DEF SettingsInv, ActiveInv, ProcessorInv, IsProcessor
  <2>2. LiveField(n) \in DOMAIN p /\ u[LiveField(n)] = p[LiveField(n)]  BY <1>2, <1>3
  <2>3. Fraction(p[LiveField(n)])  BY <1>2, <2>1, <2>2 DEF SchemaAccepts
  <2> QED  BY <1>1, <1>3, <2>1, <2>2, <2>3
<1>7. ActiveInv'
  <2> DEFINE c == Replace(active.config, u)
  <2>1. /\ DOMAIN u \subseteq ConfigFields(n)
        /\ IsFields(c, ConfigFields(n)) /\ Constructs(n, c)
    BY <1>2, <1>3, <1>6, LiveConstructs
  <2>2. /\ \A f \in DOMAIN u : c[f] = u[f]
        /\ \A f \in ConfigFields(n) \ DOMAIN u : c[f] = active.config[f]
    BY <1>6, FieldsDomain, ReplaceValues
  <2>3. active' = [name |-> n, config |-> c, via |-> active.via]
    <3>1. active = [name |-> n, config |-> active.config, via |-> active.via]
      BY DEF SettingsInv, ActiveInv, ProcessorInv
    <3> QED  BY <1>2, <3>1
  <2>4. ProcessorInv(active')
    BY <2>1, <2>3 DEF SettingsInv, ActiveInv, ProcessorInv, IsProcessor
  <2>5. ASSUME active.via # "select", NEW f \in ConfigFields(n) PROVE c[f] = settings'[f]
    <3>1. CASE f \in DOMAIN u  BY <1>3, <2>2, <3>1
    <3>2. CASE f \notin DOMAIN u
      <4>1. active.config[f] = settings[f]
        BY <2>5 DEF SettingsInv, ActiveInv, ActiveUsesSettings
      <4>2. f \in Fields  BY <1>6, GroupsFields
      <4> QED  BY <1>3, <2>2, <3>2, <4>1, <4>2
    <3> QED  BY <3>1, <3>2
  <2> QED  BY <2>3, <2>4, <2>5 DEF ActiveInv, ActiveUsesSettings
<1>8. ControlOK' /\ RequestsInv' /\ StartupInv' /\ RegistryInv'
  BY DEF LiveApply, SettingsInv, ControlOK, RequestsInv, StartupInv, RegistryInv
<1> QED  BY <1>5, <1>7, <1>8 DEF SettingsInv
\* A request begins: it is well formed, and the shared state is as before.
LEMMA BeginStep ==
  ASSUME SettingsInv, NEW h \in Handlers, NEW r, RequestInv(r), Begin(h, r)
  PROVE  SettingsInv'
<1>1. ControlOK'
  <2>1. requests' \in 0..MaxRequests
    BY EnvironmentAssumption DEF Begin, CanBegin, SettingsInv, ControlOK
  <2>2. turn' \in Handlers \cup {"loop"}
    BY DEF Begin, Acquire, SettingsInv, ControlOK
  <2>3. pc' \in [Handlers -> {"idle", "starting", "locking", "stopping"}]
    BY DEF Begin, SettingsInv, ControlOK
  <2>4. request' = [g \in Handlers |-> request'[g]]
    BY DEF Begin, SettingsInv, ControlOK
  <2> QED  BY <2>1, <2>2, <2>3, <2>4 DEF ControlOK
<1>2. RequestsInv'
  <2> SUFFICES ASSUME NEW g \in Handlers, pc'[g] # "idle" PROVE RequestInv(request'[g])
    BY DEF RequestsInv
  <2>1. CASE g = h  BY <2>1 DEF Begin, SettingsInv, ControlOK
  <2>2. CASE g # h  BY <2>2 DEF Begin, SettingsInv, ControlOK, RequestsInv
  <2> QED  BY <2>1, <2>2
<1>3. UNCHANGED <<startup, settings, registry, active, asked>>  BY DEF Begin
<1> QED
  BY <1>1, <1>2, <1>3 DEF SettingsInv, StartupInv, RegistryInv, ReportedInv, ActiveInv,
     ActiveUsesSettings, AskedIsReported

LEMMA BeginUpdateStep ==
  ASSUME SettingsInv, NEW h \in Handlers, NEW p \in Payloads, BeginUpdate(h, p)
  PROVE  SettingsInv'
<1>1. PICK c : c = Replace(settings, Flattened(p))  OBVIOUS
<1>2. PICK w : w = Replace(asked, p)  OBVIOUS
<1>3. PICK new : new = Create(c, c.processor, "update")  OBVIOUS
<1>4. PICK r : r = [kind |-> "update", wanted |-> w, candidate |-> c, replacement |-> new]
  OBVIOUS
<1>5. Begin(h, r) /\ Valid(c) /\ Constructs(c.processor, c)
  BY <1>1, <1>2, <1>3, <1>4 DEF BeginUpdate, Accepted
<1>6. /\ DOMAIN p \subseteq Fields /\ IsFields(p, DOMAIN p) /\ IsFields(settings, Fields)
      /\ DOMAIN asked \subseteq Fields /\ IsFields(asked, DOMAIN asked)
      /\ \A f \in DOMAIN asked : settings[f] = asked[f]
  BY EnvironmentAssumption DEF SettingsInv, ReportedInv, AskedIsReported
<1>7. /\ IsFields(c, Fields)
      /\ \A f \in DOMAIN p : c[f] = p[f]
      /\ \A f \in Fields \ DOMAIN p : c[f] = settings[f]
  BY <1>1, <1>6, FlattenedSets
<1>8. IsFields(w, DOMAIN w) /\ DOMAIN w = DOMAIN asked \cup DOMAIN p
  <2>1. IsFields(w, DOMAIN asked \cup DOMAIN p)  BY <1>2, <1>6, ReplaceFields
  <2> QED  BY <2>1, FieldsDomain
<1>9. ASSUME NEW f \in DOMAIN w PROVE c[f] = w[f]
  <2>1. CASE f \in DOMAIN p  BY <1>2, <1>7, <2>1, ReplaceValues
  <2>2. CASE f \notin DOMAIN p
    <3>1. f \in DOMAIN asked \ DOMAIN p  BY <1>8, <2>2
    <3> QED  BY <1>2, <1>6, <1>7, <3>1, ReplaceValues
  <2> QED  BY <2>1, <2>2
<1>10. /\ ProcessorInv(new) /\ new.name = c.processor /\ new.via = "update"
       /\ \A f \in ConfigFields(c.processor) : new.config[f] = c[f]
  BY <1>3, <1>5, <1>7, CreatedConstructs
<1>11. AllConstruct(c)  BY <1>5, ValidatedConstruct
<1>12. RequestInv(r)
  BY <1>4, <1>6, <1>7, <1>8, <1>9, <1>10, <1>11 DEF RequestInv
<1> QED  BY <1>5, <1>12, BeginStep

LEMMA BeginRestoreStep ==
  ASSUME SettingsInv, NEW h \in Handlers, BeginRestore(h)
  PROVE  SettingsInv'
<1>1. PICK new : new = Create(startup, startup.processor, "update")  OBVIOUS
<1>2. PICK r : r = [kind |-> "update", wanted |-> startup, candidate |-> startup,
                    replacement |-> new]
  OBVIOUS
<1>3. Begin(h, r) /\ Valid(startup) /\ Constructs(startup.processor, startup)
  BY <1>1, <1>2 DEF BeginRestore
<1>4. IsFields(startup, Fields) /\ DOMAIN startup = Fields
  BY FieldsDomain DEF SettingsInv, StartupInv
<1>5. /\ ProcessorInv(new) /\ new.name = startup.processor /\ new.via = "update"
      /\ \A f \in ConfigFields(startup.processor) : new.config[f] = startup[f]
  BY <1>1, <1>3, <1>4, CreatedConstructs
<1>6. AllConstruct(startup)  BY <1>3, ValidatedConstruct
<1>7. RequestInv(r)  BY <1>2, <1>4, <1>5, <1>6 DEF RequestInv
<1> QED  BY <1>3, <1>7, BeginStep

LEMMA BeginSelectStep ==
  ASSUME SettingsInv, NEW h \in Handlers, NEW n, BeginSelect(h, n)
  PROVE  SettingsInv'
<1>1. PICK new : new = Create(registry, n, "select")  OBVIOUS
<1>2. PICK w : w = [processor |-> n]  OBVIOUS
<1>3. PICK r : r = [kind |-> "select", wanted |-> w, candidate |-> settings,
                    replacement |-> new]
  OBVIOUS
<1>4. Begin(h, r) /\ Constructs(n, registry)
  BY <1>1, <1>2, <1>3 DEF BeginSelect
<1>5. DOMAIN w = {"processor"}  BY <1>2
<1>6. w = [f \in {"processor"} |-> w[f]]  BY <1>2
<1>7. IsFields(w, DOMAIN w)  BY <1>5, <1>6 DEF IsFields, TextFields
<1>8. DOMAIN w \subseteq Fields  BY <1>5 DEF Fields
<1>9. ProcessorInv(new) /\ new.via = "select"
  BY <1>1, <1>4, CreatedConstructs DEF SettingsInv, RegistryInv
<1>10. RequestInv(r)
  BY <1>3, <1>5, <1>7, <1>8, <1>9 DEF RequestInv, SettingsInv, ReportedInv
<1> QED  BY <1>4, <1>10, BeginStep

\* Steps that leave the settings and the processors alone: the request goes on
\* or away.
LEMMA WaitingStep ==
  ASSUME SettingsInv, NEW h \in Handlers, StartFails(h) \/ Started(h) \/ FlushFails(h)
  PROVE  SettingsInv'
<1>1. UNCHANGED <<startup, settings, registry, active, asked, requests>>
  BY DEF StartFails, Started, FlushFails
<1>2. \/ pc[h] # "idle" /\ pc' = [pc EXCEPT ![h] = "locking"] /\ request' = request
      \/ pc' = [pc EXCEPT ![h] = "idle"] /\ request' = [request EXCEPT ![h] = NoRequest]
  BY DEF StartFails, Started, FlushFails, Leave
<1>3. turn' \in Handlers \cup {"loop"}
  BY DEF StartFails, Started, FlushFails, Leave, Acquire, SettingsInv, ControlOK
<1>4. ControlOK'  BY <1>1, <1>2, <1>3 DEF SettingsInv, ControlOK
<1>5. RequestsInv'
  <2> SUFFICES ASSUME NEW g \in Handlers, pc'[g] # "idle" PROVE RequestInv(request'[g])
    BY DEF RequestsInv
  <2> QED  BY <1>2 DEF SettingsInv, ControlOK, RequestsInv
<1> QED
  BY <1>1, <1>4, <1>5 DEF SettingsInv, StartupInv, RegistryInv, ReportedInv, ActiveInv,
     ActiveUsesSettings, AskedIsReported

LEMMA InstallStep ==
  ASSUME SettingsInv, NEW h \in Handlers, Install(h)
  PROVE  SettingsInv'
<1>1. PICK r : r = request[h]  OBVIOUS
<1>2. RequestInv(r) /\ ProcessorInv(r.replacement)
  BY <1>1 DEF Install, InLock, SettingsInv, RequestsInv, RequestInv
<1>3. active' = r.replacement  BY <1>1 DEF Install
<1>4. ControlOK'  BY DEF Install, SettingsInv, ControlOK
<1>5. RequestsInv'
  <2> SUFFICES ASSUME NEW g \in Handlers, pc'[g] # "idle" PROVE RequestInv(request'[g])
    BY DEF RequestsInv
  <2> QED  BY <1>1, <1>2 DEF Install, SettingsInv, ControlOK, RequestsInv
<1>6. CASE r.kind = "update"
  <2>1. registry' = r.candidate /\ settings' = r.candidate /\ asked' = r.wanted
        /\ startup' = startup
    BY <1>1, <1>6 DEF Install
  <2>2. RegistryInv' /\ StartupInv'
    BY <1>2, <1>6, <2>1 DEF RequestInv, RegistryInv, StartupInv, SettingsInv
  <2>3. ReportedInv'
    BY <1>2, <1>6, <2>1 DEF RequestInv, ReportedInv, AskedIsReported
  <2>4. ActiveInv'
    BY <1>2, <1>3, <1>6, <2>1 DEF RequestInv, ActiveInv, ActiveUsesSettings
  <2> QED  BY <1>4, <1>5, <2>2, <2>3, <2>4 DEF SettingsInv
<1>7. CASE r.kind = "select"
  <2>1. UNCHANGED <<startup, registry, settings, asked>>  BY <1>1, <1>7 DEF Install
  <2>2. ActiveInv'
    BY <1>2, <1>3, <1>7 DEF RequestInv, ActiveInv, ActiveUsesSettings
  <2> QED
    BY <1>4, <1>5, <2>1, <2>2 DEF SettingsInv, StartupInv, RegistryInv, ReportedInv,
       AskedIsReported
<1> QED  BY <1>2, <1>6, <1>7 DEF RequestInv

LEMMA OldStoppedStep ==
  ASSUME SettingsInv, NEW h \in Handlers, OldStopped(h)
  PROVE  SettingsInv'
<1>1. PICK r : r = request[h]  OBVIOUS
<1>2. RequestInv(r)  BY <1>1 DEF OldStopped, SettingsInv, RequestsInv
<1>3. UNCHANGED <<startup, registry, active>>  BY DEF OldStopped
<1>4. ControlOK'  BY DEF OldStopped, Leave, SettingsInv, ControlOK
<1>5. RequestsInv'  BY DEF OldStopped, Leave, SettingsInv, ControlOK, RequestsInv
<1>6. CASE r.kind = "update"
  <2>1. UNCHANGED <<settings, asked>>  BY <1>1, <1>6 DEF OldStopped
  <2> QED
    BY <1>3, <1>4, <1>5, <2>1 DEF SettingsInv, StartupInv, RegistryInv, ReportedInv,
       ActiveInv, ActiveUsesSettings, AskedIsReported
<1>7. CASE r.kind = "select"
  <2> DEFINE w == r.wanted
  <2>1. settings' = Replace(settings, w) /\ asked' = Replace(asked, w)
    BY <1>1, <1>7 DEF OldStopped
  <2>2. DOMAIN w = {"processor"} /\ DOMAIN w \subseteq Fields /\ IsFields(w, DOMAIN w)
    BY <1>2, <1>7 DEF RequestInv
  <2>3. /\ DOMAIN settings = Fields /\ IsFields(settings, Fields)
        /\ DOMAIN asked \subseteq Fields /\ IsFields(asked, DOMAIN asked)
    BY FieldsDomain DEF SettingsInv, ReportedInv
  <2> HIDE DEF w
  <2>4. IsFields(settings', Fields)
    <3>1. Fields \cup DOMAIN w = Fields  BY <2>2
    <3> QED  BY <2>1, <2>2, <2>3, <3>1, ReplaceFields
  <2>5. /\ IsFields(asked', DOMAIN asked') /\ DOMAIN asked' = DOMAIN asked \cup DOMAIN w
    <3>1. IsFields(asked', DOMAIN asked \cup DOMAIN w)  BY <2>1, <2>2, <2>3, ReplaceFields
    <3> QED  BY <3>1, FieldsDomain
  <2>6. ASSUME NEW f \in DOMAIN asked' PROVE settings'[f] = asked'[f]
    <3>1. CASE f \in DOMAIN w  BY <2>1, <3>1, ReplaceValues
    <3>2. CASE f \notin DOMAIN w
      <4>1. f \in DOMAIN asked \ DOMAIN w /\ f \in DOMAIN settings \ DOMAIN w
        BY <2>3, <2>5, <3>2
      <4>2. settings[f] = asked[f]  BY <4>1 DEF SettingsInv, ReportedInv, AskedIsReported
      <4> QED  BY <2>1, <4>1, <4>2, ReplaceValues
    <3> QED  BY <3>1, <3>2
  <2>7. ReportedInv'
    BY <2>2, <2>3, <2>4, <2>5, <2>6 DEF ReportedInv, AskedIsReported
  <2>8. ASSUME active.via # "select", NEW f \in ConfigFields(active.name)
        PROVE  active.config[f] = settings'[f]
    <3>1. f \in DOMAIN settings \ DOMAIN w
      BY <2>2, <2>3, GroupsFields DEF SettingsInv, ActiveInv, ProcessorInv, IsProcessor
    <3>2. settings'[f] = settings[f]  BY <2>1, <3>1, ReplaceValues
    <3> QED  BY <2>8, <3>2 DEF SettingsInv, ActiveInv, ActiveUsesSettings
  <2>9. ActiveInv'
    BY <1>3, <2>8 DEF SettingsInv, ActiveInv, ActiveUsesSettings
  <2> QED
    BY <1>3, <1>4, <1>5, <2>7, <2>9 DEF SettingsInv, StartupInv, RegistryInv
<1> QED  BY <1>2, <1>6, <1>7 DEF RequestInv
-----------------------------------------------------------------------------
(* The theorems.                                                           *)

\* The invariant holds whatever the requests do.
THEOREM SettingsInvariant == Spec => []SettingsInv
<1>1. ASSUME SettingsInv, [Next]_vars PROVE SettingsInv'
  <2>1. ASSUME NEW p \in Payloads, LiveApply(p) PROVE SettingsInv'
    BY <1>1, <2>1, LiveApplyStep
  <2>2. ASSUME NEW h \in Handlers, NEW p \in Payloads, BeginUpdate(h, p)
        PROVE  SettingsInv'
    BY <1>1, <2>2, BeginUpdateStep
  <2>3. ASSUME NEW h \in Handlers, NEW n \in Requested, BeginSelect(h, n)
        PROVE  SettingsInv'
    BY <1>1, <2>3, BeginSelectStep
  <2>4. ASSUME NEW h \in Handlers, BeginRestore(h) PROVE SettingsInv'
    BY <1>1, <2>4, BeginRestoreStep
  <2>5. ASSUME NEW h \in Handlers, StartFails(h) \/ Started(h) \/ FlushFails(h)
        PROVE  SettingsInv'
    BY <1>1, <2>5, WaitingStep
  <2>6. ASSUME NEW h \in Handlers, Install(h) PROVE SettingsInv'
    BY <1>1, <2>6, InstallStep
  <2>7. ASSUME NEW h \in Handlers, OldStopped(h) PROVE SettingsInv'
    BY <1>1, <2>7, OldStoppedStep
  <2>8. CASE UNCHANGED vars
    BY <1>1, <2>8 DEF vars, SettingsInv, ControlOK, RequestsInv, StartupInv, RegistryInv,
       ReportedInv, ActiveInv, ActiveUsesSettings, AskedIsReported
  <2> QED  BY <1>1, <2>1, <2>2, <2>3, <2>4, <2>5, <2>6, <2>7, <2>8 DEF Next
<1> QED  BY <1>1, InitInv, PTL DEF Spec

\* Types of the service's settings, registry, requests and processor.
THEOREM Types == Spec => []TypeOK
<1>1. SettingsInv => TypeOK
  <2> SUFFICES ASSUME SettingsInv PROVE TypeOK  OBVIOUS
  <2>1. ASSUME NEW h \in Handlers, pc[h] # "idle"
        PROVE  /\ request[h].kind \in {"update", "select"}
               /\ DOMAIN request[h].wanted \subseteq Fields
               /\ IsFields(request[h].wanted, DOMAIN request[h].wanted)
               /\ IsFields(request[h].candidate, Fields)
               /\ IsProcessor(request[h].replacement)
    BY <2>1 DEF SettingsInv, RequestsInv, RequestInv, ProcessorInv
  <2>2. IsProcessor(active)  BY DEF SettingsInv, ActiveInv, ProcessorInv
  <2> QED
    BY <2>1, <2>2 DEF TypeOK, SettingsInv, ControlOK, StartupInv, RegistryInv, ReportedInv
<1> QED  BY <1>1, SettingsInvariant, PTL

\* The active processor works with the settings that GET /api/settings reports,
\* after any number of live changes and competing requests.
THEOREM ActiveWorksWithSettings == Spec => []ActiveUsesSettings
<1>1. SettingsInv => ActiveUsesSettings  BY DEF SettingsInv, ActiveInv
<1> QED  BY <1>1, SettingsInvariant, PTL

\* Validation in the service is at least as strict as every constructor.
THEOREM WhatIsValidConstructs == Spec => []EveryProcessorConstructs
<1>1. SettingsInv => EveryProcessorConstructs
  BY DEF SettingsInv, ActiveInv, RegistryInv, ProcessorInv, AllConstruct,
     EveryProcessorConstructs
<1> QED  BY <1>1, SettingsInvariant, PTL

\* What the last request to write a setting asked for is what the settings report.
THEOREM ReportedAsAsked == Spec => []AskedIsReported
<1>1. SettingsInv => AskedIsReported  BY DEF SettingsInv, ReportedInv
<1> QED  BY <1>1, SettingsInvariant, PTL
=============================================================================
