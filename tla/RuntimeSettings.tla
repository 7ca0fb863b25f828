--------------------------- MODULE RuntimeSettings ---------------------------
(***************************************************************************)
(* The runtime settings of the server: the schemas and the flattening of   *)
(* app/main.py, the validation and the two ways of applying an update in   *)
(* service.py, and the checks that the processors' own constructors and    *)
(* start() make (registry.py, the processors, mdx23c.py).                  *)
(*                                                                         *)
(* A Settings object is a function from field names; an update is one from *)
(* some of the names.  Fractions are in percent and durations in           *)
(* milliseconds; a model or path is "" when it is blank.  Requests run as  *)
(* in TromboneService: `turn` is the handler whose code runs, or "loop".   *)
(* Packets are left out: the worker may own the lock, so that taking it    *)
(* may suspend, and flush() of a separator may raise.                      *)
(***************************************************************************)
EXTENDS Integers, Sequences

CONSTANTS
  Handlers,      \* HTTP requests in flight at once
  Environments,  \* settings the environment can ask for
  Payloads,      \* bodies of PATCH and PUT /api/settings, flattened names
  Requested,     \* names clients ask for with PUT /processor/{name}
  CudaDevices,   \* device names that start with "cuda"
  HasGpu,        \* torch.cuda.is_available()
  MaxRequests    \* bound: requests that construct a processor

HTDemucs == "htdemucs-vocals"
ConvTasNet == "convtasnet-lyrics-causal"
Mdx23c == "mdx23c-vocals"
Centre == "stereo-centre-reduction"
Separators == {HTDemucs, ConvTasNet, Mdx23c}
ProcessorNames == Separators \cup {Centre, "passthrough", "delay-passthrough", "null"}

\* The settings a factory of the registry passes to its processor.
ConfigFields(n) ==
  CASE n = HTDemucs ->
         {"demucs_model", "demucs_device", "demucs_segment", "demucs_overlap",
          "demucs_shifts", "demucs_vocal_reduction"}
    [] n = ConvTasNet ->
         {"convtasnet_model_path", "convtasnet_device", "convtasnet_segment",
          "convtasnet_vocal_reduction", "convtasnet_vocal_index",
          "convtasnet_accompaniment_index"}
    [] n = Mdx23c ->
         {"mdx23c_device", "mdx23c_segment", "mdx23c_overlap", "mdx23c_batch_size",
          "mdx23c_vocal_reduction", "mdx23c_precision"}
    [] n = Centre -> {"centre_reduction"}
    [] OTHER -> {}

\* RUNTIME_SETTING_GROUPS and "processor"
Fields == {"processor"} \cup UNION {ConfigFields(n) : n \in ProcessorNames}

\* _LIVE_APPLY_RULES: the setting each processor takes while it runs.
LiveField(n) ==
  CASE n = HTDemucs -> "demucs_vocal_reduction"
    [] n = ConvTasNet -> "convtasnet_vocal_reduction"
    [] n = Mdx23c -> "mdx23c_vocal_reduction"
    [] n = Centre -> "centre_reduction"
    [] OTHER -> "none"

\* Fields that hold text; the others hold numbers.
TextFields == {"processor", "demucs_model", "demucs_device", "convtasnet_model_path",
               "convtasnet_device", "mdx23c_device", "mdx23c_precision"}

\* A function from the fields F (Settings of config.py, a payload, a config).
IsFields(s, F) ==
  /\ s = [f \in F |-> s[f]]
  /\ \A f \in F \ TextFields : s[f] \in Int

ASSUME EnvironmentAssumption ==
  /\ "cuda" \in CudaDevices /\ {"auto", "cpu"} \cap CudaDevices = {}
  /\ HasGpu \in BOOLEAN /\ MaxRequests \in Nat /\ "loop" \notin Handlers
  /\ \A e \in Environments : IsFields(e, Fields)
  /\ \A p \in Payloads : DOMAIN p \subseteq Fields /\ IsFields(p, DOMAIN p)

\* dataclasses.replace(s, **u), and the merge of two updates
Replace(s, u) == [f \in DOMAIN s \cup DOMAIN u |-> IF f \in DOMAIN u THEN u[f] ELSE s[f]]

Precisions == {"float32", "float16", "bfloat16"}
SupportedSegments == {250, 500, 750, 1000, 1500, 2000}

VARIABLES
  startup,   \* self.startup_settings
  settings,  \* self.settings
  registry,  \* the settings self.processor_registry closes over
  active,    \* self.processor: its name, its parameters, and the request it came with
  lock,      \* _processor_lock: the requests that own it or wait for it, in order
  turn,      \* the handler whose code is running
  pc,        \* where each request is
  request,   \* its locals
  requests,  \* requests so far that constructed a processor
  asked      \* what the requests that wrote the settings asked for (history)

vars == <<startup, settings, registry, active, lock, turn, pc, request, requests, asked>>

-----------------------------------------------------------------------------
(* Who checks what.                                                        *)

Fraction(x) == 0 <= x /\ x <= 100

\* __post_init__ of the three configs (field by field, for any function that has
\* the fields), and the constructors the factories of the registry call.
HTDemucsConfig(s) ==
  /\ s.demucs_segment > 0
  /\ 0 <= s.demucs_overlap /\ s.demucs_overlap < 100
  /\ Fraction(s.demucs_vocal_reduction)
ConvTasNetConfig(s) ==
  /\ s.convtasnet_segment > 0 /\ Fraction(s.convtasnet_vocal_reduction)
  /\ s.convtasnet_vocal_index >= 0 /\ s.convtasnet_accompaniment_index >= 0
Mdx23cConfig(s) ==
  /\ s.mdx23c_segment \in SupportedSegments
  /\ 0 <= s.mdx23c_overlap /\ s.mdx23c_overlap < 50
  /\ s.mdx23c_batch_size = 1 /\ Fraction(s.mdx23c_vocal_reduction)
  /\ s.mdx23c_precision \in Precisions
Constructs(n, s) ==
  /\ n \in ProcessorNames
  /\ n = HTDemucs => HTDemucsConfig(s)
  /\ n = ConvTasNet => ConvTasNetConfig(s)
  /\ n = Mdx23c => Mdx23cConfig(s)
  /\ n = Centre => Fraction(s.centre_reduction)

\* What start() needs besides the model files: a device that there is.
DeviceOf(requested) ==
  IF requested # "auto" THEN requested ELSE IF HasGpu THEN "cuda" ELSE "cpu"
Exists(device) == HasGpu \/ device \notin CudaDevices
ResolvesMdx23c(device, precision) ==
  Exists(device) /\ (precision = "float32" \/ device \in CudaDevices)
Loads(n, s) ==
  /\ n = HTDemucs => Exists(DeviceOf(s.demucs_device))
  /\ n = ConvTasNet => Exists(DeviceOf(s.convtasnet_device))
  /\ n = Mdx23c => ResolvesMdx23c(DeviceOf(s.mdx23c_device), s.mdx23c_precision)

\* The request schemas, for the fields a payload has.
SchemaAccepts(p) ==
  \A f \in DOMAIN p :
    /\ f \in {"demucs_segment", "convtasnet_segment", "mdx23c_batch_size"} => p[f] > 0
    /\ f \in {"demucs_shifts", "convtasnet_vocal_index",
              "convtasnet_accompaniment_index"} => p[f] >= 0
    /\ f = "demucs_overlap" => (0 <= p[f] /\ p[f] < 100)
    /\ f = "mdx23c_overlap" => (0 <= p[f] /\ p[f] < 50)
    /\ f \in {LiveField(n) : n \in ProcessorNames} => Fraction(p[f])

\* _validate_runtime_settings: everything, whichever processor is selected.
ValidDemucs(s) ==
  /\ s.demucs_model # "" /\ s.demucs_segment > 0
  /\ 0 <= s.demucs_overlap /\ s.demucs_overlap < 100
  /\ s.demucs_shifts >= 0 /\ Fraction(s.demucs_vocal_reduction)
ValidConvTasNet(s) ==
  /\ s.convtasnet_model_path # "" /\ s.convtasnet_segment > 0
  /\ Fraction(s.convtasnet_vocal_reduction)
  /\ s.convtasnet_vocal_index >= 0 /\ s.convtasnet_accompaniment_index >= 0
  /\ s.convtasnet_vocal_index # s.convtasnet_accompaniment_index
\* (Mutant: the bound of the overlap is that of Demucs.)
ValidMdx23cLoosely(s) ==
  /\ s.mdx23c_segment \in SupportedSegments
  /\ 0 <= s.mdx23c_overlap /\ s.mdx23c_overlap < 100
  /\ s.mdx23c_batch_size = 1 /\ Fraction(s.mdx23c_vocal_reduction)
  /\ s.mdx23c_precision \in Precisions
ValidMdx23c(s) ==
  /\ s.mdx23c_segment \in SupportedSegments
  /\ 0 <= s.mdx23c_overlap /\ s.mdx23c_overlap < 50
  /\ s.mdx23c_batch_size = 1 /\ Fraction(s.mdx23c_vocal_reduction)
  /\ s.mdx23c_precision \in Precisions
Valid(s) ==
  /\ s.processor # ""
  /\ ValidDemucs(s) /\ ValidConvTasNet(s) /\ ValidMdx23c(s)
  /\ Fraction(s.centre_reduction)

-----------------------------------------------------------------------------
(* A processor, as far as its settings go.  Names are the attribute        *)
(* `name` of the class, which is also the registry's key.                  *)

\* ProcessorRegistry.create, for the request `via`.
Create(s, n, via) == [name |-> n, config |-> [f \in ConfigFields(n) |-> s[f]], via |-> via]

NoRequest == [kind |-> "none", wanted |-> <<>>, candidate |-> <<>>, replacement |-> <<>>]

\* TromboneService.__init__ and start(): the server comes up or it exits.
Init ==
  /\ startup \in {e \in Environments :
                    Constructs(e.processor, e) /\ Loads(e.processor, e)}
  /\ settings = startup /\ registry = startup
  /\ active = Create(startup, startup.processor, "startup")
  /\ lock = <<>> /\ turn = "loop"
  /\ pc = [h \in Handlers |-> "idle"]
  /\ request = [h \in Handlers |-> NoRequest]
  /\ requests = 0 /\ asked = <<>>

CanBegin(h) == turn = "loop" /\ pc[h] = "idle" /\ requests < MaxRequests

\* `async with lock`, which suspends if anybody owns it, the worker included.
Acquire(h) ==
  /\ lock' = Append(lock, h)
  /\ turn' \in IF lock = <<>> THEN {h, "loop"} ELSE {"loop"}

\* Construct the replacement and call its start(): a separator's loads a model
\* in a thread, every other one goes straight on to the lock.
Begin(h, r) ==
  /\ CanBegin(h)
  /\ requests' = requests + 1
  /\ request' = [request EXCEPT ![h] = r]
  /\ IF r.replacement.name \in Separators
     THEN pc' = [pc EXCEPT ![h] = "starting"] /\ UNCHANGED <<lock, turn>>
     ELSE pc' = [pc EXCEPT ![h] = "locking"] /\ Acquire(h)
  /\ UNCHANGED <<startup, settings, registry, active, asked>>

\* _flatten_updates: the fields that differ from the current settings.
\* (Mutant: that differ from the startup settings.)
FlattenedOnce(p) ==
  [f \in {g \in DOMAIN p : p[g] # startup[g]} |-> p[f]]
Flattened(p) == [f \in {g \in DOMAIN p : p[g] # settings[g]} |-> p[f]]

\* _find_live_apply_rule: a single field, that the active processor takes.
LiveRule(u) == DOMAIN u = {LiveField(active.name)}

\* Only a nonempty update of valid settings goes on; the others answer at once.
Accepted(p) ==
  SchemaAccepts(p) /\ DOMAIN Flattened(p) # {} /\ Valid(Replace(settings, Flattened(p)))

\* (Mutant: the active processor keeps its value.)
NotTaken(u) == active.config
Taken(u) == Replace(active.config, u)

LiveApply(p) ==
  /\ turn = "loop"
  /\ Accepted(p) /\ LiveRule(Flattened(p))
  /\ settings' = Replace(settings, Flattened(p))
  /\ active' = [active EXCEPT !.config = Taken(Flattened(p))]
  /\ asked' = Replace(asked, p)
  /\ UNCHANGED <<startup, registry, lock, turn, pc, request, requests>>

BeginUpdate(h, p) ==
  LET candidate == Replace(settings, Flattened(p))
  IN  /\ Accepted(p) /\ ~LiveRule(Flattened(p))
      /\ Constructs(candidate.processor, candidate)
      /\ Begin(h, [kind |-> "update", wanted |-> Replace(asked, p), candidate |-> candidate,
                   replacement |-> Create(candidate, candidate.processor, "update")])

\* DELETE: an update of every field, with the startup values.
BeginRestore(h) ==
  /\ Valid(startup) /\ Constructs(startup.processor, startup)
  /\ Begin(h, [kind |-> "update", wanted |-> startup, candidate |-> startup,
               replacement |-> Create(startup, startup.processor, "update")])

BeginSelect(h, n) ==
  /\ Constructs(n, registry)
  /\ Begin(h, [kind |-> "select", wanted |-> [processor |-> n], candidate |-> settings,
               replacement |-> Create(registry, n, "select")])

-----------------------------------------------------------------------------
(* The rest of a request.                                                  *)

Loaded(h) == LET r == request[h].replacement IN Loads(r.name, r.config)

StartFails(h) ==
  /\ turn = "loop" /\ pc[h] = "starting"
  /\ pc' = [pc EXCEPT ![h] = "idle"] /\ request' = [request EXCEPT ![h] = NoRequest]
  /\ UNCHANGED <<startup, settings, registry, active, lock, turn, requests, asked>>

Started(h) ==
  /\ turn = "loop" /\ pc[h] = "starting" /\ Loaded(h)
  /\ pc' = [pc EXCEPT ![h] = "locking"]
  /\ Acquire(h)
  /\ UNCHANGED <<startup, settings, registry, active, request, requests, asked>>

InLock(h) == pc[h] = "locking" /\ Head(lock) = h /\ turn \in {"loop", h}

Leave(h) ==
  /\ lock' = Tail(lock) /\ turn' = "loop"
  /\ pc' = [pc EXCEPT ![h] = "idle"] /\ request' = [request EXCEPT ![h] = NoRequest]

\* The old processor's flush() raises the failure of its inference.
FlushFails(h) ==
  /\ InLock(h) /\ active.name \in Separators
  /\ Leave(h)
  /\ UNCHANGED <<startup, settings, registry, active, requests, asked>>

\* The switch.  stop() of a separator may suspend, with the lock held.
Install(h) ==
  /\ InLock(h)
  /\ active' = request[h].replacement
  /\ IF request[h].kind = "update"
     THEN /\ registry' = request[h].candidate
          /\ settings' = request[h].candidate
          /\ asked' = request[h].wanted
     ELSE UNCHANGED <<registry, settings, asked>>
  /\ pc' = [pc EXCEPT ![h] = "stopping"]
  /\ turn' \in IF active.name \in Separators THEN {h, "loop"} ELSE {h}
  /\ UNCHANGED <<startup, lock, request, requests>>

\* select_processor records the name once the old processor has stopped.
OldStopped(h) ==
  /\ pc[h] = "stopping" /\ turn \in {"loop", h}
  /\ IF request[h].kind = "select"
     THEN /\ settings' = Replace(settings, request[h].wanted)
          /\ asked' = Replace(asked, request[h].wanted)
     ELSE UNCHANGED <<settings, asked>>
  /\ Leave(h)
  /\ UNCHANGED <<startup, registry, active, requests>>

Next ==
  \/ \E p \in Payloads : LiveApply(p)
  \/ \E h \in Handlers :
       \/ \E p \in Payloads : BeginUpdate(h, p)
       \/ \E n \in Requested : BeginSelect(h, n)
       \/ BeginRestore(h)
       \/ StartFails(h) \/ Started(h) \/ FlushFails(h) \/ Install(h) \/ OldStopped(h)

Spec == Init /\ [][Next]_vars
-----------------------------------------------------------------------------
(* Properties.                                                             *)

\* Settings, registry, processor and requests in flight are well formed: no
\* field is added to them or lost on the way through flattening and replace().
IsProcessor(p) ==
  /\ p.name \in ProcessorNames /\ p.via \in {"startup", "update", "select"}
  /\ IsFields(p.config, ConfigFields(p.name))
TypeOK ==
  /\ IsFields(startup, Fields) /\ IsFields(settings, Fields) /\ IsFields(registry, Fields)
  /\ IsProcessor(active)
  /\ DOMAIN asked \subseteq Fields /\ IsFields(asked, DOMAIN asked)
  /\ requests \in 0..MaxRequests /\ turn \in Handlers \cup {"loop"}
  /\ pc \in [Handlers -> {"idle", "starting", "locking", "stopping"}]
  /\ request = [h \in Handlers |-> request[h]]
  /\ \A h \in Handlers : pc[h] # "idle" =>
       /\ request[h].kind \in {"update", "select"}
       /\ DOMAIN request[h].wanted \subseteq Fields
       /\ IsFields(request[h].wanted, DOMAIN request[h].wanted)
       /\ IsFields(request[h].candidate, Fields)
       /\ IsProcessor(request[h].replacement)

\* "A processor-specific setting must remain consistent across configuration,
\* registry construction, service validation" (docs/architecture.md): a processor
\* that came up at startup or with an update has the parameters the settings
\* report, whatever live changes and competing requests there were since.
\* (Not one that came with PUT /processor: see ActiveLevelMatchesSettings.)
ActiveUsesSettings ==
  active.via # "select" =>
    \A f \in ConfigFields(active.name) : active.config[f] = settings[f]

\* Two places check the values: the service for an update, every constructor for
\* itself.  What the service lets through, all the constructors accept, so that
\* after an update every processor can be selected and listed; and the active
\* one, live changes included, has values its own constructor would accept.
EveryProcessorConstructs ==
  /\ registry = startup \/ \A n \in ProcessorNames : Constructs(n, registry)
  /\ Constructs(active.name, active.config)

\* Reading the settings gives the value last asked for, also where the request
\* asks for the startup value again, or for several fields of which some do not
\* change.  (An update speaks for every field as of the moment it began.)
AskedIsReported == \A f \in DOMAIN asked : settings[f] = asked[f]
=============================================================================
