----------------------------- MODULE SwarmFiles ------------------------------
(***************************************************************************)
(* The commands of gsp that read and write documents, one at a time and in *)
(* any order: "add" and "bump" write an overlay; "materialize" parses the  *)
(* state in a file, folds overlays into it event by event, resolves it     *)
(* against the verified log if --resolve is given, and writes what the     *)
(* next command parses; "vendor" parses it, authenticates it and fetches.  *)
(* A command that fails leaves the files as they were.                     *)
(***************************************************************************)
EXTENDS SwarmDocument

CONSTANTS
  Documents,     \* the states that a person wrote
  Overlays,      \* and the overlays
  Packages, Models, Backends,    \* references given to "gsp add"
  NodeNames, Fields,             \* nodes, and slots given to "gsp bump"
  Releases,      \* verified logs: the releases that are active
  MaxOverlays,   \* bound: overlays written
  NoFile

(* What "gsp add" and "gsp bump" write                                     *)

\* refMapJSON and modelMapJSON: a package named as a model is its policy.
RefMap(ref, kind) ==
  IF kind = "" THEN [ref |-> Str(ref)] ELSE [ref |-> Str(ref), kind |-> Str(kind)]
ModelMap(ref) ==
  IF SchemeOf(ref) = "swarmidx" THEN [policy |-> Obj(RefMap(ref, "data"))] ELSE RefMap(ref, "")

AddedAgent(name, ref, model, backend) ==
  [name |-> Str(name), body |-> Obj(RefMap(ref, "data")), model |-> Obj(ModelMap(model)),
   backend |-> Obj(RefMap(backend, ""))]
AddedObject(name, ref) == [name |-> Str(name), handler |-> Obj(RefMap(ref, "code"))]
BumpTo(target, field, from, to) ==
  [target |-> Str(target), field |-> Str(field), from |-> Str(from), to |-> Str(to)]

OverlayOf(op, payload) ==
  [v |-> Num(1), kind |-> Str("swarm.overlay"), swarm |-> Str("swarm"), apply |-> Str("incremental"),
   events |-> Arr(<<Obj([seq |-> Num(1), op |-> Str(op), payload |-> Obj(payload)])>>)]

Emitted ==
  {OverlayOf("add_agent", AddedAgent(name, ref, model, backend)) :
     name \in NodeNames, ref \in Packages, model \in Models, backend \in Backends}
  \cup {OverlayOf("add_object", AddedObject(name, ref)) : name \in NodeNames, ref \in Packages}
  \cup {OverlayOf("bump_package", BumpTo(target, field, from, to)) :
     target \in NodeNames, field \in Fields, from, to \in Digests}

\* The events of overlays that can be folded.
Events ==
  UNION {{EventsOf(m)[i] : i \in DOMAIN EventsOf(m)} : m \in {m \in Overlays \cup Emitted : GoodOverlay(m)}}

ASSUME FileAssumption ==
  /\ Packages \cup Models \cup Backends \subseteq DOMAIN Split
  /\ \A m \in Overlays :
       Type(m, "events") = "array" =>
         Len(Map(m, "events")) \in Nat /\ DOMAIN Map(m, "events") = 1..Len(Map(m, "events"))
  /\ \A e \in Events : e.op # "scale_agent_group"
  /\ NoFile \notin Overlays \cup Emitted
  /\ \A releases \in Releases : \A ref \in DOMAIN releases : releases[ref].digest \in Digests
  /\ MaxOverlays \in Nat

VARIABLES
  file,      \* a swarm.state on disk
  overlay,   \* a swarm.overlay on disk
  state,     \* what the running command has in memory, or NoState
  pending,   \* events of the overlay that it has yet to fold
  phase,     \* of the command that is running, or how the last one ended
  count      \* overlays written so far

vars == <<file, overlay, state, pending, phase, count>>

Init ==
  /\ file \in Documents
  /\ overlay = NoFile
  /\ state = NoState
  /\ pending = <<>>
  /\ phase = "done"
  /\ count = 0

Idle == phase \in {"done", "failed"}

-----------------------------------------------------------------------------
(* Writing overlays                                                        *)

WriteOverlay(m) ==
  /\ Idle /\ overlay = NoFile /\ count < MaxOverlays
  /\ overlay' = m
  /\ count' = count + 1
  /\ UNCHANGED <<file, state, pending, phase>>

\* emitOverlay: only what ParseOverlay accepts is written, so also only what SchemeOf accepts.
EmitOverlay(op, payload) == GoodOverlay(OverlayOf(op, payload)) /\ WriteOverlay(OverlayOf(op, payload))

AddAgent(name, ref, model, backend) == EmitOverlay("add_agent", AddedAgent(name, ref, model, backend))
AddObject(name, ref) == EmitOverlay("add_object", AddedObject(name, ref))
Bump(target, field, from, to) == EmitOverlay("bump_package", BumpTo(target, field, from, to))

-----------------------------------------------------------------------------
(* cmdMaterialize                                                          *)

\* ParseState of the seed.
ReadState ==
  /\ Idle /\ GoodState(file)
  /\ state' = StateOf(file)
  /\ phase' = "folding"
  /\ UNCHANGED <<file, overlay, pending, count>>

\* ParseOverlay; an overlay is used once.
ReadOverlay ==
  /\ phase = "folding" /\ pending = <<>> /\ overlay # NoFile
  /\ GoodOverlay(overlay)
  /\ pending' = EventsOf(overlay)
  /\ overlay' = NoFile
  /\ UNCHANGED <<file, state, phase, count>>

FoldEvent ==
  /\ phase = "folding" /\ pending # <<>>
  /\ state' \in Results(state, Head(pending))
  /\ pending' = Tail(pending)
  /\ UNCHANGED <<file, overlay, phase, count>>

Resolve(releases) ==
  /\ phase = "folding" /\ pending = <<>>
  /\ AllAuthentic(state, releases)
  /\ state' = Pinned(state, releases)
  /\ phase' = "resolved"
  /\ UNCHANGED <<file, overlay, pending, count>>

Emit ==
  /\ phase = "resolved" \/ (phase = "folding" /\ pending = <<>>)
  /\ file' = StateToMap(state)
  /\ state' = NoState
  /\ phase' = "done"
  /\ UNCHANGED <<overlay, pending, count>>

\* A seed that does not parse is refused at once.  An overlay that was refused is not
\* given again.
Fail ==
  /\ \/ Idle /\ ~GoodState(file) /\ UNCHANGED overlay
     \/ /\ phase = "folding" /\ pending = <<>> /\ overlay # NoFile
        /\ ~GoodOverlay(overlay)
        /\ overlay' = NoFile
     \/ /\ phase = "folding" /\ pending # <<>>
        /\ Results(state, Head(pending)) = {}
        /\ UNCHANGED overlay
     \/ /\ phase \in {"folding", "vendoring"} /\ pending = <<>>
        /\ \E releases \in Releases : ~AllAuthentic(state, releases)
        /\ UNCHANGED overlay
  /\ phase' = "failed"
  /\ state' = NoState
  /\ pending' = <<>>
  /\ UNCHANGED <<file, count>>

-----------------------------------------------------------------------------
(* cmdVendor                                                               *)

ReadForVendor ==
  /\ Idle /\ GoodState(file)
  /\ SwarmidxRefs(StateOf(file)) # {}
  /\ state' = StateOf(file)
  /\ phase' = "vendoring"
  /\ UNCHANGED <<file, overlay, pending, count>>

Authenticate(releases) ==
  /\ phase = "vendoring"
  /\ AllAuthentic(state, releases)
  /\ state' = Pinned(state, releases)
  /\ phase' = "authenticated"
  /\ UNCHANGED <<file, overlay, pending, count>>

\* VendorAll takes over (see VendorTransaction); the pins are not written to the file.
HandOverPins ==    \* a mutant: they are
  /\ phase = "authenticated"
  /\ file' = StateToMap(state)
  /\ state' = NoState
  /\ phase' = "done"
  /\ UNCHANGED <<overlay, pending, count>>
HandOver ==
  /\ phase = "authenticated"
  /\ state' = NoState
  /\ phase' = "done"
  /\ UNCHANGED <<file, overlay, pending, count>>

-----------------------------------------------------------------------------
Write ==
  \/ \E m \in Overlays : WriteOverlay(m)
  \/ \E name \in NodeNames, ref \in Packages, model \in Models, backend \in Backends :
       AddAgent(name, ref, model, backend)
  \/ \E name \in NodeNames, ref \in Packages : AddObject(name, ref)
  \/ \E target \in NodeNames, field \in Fields, from, to \in Digests :
       Bump(target, field, from, to)

Materialize ==
  \/ ReadState \/ ReadOverlay \/ FoldEvent \/ Emit \/ Fail
  \/ \E releases \in Releases : Resolve(releases)

Vendor ==
  \/ ReadForVendor \/ HandOver
  \/ \E releases \in Releases : Authenticate(releases)

Next == Write \/ Materialize \/ Vendor

Spec == Init /\ [][Next]_vars

-----------------------------------------------------------------------------
(* Properties                                                              *)

\* A command has a state in memory while it runs, an overlay on disk is one that
\* somebody wrote, and a file that a command wrote is one that the next can read.
TypeOK ==
  /\ phase \in {"done", "failed", "folding", "resolved", "vendoring", "authenticated"}
  /\ state = NoState <=> Idle
  /\ overlay \in Overlays \cup Emitted \cup {NoFile}
  /\ pending # <<>> => phase = "folding"
  /\ pending \in Seq(Events)
  /\ file \in Documents \/ GoodState(file)
  /\ count \in 0..MaxOverlays

\* encode.go: "so a materialized state round-trips".  Whatever was parsed, folded and
\* pinned, what would be written now is parsed to the very state in memory: explicit
\* nulls, empty maps, refused keys and all.
CheckpointExact ==
  state # NoState => GoodState(StateToMap(state)) /\ StateOf(StateToMap(state)) = state

\* "gsp vendor" fetches, and resolution pins, every package that a state in memory names
\* in whatever slot: the list of references that are fetched and the slots that are
\* authenticated are walked by different code, and neither looks at backends.
PackagesAuthenticated ==
  phase \in {"resolved", "authenticated"} =>
    \A r \in Refs(state) : r.scheme = "swarmidx" => r.ref \in SwarmidxRefs(state) /\ Resolved(r)

\* What a person would find written if the running command wrote now.
View == IF state = NoState THEN file ELSE StateToMap(state)
NodeMaps(m, lists) == UNION {{v[2] : v \in List(m, k)} : k \in lists}

\* The node that the next event adds, and the configuration it gives to a node.
Adds(ops) == {Head(pending).payload : i \in {i \in {1} \cap DOMAIN pending : pending[i].op \in ops}}
MapIn(m, k) == IF Type(m, k) = "object" THEN Map(m, k) ELSE NoKeys
ConfigIn(m) == MapIn(m, "config")
Expected(m) ==
  IF /\ pending # <<>> /\ Head(pending).op = "update_config"
     /\ String(Head(pending).payload, "target") = String(m, "name")
  THEN Merge(ConfigIn(m), Map(Head(pending).payload, "config"))
  ELSE ConfigIn(m)

\* The options that it gives to the swarm.
OptionsIn(m) == MapIn(m, "options")
ExpectedOptions(m) ==
  IF pending # <<>> /\ Head(pending).op = "set_options"
  THEN Merge(OptionsIn(m), Map(Head(pending).payload, "options"))
  ELSE OptionsIn(m)
Proceeds == phase' # "failed" /\ (state # NoState \/ GoodState(file))

\* ref.go: "materializing a backend must not silently discard its isolation options".
\* From the file or the event that an agent is read from, through every event and
\* resolution, to the file that is written, its backend keeps its reference, host, image,
\* client and options, whatever the scheme: options that are null or empty too.  A host
\* that is no string is the exception: it is dropped, where an image is refused.
Stated(m, k) ==
  CASE k = "opts" -> k \in DOMAIN m
    [] k = "host" -> String(m, k) # ""
    [] OTHER -> At(m, k) # Null
BackendKept ==
  [][Proceeds =>
       \A m \in NodeMaps(View, {"agents"}) \cup Adds({"add_agent"}), n \in NodeMaps(View', {"agents"}) :
         String(m, "name") = String(n, "name") =>
           \A k \in {"ref", "kind", "host", "image", "client", "opts"} :
             Stated(Map(m, "backend"), k) => At(Map(n, "backend"), k) = At(Map(m, "backend"), k)]_vars

\* encode.go: a state "round-trips and can feed the genswarms runtime".  A node's
\* configuration, and the swarm's options, reach the file that is written as they stood in
\* the file, or the events, that they came from.
ConfigKept ==
  [][Proceeds =>
       /\ OptionsIn(View') = ExpectedOptions(View)
       /\ \A m \in NodeMaps(View, {"agents", "objects"}) \cup Adds({"add_agent", "add_object"}),
             n \in NodeMaps(View', {"agents", "objects"}) :
            String(m, "name") = String(n, "name") => ConfigIn(n) = Expected(m)]_vars

\* What the theorems about the two ask of the documents and events that are given: JSON
\* values, with integers that float64 holds in backends, configurations and options.
WellFormed(v) == IF v[1] = "null" THEN v = Null ELSE v = <<v[1], v[2]>>
ExactMap(m, k) == Type(m, k) = "object" => Map(m, k) = DecodedMap(Map(m, k))
ExactBackend(m) ==
  LET backend == Map(m, "backend")
  IN /\ \A k \in {"ref", "kind", "host", "image", "opts"} : WellFormed(At(backend, k))
     /\ Decoded(At(backend, "client")) = At(backend, "client")
     /\ ExactMap(backend, "opts")
ExactBackends(documents) ==
  /\ \A d \in documents : GoodState(d) => \A m \in NodeMaps(d, {"agents"}) : ExactBackend(m)
  /\ \A e \in Events : e.op = "add_agent" => ExactBackend(e.payload)
ExactConfigs(documents) ==
  /\ \A d \in documents :
       GoodState(d) => /\ ExactMap(d, "options")
                       /\ \A m \in NodeMaps(d, {"agents", "objects"}) : ExactMap(m, "config")
  /\ \A e \in Events :
       /\ e.op = "set_options" => ExactMap(e.payload, "options")
       /\ e.op \in {"add_agent", "add_object", "update_config"} => ExactMap(e.payload, "config")

\* A state in memory satisfies all that the parser asked of the documents it came from.
SoundRef(r) ==
  /\ r = WithDigest(r, r.digest)
  /\ r.ref # "" /\ GoodScheme(r.ref) /\ r.scheme = SchemeOf(r.ref)
  /\ r.kind \in {"data", "code"} \/ (r.kind = "" /\ r.scheme \notin ContentAddressable)
  /\ r.scheme = "ssh" => r.host # ""
  /\ r.scheme = "tmux" => StringOf(r.client) \in Clients
  /\ r.client = Decoded(r.client)
  /\ r.attested \in BOOLEAN /\ r.optsPresent \in BOOLEAN
  /\ r.opts = Null \/ (r.optsPresent /\ r.opts = Obj(DecodedMap(r.opts[2])))
SoundMap(c) == c = DecodedMap(c)
SoundAgent(a) ==
  /\ a = AgentWith(a, a.body, a.model, a.backend, a.config) /\ a.name # ""
  /\ SoundRef(a.body) /\ a.body.kind = "data"
  /\ SoundRef(a.backend) /\ a.backend.scheme # "swarmidx"
  /\ a.model = [slot |-> a.model.slot, ref |-> a.model.ref] /\ SoundRef(a.model.ref)
  /\ \/ a.model.slot = "policy" /\ a.model.ref.kind = "data"
     \/ a.model.slot = "service" /\ a.model.ref.scheme # "swarmidx"
  /\ SoundMap(a.overrides) /\ SoundMap(a.config)
SoundObject(o) ==
  /\ o = ObjectWith(o, o.handler, o.config) /\ o.name # ""
  /\ SoundRef(o.handler) /\ o.handler.kind = "code"
  /\ SoundMap(o.config)
SoundState(s) ==
  /\ s = State(s.name, s.phase, s.agents, s.objects, s.topology, s.options)
  /\ s.name # "" /\ s.phase \in {"desired", "observed"}
  /\ \A a \in s.agents : SoundAgent(a)
  /\ \A o \in s.objects : SoundObject(o)
  /\ UniqueNames(s) /\ ValidEdges(s)
  /\ SoundMap(s.options)

\* The inductive invariant: after authentication, every package slot has its digest.
Authenticated(r) == r.scheme = "swarmidx" => r.digest \in Digests
IInv ==
  /\ TypeOK
  /\ state # NoState => SoundState(state)
  /\ phase \in {"resolved", "authenticated"} =>
       /\ \A a \in state.agents : Authenticated(a.body) /\ Authenticated(a.model.ref)
       /\ \A o \in state.objects : Authenticated(o.handler)

\* Files are as good as memory: see SwarmMemory.
Initially == {StateOf(m) : m \in {m \in Documents : GoodState(m)}}
Step(s, t) == \E e \in Events : t \in Results(s, e)
Pin(s, t) == \E releases \in Releases : AllAuthentic(s, releases) /\ t = Pinned(s, releases)
Memory == INSTANCE SwarmMemory WITH
  States <- Initially,
  current <- IF GoodState(file) THEN StateOf(file) ELSE NoState,
  work <- IF phase \in {"folding", "resolved"} THEN state ELSE NoState
ImplementsMemory == Memory!Spec
=============================================================================
