---------------------------- MODULE SwarmDocument ----------------------------
(***************************************************************************)
(* The documents of gsp: how a swarm.state and a swarm.overlay are read,   *)
(* what an event makes of the state that was read, and how the state is    *)
(* written again.                                                          *)
(*                                                                         *)
(* A JSON value is a pair of its type and its content.  An object's        *)
(* content is a function of the keys that are present.  An array of nodes  *)
(* or edges has a set for its content (no node or edge is written twice);  *)
(* an array of events, and the two ends of an edge, have a sequence.  A    *)
(* number is an integer: one with a fraction is of a type of its own.      *)
(***************************************************************************)
EXTENDS Integers, Sequences, FiniteSets

CONSTANTS
  Split,     \* what strings.SplitN(ref, ":", 2) makes of a string
  Digests,   \* the strings that are an algorithm, a colon and hexadecimal digits
  Exact      \* float64 holds every integer up to this one (2^53), and then the even ones

ASSUME DocumentAssumption ==
  /\ Split \in [DOMAIN Split -> Seq(STRING)] /\ \A s \in DOMAIN Split : Split[s] # <<>>
  /\ "" \notin Digests
  /\ Exact \in Nat \ {0}

-----------------------------------------------------------------------------
(* JSON values, as encoding/json decodes them into an "any"                *)

Str(s) == <<"string", s>>
Num(n) == <<"number", n>>
Obj(m) == <<"object", m>>
Arr(s) == <<"array", s>>
True == <<"boolean", TRUE>>
Null == <<"null">>
NoKeys == [k \in {} |-> Null]

\* A key that is absent reads as null.
At(m, k) == IF k \in DOMAIN m THEN m[k] ELSE Null
Type(m, k) == At(m, k)[1]
StringOf(v) == IF v[1] = "string" THEN v[2] ELSE ""
String(m, k) == StringOf(At(m, k))
Map(m, k) == At(m, k)[2]
List(m, k) == IF Type(m, k) = "array" THEN At(m, k)[2] ELSE {}

\* The nearest float64 of an integer below twice Exact (and not far below 0): an odd one
\* that is too large becomes its neighbour that is a multiple of four.
Float(n) ==
  IF n \in Nat /\ n > Exact /\ n % 2 = 1
  THEN IF (n - 1) % 4 = 0 THEN n - 1 ELSE n + 1
  ELSE n
Integer(m, k) == Float(Map(m, k))

\* What is not looked into is kept as it was decoded.
Decoded(v) == IF v[1] = "number" THEN Num(Float(v[2])) ELSE v
DecodedMap(m) == [k \in DOMAIN m |-> Decoded(m[k])]

\* asStringMap: anything but an object is the empty map.
StringMap(m, k) == IF Type(m, k) = "object" THEN DecodedMap(Map(m, k)) ELSE NoKeys

-----------------------------------------------------------------------------
(* ref.go: references                                                      *)

ContentAddressable == {"swarmidx", "oci"}
Bare == {"ssh", "host", "local", "bwrap", "mock", "apple_container", "tmux"}
Clients == {"codex", "claude", "opencode"}

GoodScheme(ref) ==
  /\ ref \in DOMAIN Split
  /\ \/ Len(Split[ref]) = 2 /\ Split[ref][1] # "" /\ Split[ref][2] # ""
     \/ Len(Split[ref]) = 1 /\ Split[ref][1] \in Bare
SchemeOf(ref) == Split[ref][1]

GoodKind(m, scheme) ==
  IF Type(m, "kind") = "null" THEN scheme \notin ContentAddressable
                              ELSE String(m, "kind") \in {"data", "code"}

GoodExecution(m, scheme) ==
  /\ Type(m, "image") = "null" \/ String(m, "image") # ""
  /\ scheme = "tmux" => String(m, "client") \in Clients
  /\ Type(m, "opts") \in {"null", "object"}

\* Everything that ParseRef checks.
GoodRef(m) ==
  LET ref == String(m, "ref")
  IN /\ ref # "" /\ GoodScheme(ref)
     /\ GoodKind(m, SchemeOf(ref))
     /\ SchemeOf(ref) = "ssh" => String(m, "host") # ""
     /\ GoodExecution(m, SchemeOf(ref))
     /\ Type(m, "attested") \in {"null", "boolean"}

\* What it returns.  Digests and hosts that are not strings are dropped.  The options of a
\* reference are null or an object; optsPresent tells null from absent.
RefOf(m) ==
  [ref |-> String(m, "ref"), scheme |-> SchemeOf(String(m, "ref")),
   digest |-> String(m, "digest"), kind |-> String(m, "kind"),
   attested |-> At(m, "attested") = True,
   host |-> String(m, "host"), image |-> String(m, "image"),
   client |-> Decoded(At(m, "client")),
   opts |-> IF Type(m, "opts") = "object" THEN Obj(DecodedMap(Map(m, "opts"))) ELSE Null,
   optsPresent |-> "opts" \in DOMAIN m]

WithDigest(r, digest) ==
  [ref |-> r.ref, scheme |-> r.scheme, digest |-> digest, kind |-> r.kind,
   attested |-> r.attested, host |-> r.host, image |-> r.image, client |-> r.client,
   opts |-> r.opts, optsPresent |-> r.optsPresent]

\* refToMap: which keys are written, and with what.
RefKeysNoNull(r) ==    \* a mutant: options that were null are left out
  {"ref"} \cup {k \in {"kind", "digest", "host", "image"} : r[k] # ""}
          \cup {k \in {"attested"} : r.attested} \cup {k \in {"client"} : r.client # Null}
          \cup {k \in {"opts"} : r.opts # Null}
RefKeysNoClient(r) ==    \* a mutant: the client is only written for tmux
  {"ref"} \cup {k \in {"kind", "digest", "host", "image"} : r[k] # ""}
          \cup {k \in {"attested"} : r.attested}
          \cup {k \in {"client"} : r.scheme = "tmux"} \cup {k \in {"opts"} : r.optsPresent}
RefKeys(r) ==
  {"ref"} \cup {k \in {"kind", "digest", "host", "image"} : r[k] # ""}
          \cup {k \in {"attested"} : r.attested} \cup {k \in {"client"} : r.client # Null}
          \cup {k \in {"opts"} : r.optsPresent}
RefToMap(r) ==
  LET written == [ref |-> Str(r.ref), kind |-> Str(r.kind), digest |-> Str(r.digest),
                  host |-> Str(r.host), image |-> Str(r.image), attested |-> True,
                  client |-> r.client, opts |-> r.opts]
  IN [k \in RefKeys(r) |-> written[k]]

\* Ref.ValidateResolved: exactly the content-addressable references carry a digest.
Resolved(r) ==
  IF r.scheme \in ContentAddressable THEN r.digest \in Digests ELSE r.digest = ""

-----------------------------------------------------------------------------
(* state.go and encode.go: nodes and states                                *)

GoodTypedRef(m, slot, kind) ==
  Type(m, slot) = "object" /\ GoodRef(Map(m, slot)) /\ String(Map(m, slot), "kind") = kind

GoodBackendAnyScheme(m) ==    \* a mutant: a backend may be a package
  Type(m, "backend") = "object" /\ GoodRef(Map(m, "backend"))
GoodBackend(m) ==
  /\ Type(m, "backend") = "object" /\ GoodRef(Map(m, "backend"))
  /\ SchemeOf(String(Map(m, "backend"), "ref")) # "swarmidx"

\* A model is {policy: reference}, or else it is the reference of a service itself.
HasPolicy(m) == Type(Map(m, "model"), "policy") = "object"
GoodModel(m) ==
  /\ Type(m, "model") = "object"
  /\ IF HasPolicy(m) THEN GoodTypedRef(Map(m, "model"), "policy", "data")
     ELSE /\ GoodRef(Map(m, "model"))
          /\ SchemeOf(String(Map(m, "model"), "ref")) # "swarmidx"
ModelOf(m) ==
  IF HasPolicy(m) THEN [slot |-> "policy", ref |-> RefOf(Map(Map(m, "model"), "policy"))]
                  ELSE [slot |-> "service", ref |-> RefOf(Map(m, "model"))]
ModelToMap(model) ==
  IF model.slot = "policy" THEN [policy |-> Obj(RefToMap(model.ref))] ELSE RefToMap(model.ref)

GoodAgent(m) ==
  String(m, "name") # "" /\ GoodTypedRef(m, "body", "data") /\ GoodModel(m) /\ GoodBackend(m)
AgentOf(m) ==
  [name |-> String(m, "name"), body |-> RefOf(Map(m, "body")), model |-> ModelOf(m),
   backend |-> RefOf(Map(m, "backend")), overrides |-> StringMap(m, "overrides"),
   config |-> StringMap(m, "config")]
AgentToMap(a) ==
  LET written == [name |-> Str(a.name), body |-> Obj(RefToMap(a.body)),
                  model |-> Obj(ModelToMap(a.model)), backend |-> Obj(RefToMap(a.backend)),
                  overrides |-> Obj(a.overrides), config |-> Obj(a.config)]
  IN [k \in {"name", "body", "model", "backend"} \cup
            {k \in {"overrides", "config"} : DOMAIN a[k] # {}} |-> written[k]]

GoodObject(m) == String(m, "name") # "" /\ GoodTypedRef(m, "handler", "code")
ObjectOf(m) ==
  [name |-> String(m, "name"), handler |-> RefOf(Map(m, "handler")), config |-> StringMap(m, "config")]
ObjectToMap(o) ==
  LET written == [name |-> Str(o.name), handler |-> Obj(RefToMap(o.handler)), config |-> Obj(o.config)]
  IN [k \in {"name", "handler"} \cup {k \in {"config"} : DOMAIN o[k] # {}} |-> written[k]]

GoodEdge(e) ==
  e[1] = "array" /\ Len(e[2]) = 2 /\ e[2][1][1] = "string" /\ e[2][2][1] = "string"
EdgeOf(e) == <<e[2][1][2], e[2][2][2]>>
EdgeToArray(edge) == Arr(<<Str(edge[1]), Str(edge[2])>>)

State(name, phase, agents, objects, topology, options) ==
  [name |-> name, phase |-> phase, agents |-> agents, objects |-> objects,
   topology |-> topology, options |-> options]
NoState == State("", "", {}, {}, {}, NoKeys)    \* ir.State{}: what a parser returns with an error
StateOf(m) ==
  State(String(m, "name"), String(m, "phase"),
        {AgentOf(v[2]) : v \in List(m, "agents")}, {ObjectOf(v[2]) : v \in List(m, "objects")},
        {EdgeOf(e) : e \in List(m, "topology")}, StringMap(m, "options"))

\* uniqueNames and validEdges.
Nodes(s) == s.agents \cup s.objects
NamesIn(s) == {x.name : x \in Nodes(s)}
UniqueNames(s) == \A x, y \in Nodes(s) : x.name = y.name => x = y
ValidEdges(s) == s.topology \subseteq NamesIn(s) \X NamesIn(s)

GoodHeader(m, kind) ==
  Type(m, "v") = "number" /\ Integer(m, "v") = 1 /\ String(m, "kind") = kind

\* Everything that ParseStateMap checks.  Objects that are not an array are dropped; a
\* topology that is present must be one.
GoodState(m) ==
  /\ GoodHeader(m, "swarm.state") /\ String(m, "name") # ""
  /\ String(m, "phase") \in {"desired", "observed"}
  /\ Type(m, "agents") = "array"
  /\ \A v \in List(m, "agents") : v[1] = "object" /\ GoodAgent(v[2])
  /\ \A v \in List(m, "objects") : v[1] = "object" /\ GoodObject(v[2])
  /\ "topology" \in DOMAIN m => Type(m, "topology") = "array"
  /\ \A e \in List(m, "topology") : GoodEdge(e)
  /\ LET s == StateOf(m) IN UniqueNames(s) /\ ValidEdges(s)

StateToMap(s) ==
  LET written == [v |-> Num(1), kind |-> Str("swarm.state"), name |-> Str(s.name),
                  phase |-> Str(s.phase), agents |-> Arr({Obj(AgentToMap(a)) : a \in s.agents}),
                  objects |-> Arr({Obj(ObjectToMap(o)) : o \in s.objects}),
                  topology |-> Arr({EdgeToArray(e) : e \in s.topology}),
                  options |-> Obj(s.options)]
  IN [k \in {"v", "kind", "name", "phase", "agents"} \cup {k \in {"objects", "topology"} : s[k] # {}}
            \cup {k \in {"options"} : DOMAIN s[k] # {}} |-> written[k]]

\* State.Refs: every slot, for ValidateResolved.
Refs(s) == {a.body : a \in s.agents} \cup {a.backend : a \in s.agents} \cup
           {a.model.ref : a \in s.agents} \cup {o.handler : o \in s.objects}
ValidateResolved(s) == \A r \in Refs(s) : Resolved(r)

\* SwarmidxRefs: the references that "gsp vendor" fetches.
SwarmidxRefs(s) ==
  {r.ref : r \in {r \in {a.body : a \in s.agents} \cup {a.model.ref : a \in s.agents} \cup
                        {o.handler : o \in s.objects} : r.scheme = "swarmidx"}}

-----------------------------------------------------------------------------
(* overlay.go: overlays and the payloads of events                         *)

Inflight == {"drain", "kill", "quarantine"}
Migrations == {"state_migrate", "restart"}
OptionalEnum(p, k, allowed) == Type(p, k) = "null" \/ String(p, k) \in allowed

\* validatePayload
GoodPayload(op, p) ==
  CASE op = "add_agent" -> GoodAgent(p)
    [] op = "add_object" -> GoodObject(p)
    [] op \in {"remove_agent", "remove_object"} ->
         String(p, "name") # "" /\ OptionalEnum(p, "on_inflight", Inflight)
    [] op \in {"add_topology_edges", "remove_topology_edges"} ->
         Type(p, "edges") = "array" /\ \A e \in List(p, "edges") : GoodEdge(e)
    [] op = "set_options" -> Type(p, "options") = "object"
    [] op = "update_config" -> String(p, "target") # "" /\ Type(p, "config") = "object"
    [] op = "scale_agent_group" ->
         /\ String(p, "base_name") # ""
         /\ Type(p, "target_count") = "number" /\ Integer(p, "target_count") >= 0
         /\ OptionalEnum(p, "on_inflight", Inflight)
    [] op = "bump_package" ->
         /\ String(p, "target") # ""
         /\ String(p, "field") \in {"body", "model", "backend", "handler"}
         /\ String(p, "from") \in Digests /\ String(p, "to") \in Digests
         /\ OptionalEnum(p, "migration", Migrations) /\ OptionalEnum(p, "on_inflight", Inflight)
    [] OTHER -> FALSE    \* an operation that is not in the catalogue

GoodEvent(v) ==
  /\ v[1] = "object" /\ Type(v[2], "seq") = "number"
  /\ Type(v[2], "payload") = "object" /\ GoodPayload(String(v[2], "op"), Map(v[2], "payload"))

\* parseApply: unlike a policy, a mode that is null is refused.
GoodOverlay(m) ==
  /\ GoodHeader(m, "swarm.overlay") /\ String(m, "swarm") # ""
  /\ "apply" \in DOMAIN m => String(m, "apply") \in {"incremental", "transactional"}
  /\ Type(m, "events") = "array"
  /\ \A i \in DOMAIN Map(m, "events") : GoodEvent(Map(m, "events")[i])
  /\ \A i \in DOMAIN Map(m, "events") \ {1} :
       Integer(Map(m, "events")[i - 1][2], "seq") < Integer(Map(m, "events")[i][2], "seq")
EventsOf(m) ==
  [i \in DOMAIN Map(m, "events") |->
     [op |-> String(Map(m, "events")[i][2], "op"), payload |-> Map(Map(m, "events")[i][2], "payload")]]

-----------------------------------------------------------------------------
(* fold.go: what an event makes of a state; the empty set if it is refused *)

Merge(base, over) ==
  [k \in DOMAIN base \cup DOMAIN over |-> IF k \in DOMAIN over THEN over[k] ELSE base[k]]

WithNodes(s, agents, objects) == State(s.name, s.phase, agents, objects, s.topology, s.options)
WithTopology(s, topology) == State(s.name, s.phase, s.agents, s.objects, topology, s.options)

AgentWith(a, body, model, backend, config) ==
  [name |-> a.name, body |-> body, model |-> model, backend |-> backend,
   overrides |-> a.overrides, config |-> config]
ObjectWith(o, handler, config) == [name |-> o.name, handler |-> handler, config |-> config]

Added(s, op, p) ==
  IF String(p, "name") \in NamesIn(s) THEN {}
  ELSE IF op = "add_agent" THEN {WithNodes(s, s.agents \cup {AgentOf(p)}, s.objects)}
                           ELSE {WithNodes(s, s.agents, s.objects \cup {ObjectOf(p)})}

WithoutNode(s, agents, objects, name) ==    \* a mutant: the edges of the node stay
  WithNodes(s, agents, objects)
Without(s, agents, objects, name) ==
  WithTopology(WithNodes(s, agents, objects), {e \in s.topology : e[1] # name /\ e[2] # name})
Removed(s, op, name) ==
  IF op = "remove_agent"
  THEN {Without(s, s.agents \ {a}, s.objects, name) : a \in {a \in s.agents : a.name = name}}
  ELSE {Without(s, s.agents, s.objects \ {o}, name) : o \in {o \in s.objects : o.name = name}}

Linked(s, op, edges) ==
  IF op = "remove_topology_edges" THEN {WithTopology(s, s.topology \ edges)}
  ELSE IF edges \subseteq NamesIn(s) \X NamesIn(s) THEN {WithTopology(s, s.topology \cup edges)}
  ELSE {}

\* Agents are looked through before objects; names are unique.
Named(nodes, name) == {x \in nodes : x.name = name}
WithAgent(s, a, b) == WithNodes(s, (s.agents \ {a}) \cup {b}, s.objects)
WithObject(s, o, b) == WithNodes(s, s.agents, (s.objects \ {o}) \cup {b})

ConfiguredAnew(s, target, config) ==    \* a mutant: the configuration is replaced
  {WithAgent(s, a, AgentWith(a, a.body, a.model, a.backend, config)) : a \in Named(s.agents, target)}
  \cup {WithObject(s, o, ObjectWith(o, o.handler, config)) : o \in Named(s.objects, target)}
Configured(s, target, config) ==
  {WithAgent(s, a, AgentWith(a, a.body, a.model, a.backend, Merge(a.config, config))) :
     a \in Named(s.agents, target)}
  \cup {WithObject(s, o, ObjectWith(o, o.handler, Merge(o.config, config))) :
     o \in Named(s.objects, target)}

SlotRef(x, field) == IF field = "model" THEN x.model.ref ELSE x[field]
Swapped(a, field, to) ==
  LET swap(f, r) == IF f = field THEN WithDigest(r, to) ELSE r
  IN AgentWith(a, swap("body", a.body), [slot |-> a.model.slot, ref |-> swap("model", a.model.ref)],
               swap("backend", a.backend), a.config)
Bumped(s, target, field, from, to) ==
  {WithAgent(s, a, Swapped(a, field, to)) :
     a \in {a \in Named(s.agents, target) : field # "handler" /\ SlotRef(a, field).digest = from}}
  \cup {WithObject(s, o, ObjectWith(o, WithDigest(o.handler, to), o.config)) :
     o \in {o \in Named(s.objects, target) : field = "handler" /\ o.handler.digest = from}}

\* applyEvent.  scale_agent_group, which only copies whole nodes, is left to SwarmFold.
Results(s, e) ==
  CASE e.op \in {"add_agent", "add_object"} -> Added(s, e.op, e.payload)
    [] e.op \in {"remove_agent", "remove_object"} -> Removed(s, e.op, String(e.payload, "name"))
    [] e.op \in {"add_topology_edges", "remove_topology_edges"} ->
         Linked(s, e.op, {EdgeOf(edge) : edge \in List(e.payload, "edges")})
    [] e.op = "set_options" ->
         {State(s.name, s.phase, s.agents, s.objects, s.topology,
                Merge(s.options, StringMap(e.payload, "options")))}
    [] e.op = "update_config" ->
         Configured(s, String(e.payload, "target"), StringMap(e.payload, "config"))
    [] e.op = "bump_package" ->
         Bumped(s, String(e.payload, "target"), String(e.payload, "field"),
                String(e.payload, "from"), String(e.payload, "to"))

-----------------------------------------------------------------------------
(* main.go, resolveState: every package slot is authenticated and pinned   *)

Authentic(r, kind, releases) ==
  r.scheme = "swarmidx" =>
    /\ r.ref \in DOMAIN releases /\ releases[r.ref].kind = kind
    /\ r.digest \in {"", releases[r.ref].digest}
AllAuthentic(s, releases) ==
  /\ \A a \in s.agents : Authentic(a.body, "body", releases) /\ Authentic(a.model.ref, "policy", releases)
  /\ \A o \in s.objects : Authentic(o.handler, "handler", releases)

PinnedRef(r, releases) ==
  IF r.scheme = "swarmidx" THEN WithDigest(r, releases[r.ref].digest) ELSE r
PinnedAgentBody(a, releases) ==    \* a mutant: the policy is not pinned
  AgentWith(a, PinnedRef(a.body, releases), a.model, a.backend, a.config)
PinnedAgent(a, releases) ==
  AgentWith(a, PinnedRef(a.body, releases),
            [slot |-> a.model.slot, ref |-> PinnedRef(a.model.ref, releases)], a.backend, a.config)
PinnedObject(o, releases) == ObjectWith(o, PinnedRef(o.handler, releases), o.config)
Pinned(s, releases) ==
  WithNodes(s, {PinnedAgent(a, releases) : a \in s.agents}, {PinnedObject(o, releases) : o \in s.objects})
=============================================================================
