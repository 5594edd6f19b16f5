--------------------------- MODULE SwarmKeptProofs ---------------------------
(***************************************************************************)
(* What the commands of SwarmFiles do not lose: backends and               *)
(* configurations, from the document or the event that they were read from *)
(* to the file that is written.  The documents and events are only asked   *)
(* to have integers that float64 holds.                                    *)
(***************************************************************************)
EXTENDS SwarmFilesProofs

-----------------------------------------------------------------------------
(* A backend in a document, and the reference that it is read as           *)

\* References that differ in their digests only.
SameBackend(r, q) ==
  /\ r.ref = q.ref /\ r.kind = q.kind /\ r.host = q.host /\ r.image = q.image
  /\ r.client = q.client /\ r.opts = q.opts

\* Of a reference that is whole, nothing that is stated is read as anything else.
LEMMA RefKeeps ==
  ASSUME NEW m, GoodAgent(m), ExactBackend(m), NEW p, p = Map(m, "backend")
  PROVE  /\ At(p, "client") = RefOf(p).client
         /\ At(p, "opts") = RefOf(p).opts
         /\ \A k \in {"ref", "kind", "host", "image"} : Stated(p, k) =>
              RefOf(p)[k] # "" /\ At(p, k) = Str(RefOf(p)[k])
<1>1. GoodRef(p) BY DEF GoodAgent, GoodBackend
<1>2. /\ \A k \in {"ref", "kind", "host", "image", "opts"} : WellFormed(At(p, k))
      /\ Decoded(At(p, "client")) = At(p, "client") /\ ExactMap(p, "opts")
  BY DEF ExactBackend
<1>3. At(p, "client") = RefOf(p).client BY <1>2 DEF RefOf
<1>4. At(p, "opts") = RefOf(p).opts
  <2>1. Type(p, "opts") \in {"null", "object"} BY <1>1 DEF GoodRef, GoodExecution
  <2>2. RefOf(p).opts = IF Type(p, "opts") = "object" THEN Obj(DecodedMap(Map(p, "opts"))) ELSE Null
    BY DEF RefOf
  <2>3. CASE Type(p, "opts") = "object"
    <3>1. At(p, "opts") = <<"object", Map(p, "opts")>> BY <1>2, <2>3 DEF WellFormed, Type, Map
    <3>2. Map(p, "opts") = DecodedMap(Map(p, "opts")) BY <1>2, <2>3 DEF ExactMap
    <3> QED BY <2>2, <2>3, <3>1, <3>2 DEF Obj
  <2>4. CASE Type(p, "opts") = "null"
    <3>1. At(p, "opts") = Null BY <1>2, <2>4 DEF WellFormed, Type
    <3> QED BY <2>2, <2>4, <3>1
  <2> QED BY <2>1, <2>3, <2>4
<1>5. ASSUME NEW k \in {"ref", "kind", "host", "image"}, Stated(p, k)
      PROVE  String(p, k) # "" /\ At(p, k) = Str(String(p, k))
  <2>1. WellFormed(At(p, k)) BY <1>2
  <2>2. String(p, k) # ""
    <3>1. k # "host" => Type(p, k) # "null" BY <1>5, <2>1 DEF WellFormed, Type, Stated
    <3>2. k = "ref" => String(p, k) # "" BY <1>1 DEF GoodRef
    <3>3. k = "kind" => String(p, k) # "" BY <1>1, <3>1 DEF GoodRef, GoodKind
    <3>4. k = "image" => String(p, k) # "" BY <1>1, <3>1 DEF GoodRef, GoodExecution
    <3>5. k = "host" => String(p, k) # "" BY <1>5 DEF Stated
    <3> QED BY <3>2, <3>3, <3>4, <3>5
  <2>3. At(p, k)[1] = "string" /\ String(p, k) = At(p, k)[2] BY <2>2 DEF String, StringOf
  <2>4. At(p, k) = <<"string", At(p, k)[2]>> BY <2>1, <2>3 DEF WellFormed
  <2> QED BY <2>2, <2>3, <2>4 DEF Str
<1>6. /\ RefOf(p)["ref"] = String(p, "ref") /\ RefOf(p)["kind"] = String(p, "kind")
      /\ RefOf(p)["host"] = String(p, "host") /\ RefOf(p)["image"] = String(p, "image")
  BY DEF RefOf
<1>7. \A k \in {"ref", "kind", "host", "image"} : RefOf(p)[k] = String(p, k) BY <1>6
<1> QED BY <1>3, <1>4, <1>5, <1>7

\* Two documents of one backend state the same of it.
LEMMA BackendStated ==
  ASSUME NEW m, GoodAgent(m), ExactBackend(m), NEW n, GoodAgent(n), ExactBackend(n),
         SameBackend(AgentOf(m).backend, AgentOf(n).backend),
         NEW k \in {"ref", "kind", "host", "image", "client", "opts"},
         Stated(Map(m, "backend"), k)
  PROVE  At(Map(n, "backend"), k) = At(Map(m, "backend"), k)
<1> DEFINE p == Map(m, "backend")
           q == Map(n, "backend")
<1>1. AgentOf(m).backend = RefOf(p) /\ AgentOf(n).backend = RefOf(q) BY DEF AgentOf
<1>2. SameBackend(RefOf(p), RefOf(q)) BY <1>1
<1>3. CASE k = "client" BY <1>2, <1>3, RefKeeps DEF SameBackend
<1>4. CASE k = "opts" BY <1>2, <1>4, RefKeeps DEF SameBackend
<1>5. CASE k \in {"ref", "kind", "host", "image"}
  <2>1. RefOf(p)[k] # "" /\ At(p, k) = Str(RefOf(p)[k]) BY <1>5, RefKeeps
  <2>2. RefOf(p)[k] = RefOf(q)[k]
    <3>1. /\ RefOf(p)["ref"] = RefOf(q)["ref"] /\ RefOf(p)["kind"] = RefOf(q)["kind"]
          /\ RefOf(p)["host"] = RefOf(q)["host"] /\ RefOf(p)["image"] = RefOf(q)["image"]
      BY <1>2 DEF SameBackend
    <3> QED BY <1>5, <3>1
  <2>3. RefOf(q)[k] = String(q, k)
    <3>1. /\ RefOf(q)["ref"] = String(q, "ref") /\ RefOf(q)["kind"] = String(q, "kind")
          /\ RefOf(q)["host"] = String(q, "host") /\ RefOf(q)["image"] = String(q, "image")
      BY DEF RefOf
    <3> QED BY <1>5, <3>1
  <2>4. Stated(q, k)
    <3>1. String(q, k) # "" BY <2>1, <2>2, <2>3
    <3>2. At(q, k) # Null BY <3>1, TypesDiffer DEF String, StringOf
    <3> QED BY <1>5, <3>1, <3>2 DEF Stated
  <2>5. At(q, k) = Str(RefOf(q)[k]) BY <1>5, <2>4, RefKeeps
  <2> QED BY <2>1, <2>2, <2>5
<1> QED BY <1>3, <1>4, <1>5

-----------------------------------------------------------------------------
(* What an event and a resolution keep of the nodes of a state             *)

\* The nodes of a state and the one that an event adds, and the configuration that it
\* gives to a node.  Nothing stands for a step that folds no event.
Nothing == [op |-> "nothing", payload |-> NoKeys]
AgentsBefore(s, e) == s.agents \cup (IF e.op = "add_agent" THEN {AgentOf(e.payload)} ELSE {})
ObjectsBefore(s, e) == s.objects \cup (IF e.op = "add_object" THEN {ObjectOf(e.payload)} ELSE {})
ConfigAfter(x, e) ==
  IF e.op = "update_config" /\ String(e.payload, "target") = x.name
  THEN Merge(x.config, StringMap(e.payload, "config"))
  ELSE x.config

KeepsAgent(a, b, e) ==
  b.name = a.name /\ SameBackend(a.backend, b.backend) /\ b.config = ConfigAfter(a, e)
KeepsObject(a, b, e) == b.name = a.name /\ b.config = ConfigAfter(a, e)
KeepsNodes(s, t, e) ==
  /\ Unique(AgentsBefore(s, e) \cup ObjectsBefore(s, e))
  /\ \A b \in t.agents : \E a \in AgentsBefore(s, e) : KeepsAgent(a, b, e)
  /\ \A b \in t.objects : \E a \in ObjectsBefore(s, e) : KeepsObject(a, b, e)

OptionsAfter(s, e) ==
  IF e.op = "set_options" THEN Merge(s.options, StringMap(e.payload, "options")) ELSE s.options
Keeps(s, t, e) == KeepsNodes(s, t, e) /\ t.options = OptionsAfter(s, e)

LEMMA UniqueBefore ==
  ASSUME NEW s, SoundState(s), NEW e, e.op \notin {"add_agent", "add_object"}
  PROVE  Unique(AgentsBefore(s, e) \cup ObjectsBefore(s, e))
<1>1. AgentsBefore(s, e) = s.agents /\ ObjectsBefore(s, e) = s.objects BY DEF AgentsBefore, ObjectsBefore
<1> QED BY <1>1, SoundParts

\* A state whose nodes are among the ones before, as they were.
LEMMA NodesStay ==
  ASSUME NEW s, NEW t, NEW e, e.op # "update_config",
         Unique(AgentsBefore(s, e) \cup ObjectsBefore(s, e)),
         t.agents \subseteq AgentsBefore(s, e), t.objects \subseteq ObjectsBefore(s, e)
  PROVE  KeepsNodes(s, t, e)
BY DEF KeepsNodes, KeepsAgent, KeepsObject, ConfigAfter, SameBackend

LEMMA AddedKeeps ==
  ASSUME NEW s, SoundState(s), NEW e, e.op \in {"add_agent", "add_object"},
         NEW t \in Added(s, e.op, e.payload)
  PROVE  KeepsNodes(s, t, e)
<1>1. String(e.payload, "name") \notin NamesOf(s.agents \cup s.objects) BY SoundParts DEF Added
<1>2. PICK x : /\ x.name = String(e.payload, "name")
               /\ AgentsBefore(s, e) \cup ObjectsBefore(s, e) = (s.agents \cup s.objects) \cup {x}
  <2>1. AgentOf(e.payload).name = String(e.payload, "name") BY DEF AgentOf
  <2>2. ObjectOf(e.payload).name = String(e.payload, "name") BY DEF ObjectOf
  <2>3. CASE e.op = "add_agent"
    <3>1. AgentsBefore(s, e) = s.agents \cup {AgentOf(e.payload)} /\ ObjectsBefore(s, e) = s.objects
      BY <2>3 DEF AgentsBefore, ObjectsBefore
    <3>2. AgentsBefore(s, e) \cup ObjectsBefore(s, e) = (s.agents \cup s.objects) \cup {AgentOf(e.payload)}
      BY <3>1
    <3> QED BY <2>1, <3>2
  <2>4. CASE e.op = "add_object"
    <3>1. AgentsBefore(s, e) = s.agents /\ ObjectsBefore(s, e) = s.objects \cup {ObjectOf(e.payload)}
      BY <2>4 DEF AgentsBefore, ObjectsBefore
    <3>2. AgentsBefore(s, e) \cup ObjectsBefore(s, e) = (s.agents \cup s.objects) \cup {ObjectOf(e.payload)}
      BY <3>1
    <3> QED BY <2>2, <3>2
  <2> QED BY <2>3, <2>4
<1>3. Unique(AgentsBefore(s, e) \cup ObjectsBefore(s, e)) BY <1>1, <1>2, SoundParts DEF Unique, NamesOf
<1>4. t.agents = AgentsBefore(s, e) /\ t.objects = ObjectsBefore(s, e)
  BY DEF Added, WithNodes, State, AgentsBefore, ObjectsBefore
<1> QED BY <1>3, <1>4, NodesStay

LEMMA RemovedKeeps ==
  ASSUME NEW s, SoundState(s), NEW e, e.op \in {"remove_agent", "remove_object"}, NEW name,
         NEW t \in Removed(s, e.op, name)
  PROVE  KeepsNodes(s, t, e)
<1>1. \A agents, objects : Without(s, agents, objects, name).agents = agents
                           /\ Without(s, agents, objects, name).objects = objects
  BY DEF Without, WithTopology, WithNodes, State
<1>2. t.agents \subseteq s.agents /\ t.objects \subseteq s.objects
  <2>1. CASE e.op = "remove_agent"
    <3>1. PICK a \in s.agents : t = Without(s, s.agents \ {a}, s.objects, name) BY <2>1 DEF Removed
    <3> QED BY <1>1, <3>1
  <2>2. CASE e.op = "remove_object"
    <3>1. PICK o \in s.objects : t = Without(s, s.agents, s.objects \ {o}, name) BY <2>2 DEF Removed
    <3> QED BY <1>1, <3>1
  <2> QED BY <2>1, <2>2
<1> QED BY <1>2, UniqueBefore, NodesStay DEF AgentsBefore, ObjectsBefore

LEMMA LinkedKeeps ==
  ASSUME NEW s, SoundState(s), NEW e, e.op \in {"add_topology_edges", "remove_topology_edges"}, NEW edges,
         NEW t \in Linked(s, e.op, edges)
  PROVE  KeepsNodes(s, t, e)
<1>1. t.agents = s.agents /\ t.objects = s.objects BY DEF Linked, WithTopology, State
<1> QED BY <1>1, UniqueBefore, NodesStay DEF AgentsBefore, ObjectsBefore

\* One node is replaced, and the event is about no other.
LEMMA OneReplaced ==
  ASSUME NEW s, SoundState(s), NEW e, e.op \in {"update_config", "bump_package"},
         NEW x \in s.agents \cup s.objects, String(e.payload, "target") = x.name,
         NEW t, NEW b,
         \/ x \in s.agents /\ KeepsAgent(x, b, e)
            /\ t.agents = (s.agents \ {x}) \cup {b} /\ t.objects = s.objects
         \/ x \in s.objects /\ KeepsObject(x, b, e)
            /\ t.agents = s.agents /\ t.objects = (s.objects \ {x}) \cup {b}
  PROVE  KeepsNodes(s, t, e)
<1>1. AgentsBefore(s, e) = s.agents /\ ObjectsBefore(s, e) = s.objects BY DEF AgentsBefore, ObjectsBefore
<1>2. \A y \in s.agents \cup s.objects : y # x => ConfigAfter(y, e) = y.config
  BY SoundParts DEF Unique, ConfigAfter
<1>3. x \in s.agents => x \notin s.objects BY SoundParts, AgentNotObject
<1>4. \A y \in s.agents : y # x => KeepsAgent(y, y, e) BY <1>2 DEF KeepsAgent, SameBackend
<1>5. \A y \in s.objects : y # x => KeepsObject(y, y, e) BY <1>2 DEF KeepsObject
<1> QED BY <1>1, <1>3, <1>4, <1>5, UniqueBefore DEF KeepsNodes

LEMMA ConfiguredKeeps ==
  ASSUME NEW s, SoundState(s), NEW e, e.op = "update_config",
         NEW t \in Configured(s, String(e.payload, "target"), StringMap(e.payload, "config"))
  PROVE  KeepsNodes(s, t, e)
<1> DEFINE target == String(e.payload, "target")
           config == StringMap(e.payload, "config")
<1>1. CASE \E a \in s.agents :
             /\ a.name = target
             /\ t = WithAgent(s, a, AgentWith(a, a.body, a.model, a.backend, Merge(a.config, config)))
  <2>1. PICK a \in s.agents :
          /\ a.name = target
          /\ t = WithAgent(s, a, AgentWith(a, a.body, a.model, a.backend, Merge(a.config, config)))
    BY <1>1
  <2> DEFINE b == AgentWith(a, a.body, a.model, a.backend, Merge(a.config, config))
  <2>2. b.name = a.name /\ b.backend = a.backend /\ b.config = Merge(a.config, config) BY DEF AgentWith
  <2>3. t.agents = (s.agents \ {a}) \cup {b} /\ t.objects = s.objects
    BY <2>1 DEF WithAgent, WithNodes, State
  <2>4. ConfigAfter(a, e) = Merge(a.config, config) BY <2>1 DEF ConfigAfter
  <2> HIDE DEF b, config
  <2>5. KeepsAgent(a, b, e) BY <2>2, <2>4 DEF KeepsAgent, SameBackend
  <2> QED BY <2>1, <2>3, <2>5, OneReplaced
<1>2. CASE \E o \in s.objects :
             /\ o.name = target
             /\ t = WithObject(s, o, ObjectWith(o, o.handler, Merge(o.config, config)))
  <2>1. PICK o \in s.objects :
          /\ o.name = target
          /\ t = WithObject(s, o, ObjectWith(o, o.handler, Merge(o.config, config)))
    BY <1>2
  <2> DEFINE b == ObjectWith(o, o.handler, Merge(o.config, config))
  <2>2. b.name = o.name /\ b.config = Merge(o.config, config) BY DEF ObjectWith
  <2>3. t.agents = s.agents /\ t.objects = (s.objects \ {o}) \cup {b}
    BY <2>1 DEF WithObject, WithNodes, State
  <2>4. ConfigAfter(o, e) = Merge(o.config, config) BY <2>1 DEF ConfigAfter
  <2> HIDE DEF b, config
  <2>5. KeepsObject(o, b, e) BY <2>2, <2>4 DEF KeepsObject
  <2> QED BY <2>1, <2>3, <2>5, OneReplaced
<1> QED BY <1>1, <1>2 DEF Configured, Named

LEMMA DigestKeeps == \A r, digest : SameBackend(r, WithDigest(r, digest))
BY DEF SameBackend, WithDigest

LEMMA BumpedKeeps ==
  ASSUME NEW s, SoundState(s), NEW e, e.op = "bump_package", NEW field, NEW from, NEW to,
         NEW t \in Bumped(s, String(e.payload, "target"), field, from, to)
  PROVE  KeepsNodes(s, t, e)
<1> DEFINE target == String(e.payload, "target")
<1>1. CASE \E a \in s.agents : a.name = target /\ t = WithAgent(s, a, Swapped(a, field, to))
  <2>1. PICK a \in s.agents : a.name = target /\ t = WithAgent(s, a, Swapped(a, field, to)) BY <1>1
  <2> DEFINE b == Swapped(a, field, to)
  <2>2. b.name = a.name /\ b.config = a.config /\ b.backend \in {a.backend, WithDigest(a.backend, to)}
    BY DEF Swapped, AgentWith
  <2>3. t.agents = (s.agents \ {a}) \cup {b} /\ t.objects = s.objects
    BY <2>1 DEF WithAgent, WithNodes, State
  <2> HIDE DEF b
  <2>4. SameBackend(a.backend, b.backend) BY <2>2, DigestKeeps DEF SameBackend
  <2>5. KeepsAgent(a, b, e) BY <2>2, <2>4 DEF KeepsAgent, ConfigAfter
  <2> QED BY <2>1, <2>3, <2>5, OneReplaced
<1>2. CASE \E o \in s.objects :
             o.name = target /\ t = WithObject(s, o, ObjectWith(o, WithDigest(o.handler, to), o.config))
  <2>1. PICK o \in s.objects :
          o.name = target /\ t = WithObject(s, o, ObjectWith(o, WithDigest(o.handler, to), o.config))
    BY <1>2
  <2> DEFINE b == ObjectWith(o, WithDigest(o.handler, to), o.config)
  <2>2. b.name = o.name /\ b.config = o.config BY DEF ObjectWith
  <2>3. t.agents = s.agents /\ t.objects = (s.objects \ {o}) \cup {b}
    BY <2>1 DEF WithObject, WithNodes, State
  <2> HIDE DEF b
  <2>4. KeepsObject(o, b, e) BY <2>2 DEF KeepsObject, ConfigAfter
  <2> QED BY <2>1, <2>3, <2>4, OneReplaced
<1> QED BY <1>1, <1>2 DEF Bumped, Named

\* The options of the swarm change with the one event that is about them.
LEMMA OptionsFollow ==
  ASSUME NEW s, NEW e, GoodPayload(e.op, e.payload), e.op # "scale_agent_group", NEW t \in Results(s, e)
  PROVE  t.options = OptionsAfter(s, e)
<1>1. \A agents, objects, topology : /\ WithNodes(s, agents, objects).options = s.options
                                    /\ WithTopology(s, topology).options = s.options
                                    /\ WithTopology(WithNodes(s, agents, objects), topology).options = s.options
  BY DEF WithNodes, WithTopology, State
<1>2. CASE e.op \in {"add_agent", "add_object"}
  <2>1. t \in Added(s, e.op, e.payload) BY <1>2 DEF Results
  <2> QED BY <1>1, <1>2, <2>1 DEF Added, OptionsAfter
<1>3. CASE e.op \in {"remove_agent", "remove_object"}
  <2>1. t \in Removed(s, e.op, String(e.payload, "name")) BY <1>3 DEF Results
  <2>2. \E agents, objects : t = Without(s, agents, objects, String(e.payload, "name"))
    BY <2>1 DEF Removed
  <2> QED BY <1>1, <1>3, <2>2 DEF Without, OptionsAfter
<1>4. CASE e.op \in {"add_topology_edges", "remove_topology_edges"}
  <2>1. t \in Linked(s, e.op, {EdgeOf(edge) : edge \in List(e.payload, "edges")}) BY <1>4 DEF Results
  <2>2. \E topology : t = WithTopology(s, topology) BY <2>1 DEF Linked
  <2> QED BY <1>1, <1>4, <2>2 DEF OptionsAfter
<1>5. CASE e.op = "set_options" BY <1>5 DEF Results, State, OptionsAfter
<1>6. CASE e.op = "update_config"
  <2>1. t \in Configured(s, String(e.payload, "target"), StringMap(e.payload, "config")) BY <1>6 DEF Results
  <2>2. \E agents, objects : t = WithNodes(s, agents, objects)
    BY <2>1 DEF Configured, WithAgent, WithObject
  <2> QED BY <1>1, <1>6, <2>2 DEF OptionsAfter
<1>7. CASE e.op = "bump_package"
  <2>1. t \in Bumped(s, String(e.payload, "target"), String(e.payload, "field"),
                     String(e.payload, "from"), String(e.payload, "to"))
    BY <1>7 DEF Results
  <2>2. \E agents, objects : t = WithNodes(s, agents, objects) BY <2>1 DEF Bumped, WithAgent, WithObject
  <2> QED BY <1>1, <1>7, <2>2 DEF OptionsAfter
<1> QED BY <1>2, <1>3, <1>4, <1>5, <1>6, <1>7 DEF GoodPayload

\* Every event that is folded keeps the backends and configurations that it is not about.
LEMMA ResultsKeep ==
  ASSUME NEW s, SoundState(s), NEW e, GoodPayload(e.op, e.payload), e.op # "scale_agent_group",
         NEW t \in Results(s, e)
  PROVE  Keeps(s, t, e)
<1> SUFFICES KeepsNodes(s, t, e) BY OptionsFollow DEF Keeps
<1>1. CASE e.op \in {"add_agent", "add_object"}
  <2>1. t \in Added(s, e.op, e.payload) BY <1>1 DEF Results
  <2> QED BY <1>1, <2>1, AddedKeeps
<1>2. CASE e.op \in {"remove_agent", "remove_object"}
  <2>1. t \in Removed(s, e.op, String(e.payload, "name")) BY <1>2 DEF Results
  <2> QED BY <1>2, <2>1, RemovedKeeps
<1>3. CASE e.op \in {"add_topology_edges", "remove_topology_edges"}
  <2>1. t \in Linked(s, e.op, {EdgeOf(edge) : edge \in List(e.payload, "edges")}) BY <1>3 DEF Results
  <2> QED BY <1>3, <2>1, LinkedKeeps
<1>4. CASE e.op = "set_options"
  <2>1. t.agents = s.agents /\ t.objects = s.objects BY <1>4 DEF Results, State
  <2> QED BY <1>4, <2>1, UniqueBefore, NodesStay DEF AgentsBefore, ObjectsBefore
<1>5. CASE e.op = "update_config"
  <2>1. t \in Configured(s, String(e.payload, "target"), StringMap(e.payload, "config")) BY <1>5 DEF Results
  <2> QED BY <1>5, <2>1, ConfiguredKeeps
<1>6. CASE e.op = "bump_package"
  <2>1. t \in Bumped(s, String(e.payload, "target"), String(e.payload, "field"),
                     String(e.payload, "from"), String(e.payload, "to"))
    BY <1>6 DEF Results
  <2> QED BY <1>6, <2>1, BumpedKeeps
<1>7. e.op \in {"add_agent", "add_object", "remove_agent", "remove_object", "add_topology_edges",
                "remove_topology_edges", "set_options", "update_config", "bump_package"}
  BY DEF GoodPayload
<1> QED BY <1>1, <1>2, <1>3, <1>4, <1>5, <1>6, <1>7

\* A step that changes no node, and resolution, which changes digests of packages only:
\* forwards, and backwards when "gsp vendor" leaves the file as it was.
LEMMA SameKeeps == ASSUME NEW s, SoundState(s) PROVE Keeps(s, s, Nothing)
<1>1. Nothing.op = "nothing" BY DEF Nothing
<1>2. KeepsNodes(s, s, Nothing) BY <1>1, UniqueBefore, NodesStay DEF AgentsBefore, ObjectsBefore
<1> QED BY <1>1, <1>2 DEF Keeps, OptionsAfter

LEMMA PinnedKeeps ==
  ASSUME NEW s, SoundState(s), NEW releases
  PROVE  Keeps(s, Pinned(s, releases), Nothing) /\ Keeps(Pinned(s, releases), s, Nothing)
<1> DEFINE t == Pinned(s, releases)
           agents == {PinnedAgent(a, releases) : a \in s.agents}
           objects == {PinnedObject(o, releases) : o \in s.objects}
<1>1. t.agents = agents /\ t.objects = objects BY DEF Pinned, WithNodes, State
<1>2. /\ \A b \in agents : \E a \in s.agents : b = PinnedAgent(a, releases)
      /\ \A b \in objects : \E o \in s.objects : b = PinnedObject(o, releases)
      /\ \A a \in s.agents : PinnedAgent(a, releases) \in agents
      /\ \A o \in s.objects : PinnedObject(o, releases) \in objects
  OBVIOUS
<1>3. Nothing.op = "nothing" BY DEF Nothing
<1>4. SoundState(t) BY PinnedSound
<1> HIDE DEF t, agents, objects
<1>5. \A x : ConfigAfter(x, Nothing) = x.config BY <1>3 DEF ConfigAfter
<1>6. \A a : KeepsAgent(a, PinnedAgent(a, releases), Nothing) /\ KeepsAgent(PinnedAgent(a, releases), a, Nothing)
  <2> SUFFICES ASSUME NEW a
               PROVE  /\ KeepsAgent(a, PinnedAgent(a, releases), Nothing)
                      /\ KeepsAgent(PinnedAgent(a, releases), a, Nothing)
    OBVIOUS
  <2> DEFINE b == PinnedAgent(a, releases)
  <2>1. b.name = a.name /\ b.backend = a.backend /\ b.config = a.config BY DEF PinnedAgent, AgentWith
  <2> HIDE DEF b
  <2>2. KeepsAgent(a, b, Nothing) /\ KeepsAgent(b, a, Nothing) BY <1>5, <2>1 DEF KeepsAgent, SameBackend
  <2> QED BY <2>2 DEF b
<1>7. \A o : KeepsObject(o, PinnedObject(o, releases), Nothing) /\ KeepsObject(PinnedObject(o, releases), o, Nothing)
  <2> SUFFICES ASSUME NEW o
               PROVE  /\ KeepsObject(o, PinnedObject(o, releases), Nothing)
                      /\ KeepsObject(PinnedObject(o, releases), o, Nothing)
    OBVIOUS
  <2> DEFINE b == PinnedObject(o, releases)
  <2>1. b.name = o.name /\ b.config = o.config BY DEF PinnedObject, ObjectWith
  <2> HIDE DEF b
  <2>2. KeepsObject(o, b, Nothing) /\ KeepsObject(b, o, Nothing) BY <1>5, <2>1 DEF KeepsObject
  <2> QED BY <2>2 DEF b
<1>8. \A x : AgentsBefore(x, Nothing) = x.agents /\ ObjectsBefore(x, Nothing) = x.objects
  BY <1>3 DEF AgentsBefore, ObjectsBefore
<1>9. Unique(s.agents \cup s.objects) /\ Unique(t.agents \cup t.objects) BY <1>4, SoundParts
<1>10. KeepsNodes(s, t, Nothing) BY <1>1, <1>2, <1>6, <1>7, <1>8, <1>9 DEF KeepsNodes
<1>11. KeepsNodes(t, s, Nothing) BY <1>1, <1>2, <1>6, <1>7, <1>8, <1>9 DEF KeepsNodes
<1>12. t.options = s.options BY DEF t, Pinned, WithNodes, State
<1>13. Keeps(s, t, Nothing) /\ Keeps(t, s, Nothing) BY <1>3, <1>10, <1>11, <1>12 DEF Keeps, OptionsAfter
<1> QED BY <1>13 DEF t

-----------------------------------------------------------------------------
(* The steps of the commands                                               *)

\* While "gsp vendor" runs, its state is the one in the file, pinned once it is authenticated.
Vendored ==
  /\ phase = "vendoring" => GoodState(file) /\ state = StateOf(file)
  /\ phase = "authenticated" =>
       GoodState(file) /\ \E releases \in Releases : state = Pinned(StateOf(file), releases)

\* The state that View is read as, and the event that is next.
Held == IF state = NoState THEN StateOf(file) ELSE state
Coming == IF pending = <<>> THEN Nothing ELSE Head(pending)

LEMMA VendoredStep == ASSUME IInv, Vendored, [Next]_vars PROVE Vendored'
<1>1. CASE Write \/ ReadOverlay \/ UNCHANGED vars
  <2>1. UNCHANGED <<file, state, phase>> BY <1>1, WriteIsWriteOverlay DEF WriteOverlay, ReadOverlay, vars
  <2> QED BY <2>1 DEF Vendored
<1>2. CASE ReadState \/ FoldEvent \/ Emit \/ Fail \/ HandOver \/ \E releases \in Releases : Resolve(releases)
  <2>1. phase' \notin {"vendoring", "authenticated"} BY <1>2 DEF ReadState, FoldEvent, Emit, Fail, HandOver, Resolve
  <2> QED BY <2>1 DEF Vendored
<1>3. CASE ReadForVendor BY <1>3 DEF ReadForVendor, Vendored
<1>4. CASE \E releases \in Releases : Authenticate(releases) BY <1>4 DEF Authenticate, Vendored
<1> QED BY <1>1, <1>2, <1>3, <1>4 DEF Next, Materialize, Vendor

LEMMA StepKeeps ==
  ASSUME IInv, Vendored, Next, Proceeds
  PROVE  /\ SoundState(Held) /\ Keeps(Held, Held', Coming)
         /\ state' # NoState \/ GoodState(file')
<1>1. SoundState(Held) BY StateOfSound DEF Held, Proceeds, IInv
<1>2. pending # <<>> => Head(pending) \in Events BY DEF IInv, TypeOK
<1>3. CASE Write \/ ReadOverlay
  <2>1. UNCHANGED <<file, state>> /\ pending = <<>>
    BY <1>3, WriteIsWriteOverlay DEF WriteOverlay, ReadOverlay, IInv, TypeOK, Idle
  <2>2. Held' = Held /\ Coming = Nothing BY <2>1 DEF Held, Coming
  <2>3. state' # NoState \/ GoodState(file') BY <2>1 DEF Proceeds
  <2> QED BY <1>1, <2>2, <2>3, SameKeeps
<1>4. CASE ReadState \/ ReadForVendor
  <2>1. /\ state = NoState /\ state' = StateOf(file) /\ GoodState(file) /\ pending = <<>>
        /\ file' = file
    BY <1>4 DEF ReadState, ReadForVendor, IInv, TypeOK, Idle
  <2>2. state' # NoState BY <2>1, StateOfSound, NoStateUnsound
  <2>3. Held' = Held /\ Coming = Nothing BY <2>1, <2>2 DEF Held, Coming
  <2> QED BY <1>1, <2>2, <2>3, SameKeeps
<1>5. CASE FoldEvent
  <2>1. state # NoState /\ state' # NoState
    <3>1. phase = "folding" /\ phase' = "folding" BY <1>5 DEF FoldEvent
    <3>2. IInv' BY StepInv
    <3> QED BY <3>1, <3>2 DEF IInv, TypeOK, Idle
  <2>2. Held = state /\ Held' = state' /\ Coming = Head(pending) BY <1>5, <2>1 DEF Held, Coming, FoldEvent
  <2>3. Held' \in Results(Held, Coming) BY <1>5, <2>2 DEF FoldEvent
  <2>4. Coming \in Events BY <1>2, <1>5, <2>2 DEF FoldEvent
  <2> QED BY <1>1, <2>1, <2>3, <2>4, EventsAreGood, ResultsKeep
<1>6. CASE \E releases \in Releases : Resolve(releases) \/ Authenticate(releases)
  <2>1. PICK releases \in Releases : Resolve(releases) \/ Authenticate(releases) BY <1>6
  <2>2. /\ state # NoState /\ pending = <<>> /\ state' = Pinned(state, releases)
    BY <2>1 DEF Resolve, Authenticate, IInv, TypeOK, Idle
  <2>3. Held = state BY <2>2 DEF Held
  <2>4. state' # NoState BY <1>1, <2>2, <2>3, PinnedSound, NoStateUnsound
  <2>5. Held' = Pinned(Held, releases) /\ Coming = Nothing BY <2>2, <2>3, <2>4 DEF Held, Coming
  <2> QED BY <1>1, <2>4, <2>5, PinnedKeeps
<1>7. CASE Emit
  <2>1. state # NoState /\ pending = <<>> /\ state' = NoState /\ file' = StateToMap(state)
    BY <1>7 DEF Emit, IInv, TypeOK, Idle
  <2>2. Held = state /\ Held' = StateOf(file') /\ Coming = Nothing BY <2>1 DEF Held, Coming
  <2>3. GoodState(file') /\ StateOf(file') = state BY <1>1, <2>1, <2>2, StateRoundTrip
  <2> QED BY <1>1, <2>2, <2>3, SameKeeps
<1>8. CASE HandOver
  <2>1. state # NoState /\ pending = <<>> /\ state' = NoState /\ file' = file
    BY <1>8 DEF HandOver, IInv, TypeOK, Idle
  <2>2. PICK releases \in Releases : GoodState(file) /\ state = Pinned(StateOf(file), releases)
    BY <1>8 DEF HandOver, Vendored
  <2>3. Held = Pinned(StateOf(file), releases) /\ Held' = StateOf(file) /\ Coming = Nothing
    BY <2>1, <2>2 DEF Held, Coming
  <2>4. SoundState(StateOf(file)) BY <2>2, StateOfSound
  <2> QED BY <1>1, <2>1, <2>2, <2>3, <2>4, PinnedKeeps
<1>9. ~Fail BY DEF Fail, Proceeds
<1> QED BY <1>3, <1>4, <1>5, <1>6, <1>7, <1>8, <1>9 DEF Next, Materialize, Vendor

\* What an event adds is one of the nodes that were there before.
LEMMA AddsComing ==
  ASSUME IInv, NEW ops \in SUBSET {"add_agent", "add_object"}, NEW m \in Adds(ops)
  PROVE  /\ Coming \in Events /\ Coming.op \in ops /\ m = Coming.payload
         /\ Coming.op = "add_agent" => GoodAgent(m) /\ AgentOf(m) \in AgentsBefore(Held, Coming)
         /\ Coming.op = "add_object" => GoodObject(m) /\ ObjectOf(m) \in ObjectsBefore(Held, Coming)
<1>1. 1 \in DOMAIN pending /\ pending[1].op \in ops /\ m = Head(pending).payload BY DEF Adds
<1>2. pending \in Seq(Events) BY DEF IInv, TypeOK
<1>3. pending # <<>> /\ Head(pending) = pending[1] /\ Head(pending) \in Events BY <1>1, <1>2
<1>4. Coming = Head(pending) BY <1>3 DEF Coming
<1>5. GoodPayload(Coming.op, m) BY <1>1, <1>3, <1>4, EventsAreGood
<1>6. Coming.op = "add_agent" => GoodAgent(m) BY <1>5 DEF GoodPayload
<1>7. Coming.op = "add_object" => GoodObject(m) BY <1>5 DEF GoodPayload
<1> QED BY <1>1, <1>3, <1>4, <1>6, <1>7 DEF AgentsBefore, ObjectsBefore

\* The nodes that a document lists are the ones of the state it is read as.
LEMMA Listed ==
  ASSUME NEW d, GoodState(d)
  PROVE  /\ \A m \in NodeMaps(d, {"agents"}) : GoodAgent(m) /\ AgentOf(m) \in StateOf(d).agents
         /\ \A m \in NodeMaps(d, {"agents", "objects"}) :
              \/ GoodAgent(m) /\ AgentOf(m) \in StateOf(d).agents
              \/ GoodObject(m) /\ ObjectOf(m) \in StateOf(d).objects
<1>1. /\ StateOf(d).agents = {AgentOf(v[2]) : v \in List(d, "agents")}
      /\ StateOf(d).objects = {ObjectOf(v[2]) : v \in List(d, "objects")}
  BY DEF StateOf, State
<1>2. \A m \in NodeMaps(d, {"agents"}) : \E v \in List(d, "agents") : m = v[2] BY DEF NodeMaps
<1>3. \A m \in NodeMaps(d, {"agents", "objects"}) :
        (\E v \in List(d, "agents") : m = v[2]) \/ (\E v \in List(d, "objects") : m = v[2])
  BY DEF NodeMaps
<1>4. \A v \in List(d, "agents") : GoodAgent(v[2]) BY DEF GoodState
<1>5. \A v \in List(d, "objects") : GoodObject(v[2]) BY DEF GoodState
<1> QED BY <1>1, <1>2, <1>3, <1>4, <1>5

LEMMA ViewRead ==
  ASSUME IInv, state # NoState \/ GoodState(file)
  PROVE  GoodState(View) /\ StateOf(View) = Held
<1>1. CASE state = NoState BY <1>1 DEF View, Held
<1>2. CASE state # NoState BY <1>2, StateRoundTrip DEF View, Held, IInv
<1> QED BY <1>1, <1>2

\* The nodes that are written.
LEMMA WrittenNodes ==
  ASSUME NEW s, SoundState(s)
  PROVE  /\ \A m \in NodeMaps(StateToMap(s), {"agents"}) : \E a \in s.agents : m = AgentToMap(a)
         /\ \A m \in NodeMaps(StateToMap(s), {"agents", "objects"}) :
              (\E a \in s.agents : m = AgentToMap(a)) \/ (\E o \in s.objects : m = ObjectToMap(o))
<1> DEFINE d == StateToMap(s)
           agents == {Obj(AgentToMap(a)) : a \in s.agents}
           objects == {Obj(ObjectToMap(o)) : o \in s.objects}
<1>1. At(d, "agents") = Arr(agents) /\ At(d, "objects") = IF s.objects # {} THEN Arr(objects) ELSE Null
  BY StateWritten
<1>2. s.objects = {} => objects = {} OBVIOUS
<1>3. \A v \in agents : \E a \in s.agents : v[2] = AgentToMap(a) BY TypesDiffer
<1>4. \A v \in objects : \E o \in s.objects : v[2] = ObjectToMap(o) BY TypesDiffer
<1> HIDE DEF d, agents, objects
<1>5. List(d, "agents") = agents BY <1>1, ListRead
<1>6. List(d, "objects") = objects
  <2>1. At(d, "objects") = Arr(objects) \/ (objects = {} /\ At(d, "objects") = Null) BY <1>1, <1>2
  <2> QED BY <2>1, ListRead
<1>7. \A m \in NodeMaps(d, {"agents"}) : \E a \in s.agents : m = AgentToMap(a)
  <2>1. \A m \in NodeMaps(d, {"agents"}) : \E v \in agents : m = v[2] BY <1>5 DEF NodeMaps
  <2> QED BY <2>1, <1>3
<1>8. \A m \in NodeMaps(d, {"agents", "objects"}) :
        (\E a \in s.agents : m = AgentToMap(a)) \/ (\E o \in s.objects : m = ObjectToMap(o))
  <2>1. \A m \in NodeMaps(d, {"agents", "objects"}) :
          (\E v \in agents : m = v[2]) \/ (\E v \in objects : m = v[2])
    BY <1>5, <1>6 DEF NodeMaps
  <2> QED BY <2>1, <1>3, <1>4
<1> QED BY <1>7, <1>8 DEF d

-----------------------------------------------------------------------------
(* Backends                                                                *)

\* What a document states of a backend is exactly what a state holds of it.
BackendsIn(d) == GoodState(d) => \A m \in NodeMaps(d, {"agents"}) : ExactBackend(m)

LEMMA WrittenBackends == ASSUME NEW s, SoundState(s) PROVE BackendsIn(StateToMap(s))
<1> SUFFICES ASSUME NEW a \in s.agents PROVE ExactBackend(AgentToMap(a)) BY WrittenNodes DEF BackendsIn
<1>1. SoundRef(a.backend) BY SoundParts DEF SoundAgent
<1>2. At(AgentToMap(a), "backend") = Obj(RefToMap(a.backend)) BY SoundParts, AgentWritten
<1> DEFINE p == RefToMap(a.backend)
           r == a.backend
<1>3. Map(AgentToMap(a), "backend") = p BY <1>2, TypesDiffer DEF Map
<1>4. /\ At(p, "ref") = Str(r.ref)
      /\ At(p, "kind") = IF r.kind # "" THEN Str(r.kind) ELSE Null
      /\ At(p, "host") = IF r.host # "" THEN Str(r.host) ELSE Null
      /\ At(p, "image") = IF r.image # "" THEN Str(r.image) ELSE Null
      /\ At(p, "client") = r.client /\ At(p, "opts") = r.opts
  BY <1>1, RefWritten
<1>5. /\ r.client = Decoded(r.client)
      /\ r.opts = Null \/ r.opts = Obj(DecodedMap(r.opts[2]))
  BY <1>1 DEF SoundRef
<1> HIDE DEF p, r
<1>6. WellFormed(Null) /\ \A x : WellFormed(Str(x)) /\ WellFormed(Obj(x))
  BY TypesDiffer DEF WellFormed, Str, Obj
<1>7. WellFormed(r.opts) BY <1>5, <1>6
<1>8. ExactMap(p, "opts")
  <2>1. CASE r.opts = Null BY <1>4, <2>1, TypesDiffer DEF ExactMap, Type
  <2>2. CASE r.opts = Obj(DecodedMap(r.opts[2]))
    <3>1. r.opts[2] = DecodedMap(r.opts[2]) BY <2>2, TypesDiffer
    <3> QED BY <1>4, <3>1 DEF ExactMap, Map
  <2> QED BY <1>5, <2>1, <2>2
<1>9. \A k \in {"ref", "kind", "host", "image", "opts"} : WellFormed(At(p, k)) BY <1>4, <1>6, <1>7
<1> QED BY <1>3, <1>4, <1>5, <1>8, <1>9 DEF ExactBackend

\* A file is one that was given or one that was written.
LEMMA BackendsStep ==
  ASSUME IInv, BackendsIn(file), [Next]_vars
  PROVE  BackendsIn(file')
<1>1. CASE Emit
  <2>1. SoundState(state) BY <1>1 DEF IInv, TypeOK, Idle, Emit
  <2> QED BY <1>1, <2>1, WrittenBackends DEF Emit
<1>2. CASE ~Emit
  <2>1. file' = file
    BY <1>2, WriteIsWriteOverlay DEF Next, Materialize, Vendor, WriteOverlay, ReadState, ReadOverlay, FoldEvent,
       Fail, Resolve, ReadForVendor, HandOver, Authenticate, vars
  <2> QED BY <2>1
<1> QED BY <1>1, <1>2

BackendKeptNow ==
  Proceeds =>
    \A m \in NodeMaps(View, {"agents"}) \cup Adds({"add_agent"}), n \in NodeMaps(View', {"agents"}) :
      String(m, "name") = String(n, "name") =>
        \A k \in {"ref", "kind", "host", "image", "client", "opts"} :
          Stated(Map(m, "backend"), k) => At(Map(n, "backend"), k) = At(Map(m, "backend"), k)

LEMMA BackendStep ==
  ASSUME ExactBackends(Documents), IInv, IInv', Vendored, BackendsIn(file), BackendsIn(file'), Next
  PROVE  BackendKeptNow
<1> SUFFICES ASSUME Proceeds,
                    NEW m \in NodeMaps(View, {"agents"}) \cup Adds({"add_agent"}),
                    NEW n \in NodeMaps(View', {"agents"}),
                    String(m, "name") = String(n, "name"),
                    NEW k \in {"ref", "kind", "host", "image", "client", "opts"},
                    Stated(Map(m, "backend"), k)
             PROVE  At(Map(n, "backend"), k) = At(Map(m, "backend"), k)
  BY DEF BackendKeptNow
<1>1. SoundState(Held) /\ Keeps(Held, Held', Coming) /\ (state' # NoState \/ GoodState(file')) BY StepKeeps
<1>2. GoodState(View) /\ StateOf(View) = Held BY ViewRead DEF Proceeds
<1>3. GoodState(View') /\ StateOf(View') = Held'
  <2>1. CASE state' = NoState BY <1>1, <2>1 DEF View, Held
  <2>2. CASE state' # NoState BY <2>2, StateRoundTrip DEF View, Held, IInv
  <2> QED BY <2>1, <2>2
<1>4. BackendsIn(View) /\ BackendsIn(View')
  <2>1. BackendsIn(View) BY WrittenBackends DEF View, IInv
  <2>2. BackendsIn(View') BY WrittenBackends DEF View, IInv
  <2> QED BY <2>1, <2>2
<1>5. GoodAgent(m) /\ ExactBackend(m) /\ AgentOf(m) \in AgentsBefore(Held, Coming)
  <2>1. CASE m \in NodeMaps(View, {"agents"}) BY <1>2, <1>4, <2>1, Listed DEF BackendsIn, AgentsBefore
  <2>2. CASE m \in Adds({"add_agent"})
    <3>1. {"add_agent"} \in SUBSET {"add_agent", "add_object"} OBVIOUS
    <3>2. Coming \in Events /\ Coming.op = "add_agent" /\ m = Coming.payload
          /\ GoodAgent(m) /\ AgentOf(m) \in AgentsBefore(Held, Coming)
      BY <2>2, <3>1, AddsComing
    <3> QED BY <3>2 DEF ExactBackends
  <2> QED BY <2>1, <2>2
<1>6. GoodAgent(n) /\ ExactBackend(n) /\ AgentOf(n) \in Held'.agents
  BY <1>3, <1>4, Listed DEF BackendsIn
<1>7. PICK a \in AgentsBefore(Held, Coming) : KeepsAgent(a, AgentOf(n), Coming) BY <1>1, <1>6 DEF Keeps, KeepsNodes
<1>8. AgentOf(m).name = String(m, "name") /\ AgentOf(n).name = String(n, "name") BY DEF AgentOf
<1>9. a = AgentOf(m) BY <1>1, <1>5, <1>7, <1>8 DEF Keeps, KeepsNodes, Unique, KeepsAgent
<1>10. SameBackend(AgentOf(m).backend, AgentOf(n).backend) BY <1>7, <1>9 DEF KeepsAgent
<1> QED BY <1>5, <1>6, <1>10, BackendStated

\* Whatever is parsed, folded, pinned, written and vendored, an agent's backend keeps all
\* that was stated of it (ref.go: its isolation options are not silently discarded).
THEOREM BackendsAreKept == ExactBackends(Documents) => (Spec => BackendKept)
<1> SUFFICES ASSUME ExactBackends(Documents) PROVE Spec => BackendKept OBVIOUS
<1> DEFINE Inv == IInv /\ Vendored /\ BackendsIn(file)
<1>1. Init => Inv
  <2>1. Init => Vendored BY DEF Init, Vendored
  <2>2. Init => BackendsIn(file) BY DEF Init, BackendsIn, ExactBackends
  <2> QED BY <2>1, <2>2, InitInv
<1>2. Inv /\ [Next]_vars => Inv'
  <2> SUFFICES ASSUME Inv, [Next]_vars PROVE Inv' OBVIOUS
  <2>1. IInv' BY StepInv
  <2>2. Vendored' BY VendoredStep
  <2>3. BackendsIn(file') BY BackendsStep
  <2> QED BY <2>1, <2>2, <2>3 DEF BackendsIn
<1>3. Inv /\ Inv' /\ [Next]_vars => [BackendKeptNow]_vars
  <2> SUFFICES ASSUME Inv, Inv', Next PROVE BackendKeptNow OBVIOUS
  <2>1. BackendsIn(file') BY DEF BackendsIn
  <2> QED BY <2>1, BackendStep
<1> HIDE DEF Inv
<1> QED BY <1>1, <1>2, <1>3, PTL DEF Spec, BackendKept, BackendKeptNow

-----------------------------------------------------------------------------
(* Configurations and options                                              *)

ConfigsIn(d) ==
  GoodState(d) => /\ ExactMap(d, "options")
                  /\ \A m \in NodeMaps(d, {"agents", "objects"}) : ExactMap(m, "config")

LEMMA ReadExactly == ASSUME NEW m, NEW k, ExactMap(m, k) PROVE StringMap(m, k) = MapIn(m, k)
BY DEF ExactMap, StringMap, MapIn

LEMMA WrittenExactly ==
  ASSUME NEW m, NEW k, NEW c, SoundMap(c), At(m, k) = IF DOMAIN c # {} THEN Obj(c) ELSE Null
  PROVE  ExactMap(m, k)
<1>1. CASE DOMAIN c # {} BY <1>1, TypesDiffer DEF ExactMap, Type, Map, SoundMap
<1>2. CASE DOMAIN c = {} BY <1>2, TypesDiffer DEF ExactMap, Type
<1> QED BY <1>1, <1>2

LEMMA WrittenConfigs == ASSUME NEW s, SoundState(s) PROVE ConfigsIn(StateToMap(s))
<1>1. \A a \in s.agents : ExactMap(AgentToMap(a), "config")
  <2> SUFFICES ASSUME NEW a \in s.agents PROVE ExactMap(AgentToMap(a), "config") OBVIOUS
  <2>1. SoundAgent(a) BY SoundParts
  <2> QED BY <2>1, AgentWritten, WrittenExactly DEF SoundAgent
<1>2. \A o \in s.objects : ExactMap(ObjectToMap(o), "config")
  <2> SUFFICES ASSUME NEW o \in s.objects PROVE ExactMap(ObjectToMap(o), "config") OBVIOUS
  <2>1. SoundMap(o.config) BY SoundParts DEF SoundObject
  <2>2. /\ "config" \in DOMAIN ObjectToMap(o) <=> DOMAIN o.config # {}
        /\ "config" \in DOMAIN ObjectToMap(o) => ObjectToMap(o)["config"] = Obj(o.config)
    BY DEF ObjectToMap
  <2>3. At(ObjectToMap(o), "config") = IF DOMAIN o.config # {} THEN Obj(o.config) ELSE Null BY <2>2 DEF At
  <2> QED BY <2>1, <2>3, WrittenExactly
<1>3. ExactMap(StateToMap(s), "options") BY StateWritten, SoundParts, WrittenExactly
<1> QED BY <1>1, <1>2, <1>3, WrittenNodes DEF ConfigsIn

LEMMA ConfigsStep ==
  ASSUME IInv, ConfigsIn(file), [Next]_vars
  PROVE  ConfigsIn(file')
<1>1. CASE Emit
  <2>1. SoundState(state) BY <1>1 DEF IInv, TypeOK, Idle, Emit
  <2> QED BY <1>1, <2>1, WrittenConfigs DEF Emit
<1>2. CASE ~Emit
  <2>1. file' = file
    BY <1>2, WriteIsWriteOverlay DEF Next, Materialize, Vendor, WriteOverlay, ReadState, ReadOverlay, FoldEvent,
       Fail, Resolve, ReadForVendor, HandOver, Authenticate, vars
  <2> QED BY <2>1
<1> QED BY <1>1, <1>2

\* The node that a map of a document or an event is read as, with its configuration.
LEMMA NodeRead ==
  ASSUME NEW m, ExactMap(m, "config"), NEW agents, NEW objects,
         \/ GoodAgent(m) /\ AgentOf(m) \in agents
         \/ GoodObject(m) /\ ObjectOf(m) \in objects
  PROVE  \E x \in agents \cup objects : x.name = String(m, "name") /\ x.config = ConfigIn(m)
<1>1. AgentOf(m).name = String(m, "name") /\ AgentOf(m).config = StringMap(m, "config") BY DEF AgentOf
<1>2. ObjectOf(m).name = String(m, "name") /\ ObjectOf(m).config = StringMap(m, "config") BY DEF ObjectOf
<1> QED BY <1>1, <1>2, ReadExactly DEF ConfigIn

ConfigKeptNow ==
  Proceeds =>
    /\ OptionsIn(View') = ExpectedOptions(View)
    /\ \A m \in NodeMaps(View, {"agents", "objects"}) \cup Adds({"add_agent", "add_object"}),
          n \in NodeMaps(View', {"agents", "objects"}) :
         String(m, "name") = String(n, "name") => ConfigIn(n) = Expected(m)

\* What an event of a map adds to another is added as it is written.
LEMMA ComingExact ==
  ASSUME ExactConfigs(Documents), IInv, pending # <<>>
  PROVE  /\ Coming = Head(pending)
         /\ Coming.op = "update_config" => StringMap(Coming.payload, "config") = Map(Coming.payload, "config")
         /\ Coming.op = "set_options" => StringMap(Coming.payload, "options") = Map(Coming.payload, "options")
<1>1. Coming = Head(pending) BY DEF Coming
<1>2. Coming \in Events BY <1>1 DEF IInv, TypeOK
<1>3. GoodPayload(Coming.op, Coming.payload) BY <1>2, EventsAreGood
<1>4. ASSUME Coming.op = "update_config"
      PROVE  StringMap(Coming.payload, "config") = Map(Coming.payload, "config")
  <2>1. Type(Coming.payload, "config") = "object" BY <1>3, <1>4 DEF GoodPayload
  <2>2. ExactMap(Coming.payload, "config") BY <1>2, <1>4 DEF ExactConfigs
  <2> QED BY <2>1, <2>2 DEF ExactMap, StringMap
<1>5. ASSUME Coming.op = "set_options"
      PROVE  StringMap(Coming.payload, "options") = Map(Coming.payload, "options")
  <2>1. Type(Coming.payload, "options") = "object" BY <1>3, <1>5 DEF GoodPayload
  <2>2. ExactMap(Coming.payload, "options") BY <1>2, <1>5 DEF ExactConfigs
  <2> QED BY <2>1, <2>2 DEF ExactMap, StringMap
<1> QED BY <1>1, <1>4, <1>5

LEMMA ConfigStep ==
  ASSUME ExactConfigs(Documents), IInv, IInv', Vendored, ConfigsIn(file), ConfigsIn(file'), Next
  PROVE  ConfigKeptNow
<1> DEFINE lists == {"agents", "objects"}
           ops == {"add_agent", "add_object"}
<1> SUFFICES ASSUME Proceeds PROVE ConfigKeptNow BY DEF ConfigKeptNow
<1>1. SoundState(Held) /\ Keeps(Held, Held', Coming) /\ (state' # NoState \/ GoodState(file')) BY StepKeeps
<1>2. GoodState(View) /\ StateOf(View) = Held BY ViewRead DEF Proceeds
<1>3. GoodState(View') /\ StateOf(View') = Held'
  <2>1. CASE state' = NoState BY <1>1, <2>1 DEF View, Held
  <2>2. CASE state' # NoState BY <2>2, StateRoundTrip DEF View, Held, IInv
  <2> QED BY <2>1, <2>2
<1>4. ConfigsIn(View) /\ ConfigsIn(View')
  <2>1. ConfigsIn(View) BY WrittenConfigs DEF View, IInv
  <2>2. ConfigsIn(View') BY WrittenConfigs DEF View, IInv
  <2> QED BY <2>1, <2>2
<1>5. OptionsIn(View') = ExpectedOptions(View)
  <2>1. StateOf(View).options = OptionsIn(View) /\ StateOf(View').options = OptionsIn(View')
    BY <1>2, <1>3, <1>4, ReadExactly DEF ConfigsIn, StateOf, State, OptionsIn
  <2>2. Held'.options = OptionsAfter(Held, Coming) BY <1>1 DEF Keeps
  <2>3. CASE pending = <<>>
    <3>1. Coming.op = "nothing" BY <2>3 DEF Coming, Nothing
    <3> QED BY <1>2, <1>3, <2>1, <2>2, <2>3, <3>1 DEF OptionsAfter, ExpectedOptions
  <2>4. CASE pending # <<>>
    BY <1>2, <1>3, <2>1, <2>2, <2>4, ComingExact DEF OptionsAfter, ExpectedOptions
  <2> QED BY <2>3, <2>4
<1> DEFINE before == AgentsBefore(Held, Coming) \cup ObjectsBefore(Held, Coming)
<1>6. ASSUME NEW m \in NodeMaps(View, lists) \cup Adds(ops),
             NEW n \in NodeMaps(View', lists), String(m, "name") = String(n, "name")
      PROVE  ConfigIn(n) = Expected(m)
  <2>1. PICK x \in before : x.name = String(m, "name") /\ x.config = ConfigIn(m)
    <3>1. CASE m \in NodeMaps(View, lists)
      <4>1. ExactMap(m, "config") BY <1>2, <1>4, <3>1 DEF ConfigsIn
      <4>2. \/ GoodAgent(m) /\ AgentOf(m) \in AgentsBefore(Held, Coming)
            \/ GoodObject(m) /\ ObjectOf(m) \in ObjectsBefore(Held, Coming)
        BY <1>2, <3>1, Listed DEF AgentsBefore, ObjectsBefore
      <4> QED BY <4>1, <4>2, NodeRead
    <3>2. CASE m \in Adds(ops)
      <4>1. ops \in SUBSET {"add_agent", "add_object"} OBVIOUS
      <4>2. Coming \in Events /\ Coming.op \in ops /\ m = Coming.payload BY <3>2, <4>1, AddsComing
      <4>3. \/ GoodAgent(m) /\ AgentOf(m) \in AgentsBefore(Held, Coming)
            \/ GoodObject(m) /\ ObjectOf(m) \in ObjectsBefore(Held, Coming)
        BY <3>2, <4>1, <4>2, AddsComing
      <4>4. ExactMap(m, "config") BY <4>2 DEF ExactConfigs
      <4> QED BY <4>3, <4>4, NodeRead
    <3> QED BY <3>1, <3>2
  <2>2. PICK y \in Held'.agents \cup Held'.objects : y.name = String(n, "name") /\ y.config = ConfigIn(n)
    <3>1. ExactMap(n, "config") BY <1>3, <1>4 DEF ConfigsIn
    <3>2. \/ GoodAgent(n) /\ AgentOf(n) \in Held'.agents
          \/ GoodObject(n) /\ ObjectOf(n) \in Held'.objects
      BY <1>3, Listed
    <3> QED BY <3>1, <3>2, NodeRead
  <2>3. PICK a \in before : a.name = y.name /\ y.config = ConfigAfter(a, Coming)
    BY <1>1 DEF Keeps, KeepsNodes, KeepsAgent, KeepsObject
  <2>4. a = x
    <3>1. Unique(before) BY <1>1 DEF Keeps, KeepsNodes
    <3> QED BY <1>6, <2>1, <2>2, <2>3, <3>1 DEF Unique
  <2>5. ConfigIn(n) = ConfigAfter(x, Coming) BY <2>2, <2>3, <2>4
  <2>6. ConfigAfter(x, Coming) = Expected(m)
    <3>1. CASE pending = <<>>
      <4>1. Coming.op = "nothing" BY <3>1 DEF Coming, Nothing
      <4> QED BY <2>1, <3>1, <4>1 DEF ConfigAfter, Expected
    <3>2. CASE pending # <<>> BY <2>1, <3>2, ComingExact DEF ConfigAfter, Expected
    <3> QED BY <3>1, <3>2
  <2> QED BY <2>5, <2>6
<1> QED BY <1>5, <1>6 DEF ConfigKeptNow

\* The same of the configurations of agents and objects, and of the swarm's options: they are
\* written as they were read, or as the event that updates them says (encode.go, fold.go).
THEOREM ConfigsAreKept == ExactConfigs(Documents) => (Spec => ConfigKept)
<1> SUFFICES ASSUME ExactConfigs(Documents) PROVE Spec => ConfigKept OBVIOUS
<1> DEFINE Inv == IInv /\ Vendored /\ ConfigsIn(file)
<1>1. Init => Inv
  <2>1. Init => Vendored BY DEF Init, Vendored
  <2>2. Init => ConfigsIn(file) BY DEF Init, ConfigsIn, ExactConfigs
  <2> QED BY <2>1, <2>2, InitInv
<1>2. Inv /\ [Next]_vars => Inv'
  <2> SUFFICES ASSUME Inv, [Next]_vars PROVE Inv' OBVIOUS
  <2>1. IInv' BY StepInv
  <2>2. Vendored' BY VendoredStep
  <2>3. ConfigsIn(file') BY ConfigsStep
  <2> QED BY <2>1, <2>2, <2>3 DEF ConfigsIn
<1>3. Inv /\ Inv' /\ [Next]_vars => [ConfigKeptNow]_vars
  <2> SUFFICES ASSUME Inv, Inv', Next PROVE ConfigKeptNow OBVIOUS
  <2>1. ConfigsIn(file') BY DEF ConfigsIn
  <2> QED BY <2>1, ConfigStep
<1> HIDE DEF Inv
<1> QED BY <1>1, <1>2, <1>3, PTL DEF Spec, ConfigKept, ConfigKeptNow
=============================================================================
