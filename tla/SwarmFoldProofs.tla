-------------------------- MODULE SwarmFoldProofs --------------------------
(***************************************************************************)
(* What holds of SwarmFold for any seeds, names, overlays and logs.        *)
(***************************************************************************)
EXTENDS SwarmFold, SequenceTheorems, WellFoundedInduction, TLAPS

-----------------------------------------------------------------------------
(* Numbers and names                                                       *)

\* A set of naturals that is not empty has a least element.
LEMMA LeastExists ==
  ASSUME NEW S, S \subseteq Nat, S # {}
  PROVE  \E x \in S : \A y \in S : x <= y
<1> DEFINE R == OpToRel(<, Nat)
<1>1. \E x \in S : \A y \in S : ~(<<y, x>> \in R)
  <2>1. IsWellFoundedOn(R, Nat)
    BY NatLessThanWellFounded
  <2> HIDE DEF R
  <2> QED
    BY <2>1, WFMin
<1>2. \A x, y \in Nat : y < x => <<y, x>> \in R
  BY DEF OpToRel
<1> HIDE DEF R
<1>3. PICK x \in S : \A y \in S : ~(<<y, x>> \in R)
  BY <1>1
<1>4. ASSUME NEW y \in S PROVE x <= y
  <2>1. ~(y < x)
    BY <1>2, <1>3
  <2> QED
    BY <2>1, x \in Nat, y \in Nat
<1> QED
  BY <1>4

\* An instance's name is its base and a number: different for each number, and
\* never the base itself.
LEMMA InstanceNameFacts ==
  ASSUME NEW base \in Names, NEW i \in Nat
  PROVE  /\ InstanceName(base, i) \in Names
         /\ InstanceName(base, i).root = base.root
         /\ InstanceName(base, i).nums # <<>>
         /\ Stem(InstanceName(base, i)) = base
         /\ Member(InstanceName(base, i), base)
         /\ InstanceName(base, i) # base
         /\ \A j \in Nat : InstanceName(base, i) = InstanceName(base, j) => i = j
<1>1. PICK r \in Roots, ns \in Seq(Nat) : base = [root |-> r, nums |-> ns]
  BY DEF Names
<1> DEFINE m == Append(ns, i)
<1>2. /\ m \in Seq(Nat)
      /\ m[Len(ns) + 1] = i
      /\ SubSeq(m, 1, Len(m) - 1) = ns
      /\ m # <<>> /\ m # ns
  OBVIOUS
<1>3. InstanceName(base, i) = [root |-> r, nums |-> m]
  BY <1>1 DEF InstanceName
<1>4. base.nums = ns /\ base.root = r
  BY <1>1
<1> HIDE DEF m
<1>5. Stem(InstanceName(base, i)) = base
  <2>1. InstanceName(base, i).root = r /\ InstanceName(base, i).nums = m
    BY <1>3
  <2> HIDE <1>3
  <2> QED
    BY <2>1, <1>1, <1>2 DEF Stem
<1>6. ASSUME NEW j \in Nat, InstanceName(base, i) = InstanceName(base, j)
      PROVE  i = j
  <2>1. InstanceName(base, j) = [root |-> r, nums |-> Append(ns, j)]
    BY <1>1 DEF InstanceName
  <2>2. Append(ns, j) = m
    BY <2>1, <1>3, <1>6
  <2>3. Append(ns, j)[Len(ns) + 1] = j
    OBVIOUS
  <2> QED
    BY <2>2, <2>3, <1>2
<1> QED
  BY <1>1, <1>2, <1>3, <1>4, <1>5, <1>6 DEF Member, Names

\* Members of a group have the root of its base.
LEMMA MemberRoot ==
  ASSUME NEW name \in Names, NEW base \in Names, Member(name, base)
  PROVE  name.root = base.root
BY DEF Member, Stem, Names

\* A group that is not empty has a template, one of its agents: that of the base's name,
\* or a first one.
LEMMA TemplateInGroup ==
  ASSUME NEW s \in Swarm, NEW base, Group(s, base) # {}
  PROVE  /\ Template(s, base) \in Group(s, base)
         /\ \/ Template(s, base).name = base
            \/ \A m \in Group(s, base) : m.name # base /\ Template(s, base).at <= m.at
<1>1. \A a \in Group(s, base) : a \in Agent
  BY DEF Group, Swarm
<1>2. PICK a \in Group(s, base) :
        a.name = base \/ \A m \in Group(s, base) : m.name # base /\ a.at <= m.at
  <2>1. CASE \E a \in Group(s, base) : a.name = base
    BY <2>1
  <2>2. CASE ~ \E a \in Group(s, base) : a.name = base
    <3>1. {a.at : a \in Group(s, base)} \subseteq Nat /\ {a.at : a \in Group(s, base)} # {}
      BY <1>1 DEF Agent
    <3>2. PICK k \in {a.at : a \in Group(s, base)} :
            \A l \in {a.at : a \in Group(s, base)} : k <= l
      BY <3>1, LeastExists
    <3> QED
      BY <3>2, <2>2
  <2> QED
    BY <2>1, <2>2
<1> QED
  BY <1>2 DEF Template
-----------------------------------------------------------------------------
(* Types: what each operation of fold.go and resolveState make of a swarm. *)

Typed(s) == s \in Swarm /\ InPlaces(s)

LEMMA AddedObjectTyped ==
  ASSUME NEW s, Typed(s), NEW name \in Names, NEW refs \in [ObjectSlots -> Ref]
  PROVE  Typed(WithObject(s, name, refs))
<1> DEFINE o == [name |-> name, refs |-> refs, config |-> NoConfig]
<1>1. o \in Object
  BY ConfigAssumption DEF Object
<1>2. WithObject(s, name, refs) = [s EXCEPT !.objects = s.objects \cup {o}]
  BY DEF WithObject
<1> HIDE DEF o
<1> QED
  BY <1>1, <1>2 DEF Typed, InPlaces, Swarm

LEMMA AddedAgentTyped ==
  ASSUME NEW s, Typed(s), NEW name \in Names, NEW refs \in [AgentSlots -> Ref]
  PROVE  Typed(WithAgent(s, name, refs))
<1> DEFINE a == [name |-> name, at |-> s.places + 1, refs |-> refs, config |-> NoConfig]
           t == WithAgent(s, name, refs)
<1>1. s \in Swarm /\ s.places \in Nat /\ \A b \in s.agents : b.at \in 1..s.places
  BY DEF Typed, Swarm, InPlaces
<1>2. a \in Agent /\ a.at = s.places + 1
  BY <1>1, ConfigAssumption DEF Agent
<1>3. t = [s EXCEPT !.agents = s.agents \cup {a}, !.places = s.places + 1]
  BY DEF WithAgent
<1> HIDE DEF a, t
<1>4. t.agents = s.agents \cup {a} /\ t.places = s.places + 1
  BY <1>1, <1>3 DEF Swarm
<1>5. t \in Swarm
  <2>1. s.agents \cup {a} \in SUBSET Agent /\ s.places + 1 \in Nat
    BY <1>1, <1>2 DEF Swarm
  <2> QED
    BY <1>1, <1>3, <2>1 DEF Swarm
<1>6. \A b \in t.agents : b.at \in 1..t.places
  BY <1>1, <1>2, <1>4
<1>7. \A b, c \in t.agents : b.at = c.at => b = c
  BY <1>1, <1>2, <1>4 DEF Typed, InPlaces
<1> QED
  BY <1>5, <1>6, <1>7 DEF Typed, InPlaces, t

LEMMA RemoveTyped ==
  ASSUME NEW s, Typed(s), NEW name
  PROVE  Typed(WithoutAgent(s, name)) /\ Typed(WithoutObject(s, name))
BY DEF Typed, InPlaces, WithoutAgent, WithoutObject, DropIncident, Swarm

\* One node is replaced by one of its kind, in its place.
LEMMA ReplacedTyped ==
  ASSUME NEW s, Typed(s), NEW x \in Nodes(s), NEW y,
         x \in Agent => y \in Agent /\ y.at = x.at,
         x \in Object => y \in Object
  PROVE  Typed(Replaced(s, x, y))
<1>1. CASE x \in s.agents
  <2>1. Replaced(s, x, y) = [s EXCEPT !.agents = (s.agents \ {x}) \cup {y}]
    BY <1>1 DEF Replaced
  <2> QED
    BY <1>1, <2>1 DEF Typed, InPlaces, Swarm
<1>2. CASE x \notin s.agents
  <2>1. Replaced(s, x, y) = [s EXCEPT !.objects = (s.objects \ {x}) \cup {y}]
    BY <1>2 DEF Replaced
  <2> QED
    BY <1>2, <2>1 DEF Typed, InPlaces, Swarm, Nodes
<1> QED
  BY <1>1, <1>2

LEMMA AddressedNode ==
  ASSUME NEW s, NEW name, NEW x \in Addressed(s, name)
  PROVE  x \in Nodes(s) /\ x.name = name
BY DEF Addressed, Nodes

LEMMA ConfiguredTyped ==
  ASSUME NEW x, NEW config \in Configs
  PROVE  LET y == [x EXCEPT !.config = Merge(@, config)]
         IN /\ x \in Agent => y \in Agent /\ y.at = x.at /\ y.name = x.name
            /\ x \in Object => y \in Object /\ y.name = x.name
BY ConfigAssumption DEF Agent, Object

LEMMA BumpedTyped ==
  ASSUME NEW x, NEW field \in DOMAIN x.refs, NEW to \in Digests
  PROVE  LET y == [x EXCEPT !.refs[field].digest = to]
         IN /\ x \in Agent => y \in Agent /\ y.at = x.at /\ y.name = x.name
            /\ x \in Object => y \in Object /\ y.name = x.name
BY DEF Agent, Object, Ref

LEMMA PinnedTyped ==
  ASSUME NEW x, NEW releases \in Snapshots,
         \A f \in ResolvableSlots(x) : Agrees(x.refs[f], f, releases)
  PROVE  LET y == Pinned(x, releases)
         IN /\ x \in Agent => y \in Agent /\ y.at = x.at /\ y.name = x.name
            /\ x \in Object => y \in Object /\ y.name = x.name
<1> DEFINE refs == [f \in DOMAIN x.refs |->
                     IF f \in ResolvableSlots(x)
                     THEN [x.refs[f] EXCEPT !.digest = releases[x.refs[f].pkg].digest]
                     ELSE x.refs[f]]
<1>1. ASSUME NEW f \in ResolvableSlots(x), x.refs[f] \in Ref
      PROVE  [x.refs[f] EXCEPT !.digest = releases[x.refs[f].pkg].digest] \in Ref
  BY <1>1, DataAssumption DEF Agrees, Ref, Release
<1>2. \A S : x.refs \in [S -> Ref] => refs \in [S -> Ref]
  BY <1>1
<1>3. Pinned(x, releases) = [x EXCEPT !.refs = refs]
  BY DEF Pinned
<1> HIDE DEF refs
<1> QED
  BY <1>2, <1>3 DEF Agent, Object

\* What an instance is: its template's slots under a name and at a place of its own.
Instance(s, base, i) ==
  [Template(s, base) EXCEPT !.name = InstanceName(base, i), !.at = s.places + i]
Instances(s, base, n) == {Instance(s, base, i) : i \in 1..n}

LEMMA ScaledParts ==
  ASSUME NEW s \in Swarm, NEW base \in Names, NEW n \in Nat, Group(s, base) # {}
  PROVE  /\ Scaled(s, base, n).agents =
              (s.agents \ Group(s, base)) \cup Instances(s, base, n)
         /\ Scaled(s, base, n).objects = s.objects
         /\ Scaled(s, base, n).options = s.options
         /\ Scaled(s, base, n).places = s.places + n
         /\ Scaled(s, base, n).topology =
              FanOutEdges(s.topology, base, NamesOf(Group(s, base)), n)
BY DEF Scaled, Instance, Instances, Swarm

LEMMA InstanceTyped ==
  ASSUME NEW s \in Swarm, NEW base \in Names, NEW n \in Nat, NEW i \in 1..n, Group(s, base) # {}
  PROVE  LET a == Instance(s, base, i)
         IN a \in Agent /\ a.name = InstanceName(base, i) /\ a.at = s.places + i
<1>1. Template(s, base) \in Agent
  BY TemplateInGroup DEF Group, Swarm
<1>2. InstanceName(base, i) \in Names
  BY InstanceNameFacts
<1>3. s.places + i \in Nat
  BY DEF Swarm
<1> QED
  BY <1>1, <1>2, <1>3 DEF Instance, Agent

\* The ends of an expanded edge: instances where the group was, others as they were.
LEMMA ExpandedEnds ==
  ASSUME NEW f, NEW t, NEW base \in Names, NEW n \in Nat, NEW e \in ExpandEdge(f, t, base, n)
  PROVE  /\ e = <<e[1], e[2]>>
         /\ IF f = base THEN e[1] \in InstanceNames(base, n) ELSE e[1] = f
         /\ IF t = base THEN e[2] \in InstanceNames(base, n) ELSE e[2] = t
BY DEF ExpandEdge

LEMMA ScaledTyped ==
  ASSUME NEW s, Typed(s), NEW base \in Names, NEW n \in Nat, Group(s, base) # {}
  PROVE  Typed(Scaled(s, base, n))
<1> DEFINE t == Scaled(s, base, n)
<1> USE DEF Typed
<1>0. s \in Swarm /\ s.places \in Nat
  BY DEF Swarm
<1>1. /\ t.agents = (s.agents \ Group(s, base)) \cup Instances(s, base, n)
      /\ t.places = s.places + n
      /\ t.topology = FanOutEdges(s.topology, base, NamesOf(Group(s, base)), n)
      /\ t = [s EXCEPT !.agents = t.agents, !.topology = t.topology, !.places = t.places]
  BY <1>0 DEF Scaled, Instance, Instances, Swarm
<1> HIDE DEF t
<1>2. \A i \in 1..n : /\ Instance(s, base, i) \in Agent
                      /\ Instance(s, base, i).at = s.places + i
  BY InstanceTyped
<1>3. \A i \in 1..n : InstanceName(base, i) \in Names
  BY InstanceNameFacts
<1>4. t.topology \subseteq Names \X Names
  <2> SUFFICES ASSUME NEW e \in t.topology PROVE e \in Names \X Names
    OBVIOUS
  <2>1. PICK d \in s.topology :
          e \in ExpandEdge(Collapsed(d[1], base, NamesOf(Group(s, base))),
                           Collapsed(d[2], base, NamesOf(Group(s, base))), base, n)
    BY <1>1 DEF FanOutEdges
  <2>2. d[1] \in Names /\ d[2] \in Names
    BY DEF Swarm
  <2> QED
    BY <2>1, <2>2, <1>3, ExpandedEnds DEF Collapsed, InstanceNames
<1>5. t.agents \subseteq Agent /\ t.places \in Nat
  <2>1. s.agents \in SUBSET Agent
    BY <1>0 DEF Swarm
  <2> QED
    <3>1. Instances(s, base, n) \subseteq Agent
      BY <1>2 DEF Instances
    <3>2. t.places \in Nat
      BY <1>0, <1>1
    <3> QED
      BY <1>1, <2>1, <3>1, <3>2
<1>6. t \in Swarm
  BY <1>0, <1>1, <1>4, <1>5 DEF Swarm
<1>7. InPlaces(t)
  <2>1. s.places \in Nat
    BY <1>0
  <2>2. \A a \in s.agents : a.at \in 1..s.places
    BY DEF InPlaces
  <2>3. \A a \in t.agents :
          \/ a \in s.agents /\ a.at \in 1..s.places
          \/ \E i \in 1..n : a = Instance(s, base, i) /\ a.at = s.places + i
    BY <1>1, <1>2, <2>2 DEF Instances
  <2>4. ASSUME NEW a \in t.agents PROVE a.at \in 1..t.places
    <3>1. t.places = s.places + n
      BY <1>1
    <3> QED
      BY <2>1, <2>3, <3>1
  <2>5. ASSUME NEW a \in t.agents, NEW b \in t.agents, a.at = b.at PROVE a = b
    <3>1. CASE a \in s.agents /\ a.at \in 1..s.places
      <4>1. b \in s.agents
        BY <2>1, <2>3, <2>5, <3>1
      <4> QED
        BY <3>1, <4>1, <2>5 DEF InPlaces
    <3>2. CASE \E i \in 1..n : a = Instance(s, base, i) /\ a.at = s.places + i
      <4>1. PICK i \in 1..n : a = Instance(s, base, i) /\ a.at = s.places + i
        BY <3>2
      <4>2. PICK j \in 1..n : b = Instance(s, base, j) /\ b.at = s.places + j
        BY <2>1, <2>3, <2>5, <4>1
      <4>3. i = j
        BY <4>1, <4>2, <2>5, <2>1
      <4> QED
        BY <4>1, <4>2, <4>3
    <3> QED
      BY <2>3, <3>1, <3>2
  <2> QED
    BY <2>4, <2>5 DEF InPlaces
<1> QED
  BY <1>6, <1>7 DEF t

-----------------------------------------------------------------------------
\* TypeOK: every materialization makes swarms of the declared shape, and no two
\* agents are ever in one place.
THEOREM TypeCorrect == Spec => []TypeOK
<1>1. Init => TypeOK
  BY DataAssumption, PayloadAssumption DEF Init, TypeOK
<1>2. TypeOK /\ [Next]_vars => TypeOK'
  <2> SUFFICES ASSUME TypeOK, [Next]_vars PROVE TypeOK'
    OBVIOUS
  <2> USE PayloadAssumption
  <2>0. Typed(swarm) /\ swarm \in Swarm
    BY DEF TypeOK, Typed
  <2>1. ASSUME NEW s, Fold(s), Typed(s) PROVE TypeOK'
    BY <2>1 DEF TypeOK, Typed, Fold
  <2>2. ASSUME NEW name \in AgentNames, NEW refs \in AgentRefs, AddAgent(name, refs)
        PROVE  TypeOK'
    <3>1. name \in Names /\ refs \in [AgentSlots -> Ref]
      OBVIOUS
    <3>2. Typed(WithAgent(swarm, name, refs))
      BY <2>0, <3>1, AddedAgentTyped
    <3> QED
      BY <2>1, <2>2, <3>2 DEF AddAgent
  <2>3. ASSUME NEW name \in ObjectNames, NEW refs \in ObjectRefs, AddObject(name, refs)
        PROVE  TypeOK'
    <3>1. name \in Names /\ refs \in [ObjectSlots -> Ref]
      OBVIOUS
    <3>2. Typed(WithObject(swarm, name, refs))
      BY <2>0, <3>1, AddedObjectTyped
    <3> QED
      BY <2>1, <2>3, <3>2 DEF AddObject
  <2>4. ASSUME NEW name \in Targets, RemoveAgent(name) \/ RemoveObject(name) PROVE TypeOK'
    BY <2>0, <2>1, <2>4, RemoveTyped DEF RemoveAgent, RemoveObject
  <2>5. ASSUME NEW edges \in EdgeLists, AddTopologyEdges(edges) \/ RemoveTopologyEdges(edges)
        PROVE  TypeOK'
    <3> DEFINE more == [swarm EXCEPT !.topology = @ \cup edges]
               less == [swarm EXCEPT !.topology = @ \ edges]
    <3>1. Typed(more) /\ Typed(less)
      BY <2>0 DEF Typed, InPlaces, Swarm
    <3> HIDE DEF more, less
    <3>2. Fold(more) \/ Fold(less)
      BY <2>5 DEF AddTopologyEdges, RemoveTopologyEdges, more, less
    <3> QED
      BY <2>1, <3>1, <3>2
  <2>6. ASSUME NEW config \in Configs, SetOptions(config) PROVE TypeOK'
    <3> DEFINE s == [swarm EXCEPT !.options = Merge(@, config)]
    <3>1. Merge(swarm.options, config) \in Configs
      BY <2>0, ConfigAssumption DEF Swarm
    <3>2. Typed(s)
      BY <2>0, <3>1 DEF Typed, InPlaces, Swarm
    <3>3. Fold(s)
      BY <2>6 DEF SetOptions
    <3> HIDE DEF s
    <3> QED
      BY <2>1, <3>2, <3>3
  <2>7. ASSUME NEW config \in Configs, NEW name \in Targets, UpdateConfig(name, config)
        PROVE  TypeOK'
    <3>1. PICK x \in Addressed(swarm, name) :
            Fold(Replaced(swarm, x, [x EXCEPT !.config = Merge(@, config)]))
      BY <2>7 DEF UpdateConfig
    <3> DEFINE y == [x EXCEPT !.config = Merge(@, config)]
    <3>2. (x \in Agent => y \in Agent /\ y.at = x.at) /\ (x \in Object => y \in Object)
      BY ConfiguredTyped
    <3>3. x \in Nodes(swarm)
      BY AddressedNode
    <3>4. Fold(Replaced(swarm, x, y))
      BY <3>1
    <3> HIDE DEF y
    <3>5. Typed(Replaced(swarm, x, y))
      BY <2>0, <3>2, <3>3, ReplacedTyped
    <3> QED
      BY <2>1, <3>4, <3>5
  <2>8. ASSUME NEW name \in Targets, NEW field \in AgentSlots \cup ObjectSlots,
               NEW from \in Digests, NEW to \in Digests, BumpPackage(name, field, from, to)
        PROVE  TypeOK'
    <3>1. PICK x \in Addressed(swarm, name) :
            /\ Bumpable(x, field, from)
            /\ Fold(Replaced(swarm, x, [x EXCEPT !.refs[field].digest = to]))
      BY <2>8 DEF BumpPackage
    <3> DEFINE y == [x EXCEPT !.refs[field].digest = to]
    <3>2. (x \in Agent => y \in Agent /\ y.at = x.at) /\ (x \in Object => y \in Object)
      <4>1. field \in DOMAIN x.refs
        BY <3>1 DEF Bumpable
      <4> QED
        BY <4>1, BumpedTyped
    <3>3. x \in Nodes(swarm)
      BY AddressedNode
    <3>4. Fold(Replaced(swarm, x, y))
      BY <3>1
    <3> HIDE DEF y
    <3>5. Typed(Replaced(swarm, x, y))
      BY <2>0, <3>2, <3>3, ReplacedTyped
    <3> QED
      BY <2>1, <3>4, <3>5
  <2>9. ASSUME NEW base \in Bases, NEW n \in Counts, ScaleAgentGroup(base, n) PROVE TypeOK'
    BY <2>0, <2>1, <2>9, ScaledTyped DEF ScaleAgentGroup
  <2>10. CASE Refuse
    <3>1. events' \in 0..MaxEvents
      BY <2>10 DEF Refuse, TypeOK
    <3> QED
      BY <2>10, <3>1 DEF Refuse, TypeOK
  <2>11. ASSUME NEW releases \in Snapshots, Resolve(releases) PROVE TypeOK'
    <3> DEFINE as == {Pinned(a, releases) : a \in swarm.agents}
               os == {Pinned(o, releases) : o \in swarm.objects}
    <3>1. \A x \in Nodes(swarm) : LET y == Pinned(x, releases) IN
            /\ x \in Agent => y \in Agent /\ y.at = x.at
            /\ x \in Object => y \in Object
      BY <2>11, PinnedTyped DEF Resolve, AllAgree
    <3>2. /\ \A a \in swarm.agents : Pinned(a, releases) \in Agent /\ Pinned(a, releases).at = a.at
          /\ \A o \in swarm.objects : Pinned(o, releases) \in Object
      BY <2>0, <3>1 DEF Nodes, Swarm
    <3>3. swarm' = [swarm EXCEPT !.agents = as, !.objects = os]
      BY <2>11 DEF Resolve
    <3>4. \A b \in as : \E a \in swarm.agents : b = Pinned(a, releases) /\ b.at = a.at /\ b \in Agent
      BY <3>2
    <3>5. os \subseteq Object
      BY <3>2
    <3> HIDE DEF as, os
    <3>6. swarm'.agents = as /\ swarm'.places = swarm.places /\ swarm' \in Swarm
      BY <2>0, <3>3, <3>4, <3>5 DEF Swarm
    <3>7. InPlaces(swarm')
      <4>1. \A b \in swarm'.agents : b.at \in 1..swarm'.places
        BY <2>0, <3>4, <3>6 DEF InPlaces, Typed
      <4>2. \A b, c \in swarm'.agents : b.at = c.at => b = c
        <5>1. \A a1, a2 \in swarm.agents : a1.at = a2.at => a1 = a2
          BY <2>0 DEF InPlaces, Typed
        <5> QED
          <6> SUFFICES ASSUME NEW b \in as, NEW c \in as, b.at = c.at PROVE b = c
            BY <3>6
          <6>1. PICK a1 \in swarm.agents : b = Pinned(a1, releases) /\ b.at = a1.at
            BY <3>4
          <6>2. PICK a2 \in swarm.agents : c = Pinned(a2, releases) /\ c.at = a2.at
            BY <3>4
          <6> QED
            BY <5>1, <6>1, <6>2
      <4> QED
        BY <4>1, <4>2 DEF InPlaces
    <3> QED
      BY <2>11, <3>6, <3>7 DEF Resolve, TypeOK, InPlaces
  <2>12. ASSUME NEW releases \in Snapshots, ResolveFails(releases) PROVE TypeOK'
    BY <2>12 DEF ResolveFails, TypeOK, InPlaces
  <2>13. CASE Emit \/ ParseCheckpoint \/ Terminating \/ UNCHANGED vars
    BY <2>13 DEF Emit, ParseCheckpoint, Terminating, vars, TypeOK, InPlaces
  <2> QED
    BY <2>2, <2>3, <2>4, <2>5, <2>6, <2>7, <2>8, <2>9, <2>10, <2>11, <2>12, <2>13
    DEF Next, Event, Materialize
<1> QED
  BY <1>1, <1>2, PTL DEF Spec

-----------------------------------------------------------------------------
(* Validity: what the fold's own preconditions keep of what Validate asks  *)

\* Agents and objects stay within the names they can be given.
InRoots(s) ==
  /\ \A a \in s.agents : a.name.root \in AgentRoots
  /\ \A o \in s.objects : o.name.root \in ObjectRoots

Sound(s) == Typed(s) /\ Valid(s) /\ InRoots(s)

LEMMA AddedAgentSound ==
  ASSUME NEW s, Sound(s), NEW name \in AgentNames, NEW refs \in AgentRefs, ~NodeExists(s, name)
  PROVE  Sound(WithAgent(s, name, refs))
<1> DEFINE a == [name |-> name, at |-> s.places + 1, refs |-> refs, config |-> NoConfig]
           t == WithAgent(s, name, refs)
<1>1. Typed(t)
  BY AddedAgentTyped, PayloadAssumption DEF Sound
<1>2. t.agents = s.agents \cup {a} /\ t.objects = s.objects /\ t.topology = s.topology
  BY DEF Sound, Typed, Swarm, WithAgent
<1>3. a.name = name /\ name.root \in AgentRoots
  BY DEF AgentRoots
<1> HIDE DEF a, t
<1>4. Nodes(t) = Nodes(s) \cup {a}
  BY <1>2 DEF Nodes
<1>5. \A x \in Nodes(s) : x.name # name
  BY DEF NodeExists, NamesOf, Sound
<1>6. UniqueNames(t)
  BY <1>3, <1>4, <1>5 DEF Sound, Valid, UniqueNames
<1>7. ValidEdges(t)
  <2>1. NamesOf(Nodes(s)) \subseteq NamesOf(Nodes(t))
    BY <1>4 DEF NamesOf
  <2> QED
    BY <1>2, <2>1 DEF Sound, Valid, ValidEdges
<1>8. InRoots(t)
  BY <1>2, <1>3 DEF Sound, InRoots
<1> QED
  BY <1>1, <1>6, <1>7, <1>8 DEF Sound, Valid, t

LEMMA AddedObjectSound ==
  ASSUME NEW s, Sound(s), NEW name \in ObjectNames, NEW refs \in ObjectRefs, ~NodeExists(s, name)
  PROVE  Sound(WithObject(s, name, refs))
<1> DEFINE o == [name |-> name, refs |-> refs, config |-> NoConfig]
           t == WithObject(s, name, refs)
<1>1. Typed(t)
  BY AddedObjectTyped, PayloadAssumption DEF Sound
<1>2. t.agents = s.agents /\ t.objects = s.objects \cup {o} /\ t.topology = s.topology
  BY DEF Sound, Typed, Swarm, WithObject
<1>3. o.name = name /\ name.root \in ObjectRoots
  BY DEF ObjectRoots
<1> HIDE DEF o, t
<1>4. Nodes(t) = Nodes(s) \cup {o}
  BY <1>2 DEF Nodes
<1>5. \A x \in Nodes(s) : x.name # name
  BY DEF NodeExists, NamesOf, Sound
<1>6. UniqueNames(t)
  BY <1>3, <1>4, <1>5 DEF Sound, Valid, UniqueNames
<1>7. ValidEdges(t)
  <2>1. NamesOf(Nodes(s)) \subseteq NamesOf(Nodes(t))
    BY <1>4 DEF NamesOf
  <2> QED
    BY <1>2, <2>1 DEF Sound, Valid, ValidEdges
<1>8. InRoots(t)
  BY <1>2, <1>3 DEF Sound, InRoots
<1> QED
  BY <1>1, <1>6, <1>7, <1>8 DEF Sound, Valid, t

\* Nodes whose name is not the removed one stay, and so do the edges between them.
LEMMA FewerNodesSound ==
  ASSUME NEW s, Sound(s), NEW t, Typed(t), NEW name,
         t.agents \subseteq s.agents, t.objects \subseteq s.objects,
         \A x \in Nodes(s) : x.name # name => x \in Nodes(t),
         t.topology = DropIncident(s.topology, name)
  PROVE  Sound(t)
<1>1. Nodes(t) \subseteq Nodes(s)
  BY DEF Nodes
<1>2. UniqueNames(t)
  BY <1>1 DEF Sound, Valid, UniqueNames
<1>3. ValidEdges(t)
  <2> SUFFICES ASSUME NEW e \in t.topology
               PROVE  e \in NamesOf(Nodes(t)) \X NamesOf(Nodes(t))
    BY DEF ValidEdges
  <2>1. e \in s.topology /\ e[1] # name /\ e[2] # name
    BY DEF DropIncident
  <2>2. e \in NamesOf(Nodes(s)) \X NamesOf(Nodes(s))
    BY <2>1 DEF Sound, Valid, ValidEdges
  <2>3. \A z \in NamesOf(Nodes(s)) : z # name => z \in NamesOf(Nodes(t))
    BY DEF NamesOf
  <2> QED
    BY <2>1, <2>2, <2>3
<1>4. InRoots(t)
  BY DEF Sound, InRoots
<1> QED
  BY <1>2, <1>3, <1>4 DEF Sound, Valid

LEMMA RemovedSound ==
  ASSUME NEW s, Sound(s), NEW name
  PROVE  Sound(WithoutAgent(s, name)) /\ Sound(WithoutObject(s, name))
<1>1. Typed(WithoutAgent(s, name)) /\ Typed(WithoutObject(s, name))
  BY RemoveTyped DEF Sound
<1>2. /\ WithoutAgent(s, name).agents = {a \in s.agents : a.name # name}
      /\ WithoutAgent(s, name).objects = s.objects
      /\ WithoutAgent(s, name).topology = DropIncident(s.topology, name)
  BY DEF Sound, Typed, Swarm, WithoutAgent
<1>3. /\ WithoutObject(s, name).agents = s.agents
      /\ WithoutObject(s, name).objects = {o \in s.objects : o.name # name}
      /\ WithoutObject(s, name).topology = DropIncident(s.topology, name)
  BY DEF Sound, Typed, Swarm, WithoutObject
<1>4. /\ \A x \in Nodes(s) : x.name # name => x \in Nodes(WithoutAgent(s, name))
      /\ \A x \in Nodes(s) : x.name # name => x \in Nodes(WithoutObject(s, name))
  BY <1>2, <1>3 DEF Nodes
<1>5. Sound(WithoutAgent(s, name))
  BY <1>1, <1>2, <1>4, FewerNodesSound
<1>6. Sound(WithoutObject(s, name))
  BY <1>1, <1>3, <1>4, FewerNodesSound
<1> QED
  BY <1>5, <1>6

\* Agents and objects are different nodes.
LEMMA KindsApart ==
  ASSUME Apart, NEW s, InRoots(s)
  PROVE  \A a \in s.agents, o \in s.objects : a.name # o.name
BY DEF Apart, InRoots

LEMMA ReplacedSound ==
  ASSUME Apart, NEW s, Sound(s), NEW x \in Nodes(s), NEW y, y.name = x.name,
         Typed(Replaced(s, x, y))
  PROVE  Sound(Replaced(s, x, y))
<1> DEFINE t == Replaced(s, x, y)
<1>1. t.topology = s.topology
  BY DEF Replaced, Sound, Typed, Swarm
<1>2. /\ x \in s.agents => t.agents = (s.agents \ {x}) \cup {y} /\ t.objects = s.objects
      /\ x \notin s.agents => t.objects = (s.objects \ {x}) \cup {y} /\ t.agents = s.agents
  BY DEF Replaced, Sound, Typed, Swarm
<1> HIDE DEF t
<1>3. x \in s.agents => x \notin s.objects
  BY KindsApart DEF Sound
<1>4. Nodes(t) = (Nodes(s) \ {x}) \cup {y}
  BY <1>2, <1>3 DEF Nodes
<1>5. UniqueNames(t)
  BY <1>4 DEF Sound, Valid, UniqueNames
<1>6. ValidEdges(t)
  <2>1. NamesOf(Nodes(s)) \subseteq NamesOf(Nodes(t))
    BY <1>4 DEF NamesOf
  <2> QED
    BY <1>1, <2>1 DEF Sound, Valid, ValidEdges
<1>7. InRoots(t)
  BY <1>2 DEF Sound, InRoots, Nodes
<1> QED
  BY <1>5, <1>6, <1>7 DEF Sound, Valid, t

\* Where a group is scaled the instances are its only members, so that none of them
\* meets another agent's name; every edge ends at an instance or where it did.
LEMMA ScaledSound ==
  ASSUME Apart, NEW s, Sound(s), NEW base \in Bases, NEW n \in Counts, Group(s, base) # {}
  PROVE  Sound(Scaled(s, base, n))
<1> DEFINE t == Scaled(s, base, n)
           members == NamesOf(Group(s, base))
<1>1. s \in Swarm /\ base \in Names /\ n \in Nat
  BY PayloadAssumption DEF Sound, Typed
<1>2. Typed(t)
  BY <1>1, ScaledTyped DEF Sound
<1>3. /\ t.agents = (s.agents \ Group(s, base)) \cup Instances(s, base, n)
      /\ t.objects = s.objects
      /\ t.topology = FanOutEdges(s.topology, base, members, n)
  BY <1>1, ScaledParts
<1> HIDE DEF t
<1>4. \A i \in 1..n : /\ Instance(s, base, i).name = InstanceName(base, i)
                      /\ Member(InstanceName(base, i), base)
                      /\ InstanceName(base, i).root = base.root
                      /\ \A j \in 1..n : InstanceName(base, i) = InstanceName(base, j) => i = j
  <2> SUFFICES ASSUME NEW i \in 1..n
               PROVE  /\ Instance(s, base, i).name = InstanceName(base, i)
                      /\ Member(InstanceName(base, i), base)
                      /\ InstanceName(base, i).root = base.root
                      /\ \A j \in 1..n : InstanceName(base, i) = InstanceName(base, j) => i = j
    OBVIOUS
  <2>1. Instance(s, base, i).name = InstanceName(base, i)
    BY <1>1, InstanceTyped
  <2>2. i \in Nat /\ 1..n \subseteq Nat
    BY <1>1
  <2>3. /\ Member(InstanceName(base, i), base)
        /\ InstanceName(base, i).root = base.root
        /\ \A j \in Nat : InstanceName(base, i) = InstanceName(base, j) => i = j
    BY <1>1, <2>2, InstanceNameFacts
  <2> QED
    BY <2>1, <2>2, <2>3
<1>5. \A a \in Instances(s, base, n) :
        \E i \in 1..n : a = Instance(s, base, i) /\ a.name = InstanceName(base, i)
  BY <1>4 DEF Instances
<1>6. base.root \in AgentRoots
  <2>1. PICK a \in Group(s, base) : TRUE
    OBVIOUS
  <2>2. a \in s.agents /\ a.name \in Names /\ Member(a.name, base)
    BY <1>1 DEF Group, Swarm, Agent
  <2> QED
    BY <1>1, <2>2, MemberRoot DEF Sound, InRoots
<1>7. InRoots(t)
  BY <1>3, <1>4, <1>5, <1>6 DEF Sound, InRoots
<1>8. UniqueNames(t)
  <2> SUFFICES ASSUME NEW x \in Nodes(t), NEW y \in Nodes(t), x.name = y.name
               PROVE  x = y
    BY DEF UniqueNames
  <2>1. x \in t.agents <=> y \notin t.objects
    BY <1>7, KindsApart DEF Nodes
  <2>2. y \in t.agents <=> x \notin t.objects
    BY <1>7, KindsApart DEF Nodes
  <2>3. CASE x \in s.objects /\ y \in s.objects
    BY <2>3 DEF Sound, Valid, UniqueNames, Nodes
  <2>4. ASSUME NEW a \in s.agents \ Group(s, base), NEW b \in Instances(s, base, n)
        PROVE  a.name # b.name
    BY <1>4, <1>5 DEF Group
  <2>5. CASE x \in t.agents /\ y \in t.agents
    <3>1. CASE x \in s.agents /\ y \in s.agents
      BY <3>1 DEF Sound, Valid, UniqueNames, Nodes
    <3>2. CASE x \in Instances(s, base, n) /\ y \in Instances(s, base, n)
      BY <1>4, <1>5, <3>2
    <3> QED
      BY <1>3, <2>4, <2>5, <3>1, <3>2
  <2> QED
    BY <1>3, <2>1, <2>2, <2>3, <2>5 DEF Nodes
<1>9. ValidEdges(t)
  <2>1. InstanceNames(base, n) \subseteq NamesOf(Nodes(t))
    BY <1>3, <1>4 DEF InstanceNames, Instances, NamesOf, Nodes
  <2>2. ASSUME NEW z \in NamesOf(Nodes(s)), Collapsed(z, base, members) # base
        PROVE  Collapsed(z, base, members) \in NamesOf(Nodes(t))
    <3>1. PICK x \in Nodes(s) : x.name = z
      BY DEF NamesOf
    <3>2. z \notin members /\ Collapsed(z, base, members) = z
      BY <2>2 DEF Collapsed
    <3>3. x \notin Group(s, base)
      BY <3>1, <3>2 DEF NamesOf
    <3>4. x \in Nodes(t)
      BY <1>3, <3>3 DEF Nodes
    <3> QED
      BY <3>1, <3>2, <3>4 DEF NamesOf
  <2> SUFFICES ASSUME NEW e \in t.topology PROVE e \in NamesOf(Nodes(t)) \X NamesOf(Nodes(t))
    BY DEF ValidEdges
  <2>3. PICK d \in s.topology :
          e \in ExpandEdge(Collapsed(d[1], base, members), Collapsed(d[2], base, members), base, n)
    BY <1>3 DEF FanOutEdges
  <2>4. d[1] \in NamesOf(Nodes(s)) /\ d[2] \in NamesOf(Nodes(s))
    BY DEF Sound, Valid, ValidEdges
  <2> HIDE DEF members
  <2>5. /\ e = <<e[1], e[2]>>
        /\ IF Collapsed(d[1], base, members) = base
           THEN e[1] \in InstanceNames(base, n) ELSE e[1] = Collapsed(d[1], base, members)
        /\ IF Collapsed(d[2], base, members) = base
           THEN e[2] \in InstanceNames(base, n) ELSE e[2] = Collapsed(d[2], base, members)
    BY <1>1, <2>3, ExpandedEnds
  <2> QED
    BY <2>1, <2>2, <2>4, <2>5
<1> QED
  BY <1>2, <1>7, <1>8, <1>9 DEF Sound, Valid, t

\* Resolution changes no name.
LEMMA ResolvedSound ==
  ASSUME NEW s, Sound(s), NEW releases \in Snapshots, NEW t, Typed(t),
         t.agents = {Pinned(a, releases) : a \in s.agents},
         t.objects = {Pinned(o, releases) : o \in s.objects},
         t.topology = s.topology
  PROVE  Sound(t)
<1>1. \A x \in Nodes(s) : Pinned(x, releases).name = x.name
  <2>1. \A x \in Nodes(s) : x \in Agent \/ x \in Object
    BY DEF Sound, Typed, Swarm, Nodes
  <2> QED
    BY <2>1 DEF Pinned, Agent, Object
<1>2. \A x \in Nodes(s) : Pinned(x, releases) \in Nodes(t)
  BY DEF Nodes
<1>3. \A y \in Nodes(t) : \E x \in Nodes(s) : y = Pinned(x, releases) /\ y.name = x.name
  BY <1>1 DEF Nodes
<1>4. UniqueNames(t)
  <2> SUFFICES ASSUME NEW y \in Nodes(t), NEW z \in Nodes(t), y.name = z.name PROVE y = z
    BY DEF UniqueNames
  <2>1. PICK x1 \in Nodes(s) : y = Pinned(x1, releases) /\ y.name = x1.name
    BY <1>3
  <2>2. PICK x2 \in Nodes(s) : z = Pinned(x2, releases) /\ z.name = x2.name
    BY <1>3
  <2>3. x1 = x2
    BY <2>1, <2>2 DEF Sound, Valid, UniqueNames
  <2> QED
    BY <2>1, <2>2, <2>3
<1>5. ValidEdges(t)
  <2>1. NamesOf(Nodes(s)) \subseteq NamesOf(Nodes(t))
    BY <1>1, <1>2 DEF NamesOf
  <2>2. s.topology \subseteq NamesOf(Nodes(s)) \X NamesOf(Nodes(s))
    BY DEF Sound, Valid, ValidEdges
  <2>3. t.topology \subseteq NamesOf(Nodes(t)) \X NamesOf(Nodes(t))
    BY <2>1, <2>2
  <2> QED
    BY <2>3 DEF ValidEdges
<1>6. InRoots(t)
  BY <1>1 DEF Sound, InRoots, Nodes
<1> QED
  BY <1>4, <1>5, <1>6 DEF Sound, Valid

\* The inductive invariant behind validity: as long as no object has the root of an
\* agent's name, the fold keeps a swarm typed, valid and within the names it can be given.
THEOREM AlwaysSound ==
  ASSUME Apart
  PROVE  Spec => []Sound(swarm)
<1> DEFINE IInv == Sound(swarm)
<1>1. Init => IInv
  <2>1. \A s \in Seeds : Typed(s) /\ Valid(s)
    BY DataAssumption DEF Typed
  <2>2. \A s \in Seeds : InRoots(s)
    BY DEF InRoots, AgentRoots, ObjectRoots, NamesOf
  <2> QED
    BY <2>1, <2>2 DEF Init, Sound
<1>2. IInv /\ TypeOK /\ TypeOK' /\ [Next]_vars => IInv'
  <2> SUFFICES ASSUME Sound(swarm), TypeOK', [Next]_vars PROVE Sound(swarm)'
    OBVIOUS
  <2>0. Typed(swarm')
    BY DEF TypeOK, Typed, InPlaces
  <2>1. ASSUME NEW s, Fold(s), Sound(s) PROVE Sound(swarm')
    BY <2>1 DEF Fold
  <2>2. ASSUME NEW name \in AgentNames, NEW refs \in AgentRefs, AddAgent(name, refs)
        PROVE  Sound(swarm')
    BY <2>1, <2>2, AddedAgentSound DEF AddAgent
  <2>3. ASSUME NEW name \in ObjectNames, NEW refs \in ObjectRefs, AddObject(name, refs)
        PROVE  Sound(swarm')
    BY <2>1, <2>3, AddedObjectSound DEF AddObject
  <2>4. ASSUME NEW name \in Targets, RemoveAgent(name) \/ RemoveObject(name)
        PROVE  Sound(swarm')
    BY <2>1, <2>4, RemovedSound DEF RemoveAgent, RemoveObject
  <2>5. ASSUME NEW edges \in EdgeLists, AddTopologyEdges(edges) \/ RemoveTopologyEdges(edges)
        PROVE  Sound(swarm')
    <3>1. /\ swarm'.agents = swarm.agents /\ swarm'.objects = swarm.objects
          /\ \/ EdgesKnown(edges) /\ swarm'.topology = swarm.topology \cup edges
             \/ swarm'.topology = swarm.topology \ edges
      BY <2>5 DEF AddTopologyEdges, RemoveTopologyEdges, Fold, Sound, Typed, Swarm
    <3>2. Nodes(swarm') = Nodes(swarm)
      BY <3>1 DEF Nodes
    <3>3. edges \subseteq Names \X Names
      BY PayloadAssumption
    <3>4. EdgesKnown(edges) => edges \subseteq NamesOf(Nodes(swarm)) \X NamesOf(Nodes(swarm))
      BY <3>3 DEF EdgesKnown, NodeExists
    <3>5. ValidEdges(swarm')
      BY <3>1, <3>2, <3>4 DEF Sound, Valid, ValidEdges
    <3> QED
      BY <2>0, <3>1, <3>2, <3>5 DEF Sound, Valid, UniqueNames, InRoots
  <2>6. ASSUME NEW config \in Configs, SetOptions(config) PROVE Sound(swarm')
    <3>1. swarm'.agents = swarm.agents /\ swarm'.objects = swarm.objects
          /\ swarm'.topology = swarm.topology
      BY <2>6 DEF SetOptions, Fold, Sound, Typed, Swarm
    <3>2. Nodes(swarm') = Nodes(swarm)
      BY <3>1 DEF Nodes
    <3> QED
      BY <2>0, <3>1, <3>2 DEF Sound, Valid, UniqueNames, ValidEdges, InRoots
  <2>7. ASSUME NEW x \in Nodes(swarm), NEW y, y.name = x.name, Fold(Replaced(swarm, x, y))
        PROVE  Sound(swarm')
    <3>1. swarm' = Replaced(swarm, x, y)
      BY <2>7 DEF Fold
    <3> QED
      BY <2>0, <2>7, <3>1, ReplacedSound
  <2>8. \A x \in Nodes(swarm) : x \in Agent \/ x \in Object
    BY DEF Sound, Typed, Swarm, Nodes
  <2>9. ASSUME NEW config \in Configs, NEW name \in Targets, UpdateConfig(name, config)
        PROVE  Sound(swarm')
    <3>1. PICK x \in Addressed(swarm, name) :
            Fold(Replaced(swarm, x, [x EXCEPT !.config = Merge(@, config)]))
      BY <2>9 DEF UpdateConfig
    <3> DEFINE y == [x EXCEPT !.config = Merge(@, config)]
    <3>2. x \in Nodes(swarm)
      BY AddressedNode
    <3>3. y.name = x.name
      BY <2>8, <3>2, ConfiguredTyped
    <3>4. Fold(Replaced(swarm, x, y))
      BY <3>1
    <3> HIDE DEF y
    <3> QED
      BY <2>7, <3>2, <3>3, <3>4
  <2>10. ASSUME NEW name \in Targets, NEW field \in AgentSlots \cup ObjectSlots,
                NEW from \in Digests, NEW to \in Digests, BumpPackage(name, field, from, to)
         PROVE  Sound(swarm')
    <3>1. PICK x \in Addressed(swarm, name) :
            /\ Bumpable(x, field, from)
            /\ Fold(Replaced(swarm, x, [x EXCEPT !.refs[field].digest = to]))
      BY <2>10 DEF BumpPackage
    <3> DEFINE y == [x EXCEPT !.refs[field].digest = to]
    <3>2. x \in Nodes(swarm)
      BY AddressedNode
    <3>3. y.name = x.name
      <4>1. field \in DOMAIN x.refs
        BY <3>1 DEF Bumpable
      <4> QED
        BY <2>8, <3>2, <4>1, BumpedTyped
    <3>4. Fold(Replaced(swarm, x, y))
      BY <3>1
    <3> HIDE DEF y
    <3> QED
      BY <2>7, <3>2, <3>3, <3>4
  <2>11. ASSUME NEW base \in Bases, NEW n \in Counts, ScaleAgentGroup(base, n)
         PROVE  Sound(swarm')
    BY <2>1, <2>11, ScaledSound DEF ScaleAgentGroup
  <2>12. ASSUME NEW releases \in Snapshots, Resolve(releases) PROVE Sound(swarm')
    <3>1. /\ swarm'.agents = {Pinned(a, releases) : a \in swarm.agents}
          /\ swarm'.objects = {Pinned(o, releases) : o \in swarm.objects}
          /\ swarm'.topology = swarm.topology
      BY <2>12 DEF Resolve, Sound, Typed, Swarm
    <3> QED
      BY <2>0, <3>1, ResolvedSound
  <2>13. CASE swarm' = swarm
    BY <2>13
  <2>14. Refuse \/ Emit \/ ParseCheckpoint \/ Terminating \/ UNCHANGED vars
           \/ (\E releases \in Snapshots : ResolveFails(releases)) => swarm' = swarm
    BY DEF Refuse, Emit, ParseCheckpoint, Terminating, vars, ResolveFails
  <2>15. Sound(swarm')
    BY <2>2, <2>3, <2>4, <2>5, <2>6, <2>9, <2>10, <2>11, <2>12, <2>13, <2>14
    DEF Next, Event, Materialize
  <2> QED
    BY <2>15 DEF Sound, Typed, InPlaces, Valid, UniqueNames, ValidEdges, InRoots, NamesOf, Nodes
<1> QED
  BY <1>1, <1>2, TypeCorrect, PTL DEF Spec

\* ValidInBetween: as long as no object has the root of an agent's name, whatever is
\* folded, in any order and through any checkpoints, Validate accepts every state.
THEOREM ValidThroughout ==
  ASSUME Apart
  PROVE  Spec => []ValidInBetween
<1>1. Sound(swarm) => ValidInBetween
  BY DEF Sound, ValidInBetween
<1> QED
  BY <1>1, AlwaysSound, PTL

-----------------------------------------------------------------------------
(* Resolution against a log                                                *)

\* A slot that is resolved has the digest of its package's active release.
PinnedTo(x, releases) ==
  \A f \in ResolvableSlots(x) :
    /\ x.refs[f].digest = releases[x.refs[f].pkg].digest
    /\ x.refs[f].digest # NoDigest

LEMMA PinnedSlots ==
  ASSUME NEW x, x \in Agent \/ x \in Object, NEW releases \in Snapshots,
         \A f \in ResolvableSlots(x) : Agrees(x.refs[f], f, releases)
  PROVE  LET y == Pinned(x, releases)
         IN /\ DOMAIN y.refs = DOMAIN x.refs
            /\ \A f \in DOMAIN x.refs : x.refs[f].digest # NoDigest => y.refs[f] = x.refs[f]
            /\ PinnedTo(y, releases)
<1> DEFINE y == Pinned(x, releases)
<1>1. \A f \in DOMAIN x.refs : x.refs[f] \in Ref
  BY DEF Agent, Object
<1>2. /\ DOMAIN y.refs = DOMAIN x.refs
      /\ \A f \in DOMAIN x.refs :
           y.refs[f] = IF f \in ResolvableSlots(x)
                       THEN [x.refs[f] EXCEPT !.digest = releases[x.refs[f].pkg].digest]
                       ELSE x.refs[f]
  BY DEF Pinned, Agent, Object
<1> HIDE DEF y
<1>3. ASSUME NEW f \in ResolvableSlots(x)
      PROVE  /\ f \in DOMAIN x.refs
             /\ releases[x.refs[f].pkg].digest \in Digests
             /\ releases[x.refs[f].pkg].digest # NoDigest
             /\ y.refs[f].pkg = x.refs[f].pkg
             /\ y.refs[f].digest = releases[x.refs[f].pkg].digest
             /\ x.refs[f].digest # NoDigest => y.refs[f] = x.refs[f]
  <2>1. f \in DOMAIN x.refs
    BY DEF ResolvableSlots
  <2>2. releases[x.refs[f].pkg] \in Release /\ NoDigest \notin Digests
    BY DataAssumption DEF Agrees
  <2>3. x.refs[f].digest # NoDigest => x.refs[f].digest = releases[x.refs[f].pkg].digest
    BY DEF Agrees
  <2>4. y.refs[f] = [x.refs[f] EXCEPT !.digest = releases[x.refs[f].pkg].digest]
    BY <1>2, <2>1
  <2> QED
    BY <1>1, <2>1, <2>2, <2>3, <2>4 DEF Ref, Release
<1>4. ResolvableSlots(y) \subseteq ResolvableSlots(x)
  <2>1. \A f \in DOMAIN x.refs \ ResolvableSlots(x) : y.refs[f] = x.refs[f]
    BY <1>2
  <2> QED
    BY <1>2, <2>1 DEF ResolvableSlots
<1>5. PinnedTo(y, releases)
  BY <1>3, <1>4 DEF PinnedTo
<1>6. \A f \in DOMAIN x.refs : x.refs[f].digest # NoDigest => y.refs[f] = x.refs[f]
  BY <1>2, <1>3
<1> QED
  BY <1>2, <1>5, <1>6 DEF y

\* What Resolve does to the nodes.
LEMMA ResolveNodes ==
  ASSUME swarm \in Swarm, NEW releases \in Snapshots, Resolve(releases)
  PROVE  /\ swarm'.agents = {Pinned(a, releases) : a \in swarm.agents}
         /\ swarm'.objects = {Pinned(o, releases) : o \in swarm.objects}
         /\ \A x \in Nodes(swarm) :
              /\ x \in Agent \/ x \in Object
              /\ \A f \in ResolvableSlots(x) : Agrees(x.refs[f], f, releases)
              /\ Pinned(x, releases).name = x.name
<1>1. \A x \in Nodes(swarm) : x \in Agent \/ x \in Object
  BY DEF Swarm, Nodes
<1>2. \A x \in Nodes(swarm) : \A f \in ResolvableSlots(x) : Agrees(x.refs[f], f, releases)
  BY DEF Resolve, AllAgree
<1> QED
  BY <1>1, <1>2, PinnedTyped DEF Resolve, Swarm

\* PinsKept: however a materialization ends, it replaces no pin.
THEOREM NoPinReplaced == Spec => PinsKept
<1> DEFINE Step == phase = "folding" /\ phase' # "folding" =>
       \A x \in Nodes(swarm) : \E y \in Nodes(swarm') :
         /\ y.name = x.name /\ DOMAIN y.refs = DOMAIN x.refs
         /\ \A f \in DOMAIN x.refs : x.refs[f].digest # NoDigest => y.refs[f] = x.refs[f]
<1>1. TypeOK /\ [Next]_vars => [Step]_vars
  <2> SUFFICES ASSUME TypeOK, Next, phase = "folding", phase' # "folding", NEW x \in Nodes(swarm)
               PROVE  \E y \in Nodes(swarm') :
                        /\ y.name = x.name /\ DOMAIN y.refs = DOMAIN x.refs
                        /\ \A f \in DOMAIN x.refs :
                             x.refs[f].digest # NoDigest => y.refs[f] = x.refs[f]
    BY DEF vars
  <2>1. swarm' = swarm \/ \E releases \in Snapshots : Resolve(releases)
    BY DEF Next, Event, Materialize, Terminating, AddAgent, AddObject, RemoveAgent, RemoveObject,
           AddTopologyEdges, RemoveTopologyEdges, SetOptions, UpdateConfig, BumpPackage,
           ScaleAgentGroup, Fold, Refuse, Emit, ParseCheckpoint, ResolveFails
  <2>2. CASE swarm' = swarm
    BY <2>2
  <2>3. ASSUME NEW releases \in Snapshots, Resolve(releases)
        PROVE  \E y \in Nodes(swarm') :
                 /\ y.name = x.name /\ DOMAIN y.refs = DOMAIN x.refs
                 /\ \A f \in DOMAIN x.refs :
                      x.refs[f].digest # NoDigest => y.refs[f] = x.refs[f]
    <3> DEFINE y == Pinned(x, releases)
    <3>1. /\ x \in Agent \/ x \in Object
          /\ \A f \in ResolvableSlots(x) : Agrees(x.refs[f], f, releases)
          /\ y.name = x.name
      BY <2>3, ResolveNodes DEF TypeOK
    <3>2. y \in Nodes(swarm')
      BY <2>3, ResolveNodes DEF TypeOK, Nodes
    <3>3. /\ DOMAIN y.refs = DOMAIN x.refs
          /\ \A f \in DOMAIN x.refs : x.refs[f].digest # NoDigest => y.refs[f] = x.refs[f]
      BY <3>1, PinnedSlots
    <3> HIDE DEF y
    <3> QED
      BY <3>1, <3>2, <3>3
  <2> QED
    BY <2>1, <2>2, <2>3
<1> QED
  BY <1>1, TypeCorrect, PTL DEF Spec, PinsKept

\* ResolvedAgree: a resolved swarm is pinned to one log, and so to one digest of
\* each package.
THEOREM OneDigestPerPackage == Spec => []ResolvedAgree
<1> DEFINE IInv == phase = "resolved" =>
             \E releases \in Snapshots : \A x \in Nodes(swarm) : PinnedTo(x, releases)
<1>1. Init => IInv
  BY DEF Init
<1>2. IInv /\ TypeOK /\ [Next]_vars => IInv'
  <2> SUFFICES ASSUME IInv, TypeOK, [Next]_vars, phase' = "resolved"
               PROVE  \E releases \in Snapshots : \A x \in Nodes(swarm') : PinnedTo(x, releases)
    BY DEF Nodes, PinnedTo, ResolvableSlots
  <2>1. UNCHANGED vars \/ \E releases \in Snapshots : Resolve(releases)
    BY DEF Next, Event, Materialize, Terminating, AddAgent, AddObject, RemoveAgent, RemoveObject,
           AddTopologyEdges, RemoveTopologyEdges, SetOptions, UpdateConfig, BumpPackage,
           ScaleAgentGroup, Fold, Refuse, Emit, ParseCheckpoint, ResolveFails
  <2>2. CASE UNCHANGED vars
    BY <2>2 DEF vars
  <2>3. ASSUME NEW releases \in Snapshots, Resolve(releases)
        PROVE  \A x \in Nodes(swarm') : PinnedTo(x, releases)
    <3>1. ASSUME NEW x \in Nodes(swarm) PROVE PinnedTo(Pinned(x, releases), releases)
      <4>1. /\ x \in Agent \/ x \in Object
            /\ \A f \in ResolvableSlots(x) : Agrees(x.refs[f], f, releases)
        BY <2>3, ResolveNodes DEF TypeOK
      <4> QED
        BY <4>1, PinnedSlots
    <3>2. \A y \in Nodes(swarm') : \E x \in Nodes(swarm) : y = Pinned(x, releases)
      BY <2>3, ResolveNodes DEF TypeOK, Nodes
    <3> QED
      BY <3>1, <3>2
  <2> QED
    BY <2>1, <2>2, <2>3
<1>3. IInv => ResolvedAgree
  BY DEF ResolvedAgree, PinnedTo
<1> QED
  BY <1>1, <1>2, <1>3, TypeCorrect, PTL DEF Spec

-----------------------------------------------------------------------------
(* How far one event reaches                                               *)

\* Whatever changed between s and t is of the group of base.
Within(s, t, base) ==
  /\ \A z \in NamesOf(Changed(Nodes(s), Nodes(t))) : Member(z, base)
  /\ \A e \in Changed(s.topology, t.topology) : Member(e[1], base) \/ Member(e[2], base)

\* The base is then the name of a node that changed, or the stem of one.
Reach(s, t) ==
  LET names == NamesOf(Changed(Nodes(s), Nodes(t)))
      stems == {Stem(x) : x \in {x \in names : x.nums # <<>>}}
  IN \E base \in names \cup stems :
       LET inGroup(x) == x = base \/ (x.nums # <<>> /\ Stem(x) = base)
       IN /\ \A x \in names : inGroup(x)
          /\ \A e \in Changed(s.topology, t.topology) : inGroup(e[1]) \/ inGroup(e[2])

LEMMA WithinReach ==
  ASSUME NEW s, NEW t, NEW base, Nodes(s) # Nodes(t), Within(s, t, base)
  PROVE  Reach(s, t)
<1> DEFINE names == NamesOf(Changed(Nodes(s), Nodes(t)))
           stems == {Stem(x) : x \in {x \in names : x.nums # <<>>}}
<1>1. Changed(Nodes(s), Nodes(t)) # {}
  BY DEF Changed
<1>2. PICK z \in names : TRUE
  BY <1>1 DEF NamesOf
<1>3. Member(z, base)
  BY <1>2 DEF Within
<1>4. base \in names \cup stems
  BY <1>2, <1>3 DEF Member
<1> HIDE DEF names, stems
<1>5. /\ \A x \in names : x = base \/ (x.nums # <<>> /\ Stem(x) = base)
      /\ \A e \in Changed(s.topology, t.topology) :
           \/ e[1] = base \/ (e[1].nums # <<>> /\ Stem(e[1]) = base)
           \/ e[2] = base \/ (e[2].nums # <<>> /\ Stem(e[2]) = base)
  BY DEF Within, Member, names
<1> QED
  BY <1>4, <1>5, Zenon DEF Reach, names, stems

LEMMA ScaledWithin ==
  ASSUME NEW s \in Swarm, NEW base \in Names, NEW n \in Nat, Group(s, base) # {}
  PROVE  Within(s, Scaled(s, base, n), base)
<1> DEFINE t == Scaled(s, base, n)
           members == NamesOf(Group(s, base))
           col(z) == Collapsed(z, base, members)
<1>1. /\ t.agents = (s.agents \ Group(s, base)) \cup Instances(s, base, n)
      /\ t.objects = s.objects
      /\ t.topology = FanOutEdges(s.topology, base, members, n)
  BY ScaledParts
<1> HIDE DEF t
<1>2. \A a \in Instances(s, base, n) : Member(a.name, base)
  <2> SUFFICES ASSUME NEW i \in 1..n PROVE Member(Instance(s, base, i).name, base)
    BY DEF Instances
  <2>1. i \in Nat
    OBVIOUS
  <2>2. Instance(s, base, i).name = InstanceName(base, i)
    BY InstanceTyped
  <2>3. Member(InstanceName(base, i), base)
    BY <2>1, InstanceNameFacts
  <2> QED
    BY <2>2, <2>3
<1>3. \A a \in Group(s, base) : Member(a.name, base)
  BY DEF Group
<1>4. Changed(Nodes(s), Nodes(t)) \subseteq Group(s, base) \cup Instances(s, base, n)
  BY <1>1 DEF Changed, Nodes
<1>5. \A z \in NamesOf(Changed(Nodes(s), Nodes(t))) : Member(z, base)
  BY <1>2, <1>3, <1>4 DEF NamesOf
<1>6. \A z : col(z) = base => Member(z, base)
  <2>1. \A z \in members : Member(z, base)
    BY <1>3 DEF NamesOf
  <2> QED
    BY <2>1 DEF Collapsed, Member
<1>7. \A z : col(z) # base => col(z) = z
  BY DEF Collapsed
<1>8. \A z \in InstanceNames(base, n) : Member(z, base)
  BY InstanceNameFacts DEF InstanceNames
<1>9. \A d \in s.topology : d = <<d[1], d[2]>>
  BY DEF Swarm
<1>10. \A f, g : f # base /\ g # base => ExpandEdge(f, g, base, n) = {<<f, g>>}
  BY DEF ExpandEdge
<1>11. \A e : e \in t.topology <=>
                \E d \in s.topology : e \in ExpandEdge(col(d[1]), col(d[2]), base, n)
  BY <1>1 DEF FanOutEdges
<1> HIDE DEF members, col
<1>12. ASSUME NEW e \in s.topology \ t.topology PROVE Member(e[1], base) \/ Member(e[2], base)
  <2>1. CASE col(e[1]) = base \/ col(e[2]) = base
    BY <1>6, <2>1
  <2>2. CASE col(e[1]) # base /\ col(e[2]) # base
    BY <1>7, <1>9, <1>10, <1>11, <2>2
  <2> QED
    BY <2>1, <2>2
<1>13. ASSUME NEW e \in t.topology \ s.topology PROVE Member(e[1], base) \/ Member(e[2], base)
  <2>1. PICK d \in s.topology : e \in ExpandEdge(col(d[1]), col(d[2]), base, n)
    BY <1>11
  <2>2. CASE col(d[1]) # base /\ col(d[2]) # base
    BY <1>7, <1>9, <1>10, <2>1, <2>2
  <2>3. CASE col(d[1]) = base \/ col(d[2]) = base
    BY <1>8, <2>1, <2>3, ExpandedEnds
  <2> QED
    BY <2>2, <2>3
<1> QED
  BY <1>5, <1>12, <1>13 DEF Within, Changed, t

LEMMA RemovedWithin ==
  ASSUME NEW s \in Swarm, NEW name
  PROVE  /\ Within(s, WithoutAgent(s, name), name)
         /\ Within(s, WithoutObject(s, name), name)
<1>1. /\ WithoutAgent(s, name).agents = {a \in s.agents : a.name # name}
      /\ WithoutAgent(s, name).objects = s.objects
      /\ WithoutAgent(s, name).topology = DropIncident(s.topology, name)
      /\ WithoutObject(s, name).agents = s.agents
      /\ WithoutObject(s, name).objects = {o \in s.objects : o.name # name}
      /\ WithoutObject(s, name).topology = DropIncident(s.topology, name)
  BY DEF Swarm, WithoutAgent, WithoutObject
<1> QED
  BY <1>1 DEF Within, Changed, Nodes, NamesOf, DropIncident, Member

LEMMA ReplacedWithin ==
  ASSUME NEW s \in Swarm, NEW x \in Nodes(s), NEW y, y.name = x.name
  PROVE  Within(s, Replaced(s, x, y), x.name)
<1> DEFINE t == Replaced(s, x, y)
<1>1. /\ t.topology = s.topology
      /\ Nodes(t) \subseteq Nodes(s) \cup {y}
      /\ Nodes(s) \subseteq Nodes(t) \cup {x}
  BY DEF Replaced, Swarm, Nodes
<1> HIDE DEF t
<1>2. Changed(Nodes(s), Nodes(t)) \subseteq {x, y} /\ Changed(s.topology, t.topology) = {}
  BY <1>1 DEF Changed
<1> QED
  BY <1>2 DEF Within, NamesOf, Member, t

LEMMA AddedWithin ==
  ASSUME NEW s \in Swarm, NEW name, NEW refs
  PROVE  Within(s, WithAgent(s, name, refs), name) /\ Within(s, WithObject(s, name, refs), name)
<1> DEFINE a == [name |-> name, at |-> s.places + 1, refs |-> refs, config |-> NoConfig]
           o == [name |-> name, refs |-> refs, config |-> NoConfig]
<1>1. /\ Nodes(WithAgent(s, name, refs)) = Nodes(s) \cup {a}
      /\ Nodes(WithObject(s, name, refs)) = Nodes(s) \cup {o}
      /\ WithAgent(s, name, refs).topology = s.topology
      /\ WithObject(s, name, refs).topology = s.topology
  BY DEF WithAgent, WithObject, Swarm, Nodes
<1>2. a.name = name /\ o.name = name
  OBVIOUS
<1> HIDE DEF a, o
<1>3. /\ Changed(Nodes(s), Nodes(WithAgent(s, name, refs))) \subseteq {a}
      /\ Changed(Nodes(s), Nodes(WithObject(s, name, refs))) \subseteq {o}
      /\ Changed(s.topology, s.topology) = {}
  BY <1>1 DEF Changed
<1> QED
  BY <1>1, <1>2, <1>3 DEF Within, NamesOf, Member

\* GroupLocal: in every swarm, an event changes nodes of one group only, and edges
\* that end in it.
THEOREM EventsAreLocal == Spec => GroupLocal
<1> DEFINE Step == phase = "folding" /\ phase' = "folding" /\ Nodes(swarm) # Nodes(swarm') =>
                     Reach(swarm, swarm')
<1>1. TypeOK /\ [Next]_vars => [Step]_vars
  <2> SUFFICES ASSUME TypeOK, Next, phase = "folding", phase' = "folding",
                      Nodes(swarm) # Nodes(swarm')
               PROVE  Reach(swarm, swarm')
    BY DEF vars
  <2> USE PayloadAssumption
  <2>0. swarm \in Swarm
    BY DEF TypeOK
  <2>1. ASSUME NEW name, Within(swarm, swarm', name) PROVE Reach(swarm, swarm')
    BY <2>1, WithinReach
  <2>2. ASSUME NEW name, NEW refs, AddAgent(name, refs) \/ AddObject(name, refs)
        PROVE  Reach(swarm, swarm')
    BY <2>0, <2>1, <2>2, AddedWithin DEF AddAgent, AddObject, Fold
  <2>3. ASSUME NEW name, RemoveAgent(name) \/ RemoveObject(name) PROVE Reach(swarm, swarm')
    BY <2>0, <2>1, <2>3, RemovedWithin DEF RemoveAgent, RemoveObject, Fold
  <2>4. ASSUME NEW x \in Nodes(swarm), NEW y, y.name = x.name, swarm' = Replaced(swarm, x, y)
        PROVE  Reach(swarm, swarm')
    BY <2>0, <2>1, <2>4, ReplacedWithin
  <2>5. \A x \in Nodes(swarm) : x \in Agent \/ x \in Object
    BY <2>0 DEF Swarm, Nodes
  <2>6. ASSUME NEW name, NEW config \in Configs, UpdateConfig(name, config)
        PROVE  Reach(swarm, swarm')
    <3>1. PICK x \in Addressed(swarm, name) :
            swarm' = Replaced(swarm, x, [x EXCEPT !.config = Merge(@, config)])
      BY <2>6 DEF UpdateConfig, Fold
    <3>2. x \in Nodes(swarm)
      BY AddressedNode
    <3> DEFINE y == [x EXCEPT !.config = Merge(@, config)]
    <3>3. y.name = x.name
      BY <2>5, <3>2, ConfiguredTyped
    <3>4. swarm' = Replaced(swarm, x, y)
      BY <3>1
    <3> HIDE DEF y
    <3> QED
      BY <2>4, <3>2, <3>3, <3>4
  <2>7. ASSUME NEW name, NEW field, NEW from, NEW to \in Digests, BumpPackage(name, field, from, to)
        PROVE  Reach(swarm, swarm')
    <3>1. PICK x \in Addressed(swarm, name) :
            /\ Bumpable(x, field, from)
            /\ swarm' = Replaced(swarm, x, [x EXCEPT !.refs[field].digest = to])
      BY <2>7 DEF BumpPackage, Fold
    <3>2. x \in Nodes(swarm)
      BY AddressedNode
    <3> DEFINE y == [x EXCEPT !.refs[field].digest = to]
    <3>3. y.name = x.name
      <4>1. field \in DOMAIN x.refs
        BY <3>1 DEF Bumpable
      <4> QED
        BY <2>5, <3>2, <4>1, BumpedTyped
    <3>4. swarm' = Replaced(swarm, x, y)
      BY <3>1
    <3> HIDE DEF y
    <3> QED
      BY <2>4, <3>2, <3>3, <3>4
  <2>8. ASSUME NEW base \in Bases, NEW n \in Counts, ScaleAgentGroup(base, n)
        PROVE  Reach(swarm, swarm')
    <3>1. base \in Names /\ n \in Nat
      OBVIOUS
    <3>2. Within(swarm, swarm', base)
      BY <2>0, <2>8, <3>1, ScaledWithin DEF ScaleAgentGroup, Fold
    <3> QED
      BY <2>1, <3>2
  <2>9. ASSUME NEW edges, AddTopologyEdges(edges) \/ RemoveTopologyEdges(edges) PROVE FALSE
    BY <2>0, <2>9 DEF AddTopologyEdges, RemoveTopologyEdges, Fold, Nodes, Swarm
  <2>10. ASSUME NEW options, SetOptions(options) PROVE FALSE
    BY <2>0, <2>10 DEF SetOptions, Fold, Nodes, Swarm
  <2>11. CASE Refuse \/ Emit \/ ParseCheckpoint \/ Terminating
    BY <2>11 DEF Refuse, Emit, ParseCheckpoint, Terminating, vars
  <2>12. ASSUME NEW releases, Resolve(releases) \/ ResolveFails(releases) PROVE FALSE
    BY <2>12 DEF Resolve, ResolveFails
  <2> QED
    BY <2>2, <2>3, <2>6, <2>7, <2>8, <2>9, <2>10, <2>11, <2>12 DEF Next, Event, Materialize
<1>2. [][Step]_vars => GroupLocal
  BY DEF GroupLocal, Reach
<1> QED
  BY <1>1, <1>2, TypeCorrect, PTL DEF Spec
=============================================================================
