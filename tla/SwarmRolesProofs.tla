-------------------------- MODULE SwarmRolesProofs --------------------------
(***************************************************************************)
(* What scaling does to a group, for any seeds, names and overlays; and    *)
(* that SwarmFold implements SwarmRoles.  As in SwarmFoldProofs, no object *)
(* has the root of an agent's name.                                        *)
(***************************************************************************)
EXTENDS SwarmFoldProofs, FiniteSetTheorems

-----------------------------------------------------------------------------
(* The group, after it was scaled                                          *)

\* The instances are the group.
LEMMA ScaledGroup ==
  ASSUME NEW s \in Swarm, NEW base \in Names, NEW n \in Nat, Group(s, base) # {}
  PROVE  /\ Group(Scaled(s, base, n), base) = Instances(s, base, n)
         /\ NamesOf(Instances(s, base, n)) = InstanceNames(base, n)
         /\ Scaled(s, base, n).agents \ Instances(s, base, n) = s.agents \ Group(s, base)
<1>1. Scaled(s, base, n).agents = (s.agents \ Group(s, base)) \cup Instances(s, base, n)
  BY ScaledParts
<1>2. \A i \in 1..n : Instance(s, base, i).name = InstanceName(base, i)
  BY InstanceTyped
<1>3. \A i \in 1..n : Member(InstanceName(base, i), base)
  BY InstanceNameFacts
<1>4. \A a \in Instances(s, base, n) : Member(a.name, base)
  BY <1>2, <1>3 DEF Instances
<1>5. NamesOf(Instances(s, base, n)) = InstanceNames(base, n)
  BY <1>2 DEF Instances, InstanceNames, NamesOf
<1> QED
  BY <1>1, <1>4, <1>5 DEF Group

\* No node outside the group has the name of an instance.
LEMMA GroupAlone ==
  ASSUME Apart, NEW s, Sound(s), NEW base \in Names, Group(s, base) # {},
         NEW z \in NamesOf(Nodes(s)), Member(z, base)
  PROVE  z \in NamesOf(Group(s, base))
<1>1. PICK x \in Nodes(s) : x.name = z
  BY DEF NamesOf
<1>2. z \in Names /\ z.root = base.root
  <2>1. x.name \in Names
    BY DEF Sound, Typed, Swarm, Nodes, Agent, Object
  <2> QED
    BY <1>1, <2>1, MemberRoot
<1>3. base.root \in AgentRoots
  <2>1. PICK a \in Group(s, base) : TRUE
    OBVIOUS
  <2>2. a \in s.agents /\ a.name \in Names /\ Member(a.name, base)
    BY DEF Group, Sound, Typed, Swarm, Agent
  <2> QED
    BY <2>2, MemberRoot DEF Sound, InRoots
<1>4. x \in s.agents
  BY <1>1, <1>2, <1>3 DEF Sound, InRoots, Apart, Nodes
<1> QED
  BY <1>1, <1>4 DEF Group, NamesOf

\* An edge, and those it becomes, have ends in the group at the same places.
LEMMA ExpandedCollapse ==
  ASSUME Apart, NEW s, Sound(s), NEW base \in Names, NEW n \in Nat, Group(s, base) # {},
         NEW d \in s.topology,
         NEW e \in ExpandEdge(Collapsed(d[1], base, NamesOf(Group(s, base))),
                              Collapsed(d[2], base, NamesOf(Group(s, base))), base, n)
  PROVE  /\ Collapsed(e[1], base, InstanceNames(base, n)) =
              Collapsed(d[1], base, NamesOf(Group(s, base)))
         /\ Collapsed(e[2], base, InstanceNames(base, n)) =
              Collapsed(d[2], base, NamesOf(Group(s, base)))
<1> DEFINE members == NamesOf(Group(s, base))
           col(z) == Collapsed(z, base, members)
<1>1. d[1] \in NamesOf(Nodes(s)) /\ d[2] \in NamesOf(Nodes(s))
  BY DEF Sound, Valid, ValidEdges
<1>2. \A z \in InstanceNames(base, n) : Member(z, base)
  BY InstanceNameFacts DEF InstanceNames
<1>3. ASSUME NEW z \in NamesOf(Nodes(s)), NEW y,
             IF col(z) = base THEN y \in InstanceNames(base, n) ELSE y = col(z)
      PROVE  Collapsed(y, base, InstanceNames(base, n)) = col(z)
  <2>1. CASE col(z) = base
    BY <1>3, <2>1 DEF Collapsed
  <2>2. CASE col(z) # base
    <3>1. z \notin members /\ col(z) = z /\ y = z
      BY <1>3, <2>2 DEF Collapsed
    <3>2. z \notin InstanceNames(base, n)
      BY <1>2, <3>1, GroupAlone
    <3> QED
      BY <3>1, <3>2 DEF Collapsed
  <2> QED
    BY <2>1, <2>2
<1>4. /\ IF col(d[1]) = base THEN e[1] \in InstanceNames(base, n) ELSE e[1] = col(d[1])
      /\ IF col(d[2]) = base THEN e[2] \in InstanceNames(base, n) ELSE e[2] = col(d[2])
  BY ExpandedEnds
<1> HIDE DEF members, col
<1>5. /\ Collapsed(e[1], base, InstanceNames(base, n)) = col(d[1])
      /\ Collapsed(e[2], base, InstanceNames(base, n)) = col(d[2])
  BY <1>1, <1>3, <1>4
<1> QED
  BY <1>5 DEF col, members

\* As long as an instance is left every edge has one that stands for it.
LEMMA ExpandedSome ==
  ASSUME NEW f, NEW t, NEW base, NEW n \in Nat \ {0}
  PROVE  ExpandEdge(f, t, base, n) # {}
<1>1. InstanceName(base, 1) \in InstanceNames(base, n)
  BY 1 \in 1..n DEF InstanceNames
<1>2. CASE f = base /\ t = base
  BY <1>1, <1>2 DEF ExpandEdge
<1>3. CASE ~(f = base /\ t = base)
  <2>1. ExpandEdge(f, t, base, n) =
          (IF f = base THEN InstanceNames(base, n) ELSE {f}) \X
          (IF t = base THEN InstanceNames(base, n) ELSE {t})
    BY <1>3 DEF ExpandEdge
  <2>2. PICK x : x \in (IF f = base THEN InstanceNames(base, n) ELSE {f})
    BY <1>1
  <2>3. PICK y : y \in (IF t = base THEN InstanceNames(base, n) ELSE {t})
    BY <1>1
  <2>4. <<x, y>> \in ExpandEdge(f, t, base, n)
    BY <2>1, <2>2, <2>3
  <2> QED
    BY <2>4
<1> QED
  BY <1>2, <1>3

\* Scaled again, a group has the edges that it would have been given at once.
LEMMA FanOutTwice ==
  ASSUME Apart, NEW s, Sound(s), NEW base \in Names, NEW n \in Nat \ {0}, NEW m \in Nat,
         Group(s, base) # {}
  PROVE  FanOutEdges(FanOutEdges(s.topology, base, NamesOf(Group(s, base)), n),
                     base, InstanceNames(base, n), m) =
           FanOutEdges(s.topology, base, NamesOf(Group(s, base)), m)
<1> DEFINE members == NamesOf(Group(s, base))
           once == FanOutEdges(s.topology, base, members, n)
           col(z) == Collapsed(z, base, members)
           again(z) == Collapsed(z, base, InstanceNames(base, n))
<1>1. \A e : e \in once <=> \E d \in s.topology : e \in ExpandEdge(col(d[1]), col(d[2]), base, n)
  BY DEF FanOutEdges
<1>2. \A e : e \in FanOutEdges(s.topology, base, members, m) <=>
               \E d \in s.topology : e \in ExpandEdge(col(d[1]), col(d[2]), base, m)
  BY DEF FanOutEdges
<1>3. \A e : e \in FanOutEdges(once, base, InstanceNames(base, n), m) <=>
               \E d \in once : e \in ExpandEdge(again(d[1]), again(d[2]), base, m)
  BY DEF FanOutEdges
<1>4. \A d \in s.topology : \A e \in ExpandEdge(col(d[1]), col(d[2]), base, n) :
        again(e[1]) = col(d[1]) /\ again(e[2]) = col(d[2])
  BY ExpandedCollapse
<1>5. \A d \in s.topology : ExpandEdge(col(d[1]), col(d[2]), base, n) # {}
  BY ExpandedSome
<1> HIDE DEF once, col, again, members
<1>6. FanOutEdges(once, base, InstanceNames(base, n), m) =
        FanOutEdges(s.topology, base, members, m)
  <2>1. ASSUME NEW e \in FanOutEdges(once, base, InstanceNames(base, n), m)
        PROVE  e \in FanOutEdges(s.topology, base, members, m)
    <3>1. PICK c \in once : e \in ExpandEdge(again(c[1]), again(c[2]), base, m)
      BY <1>3
    <3>2. PICK d \in s.topology : c \in ExpandEdge(col(d[1]), col(d[2]), base, n)
      BY <1>1
    <3> QED
      BY <1>2, <1>4, <3>1, <3>2
  <2>2. ASSUME NEW e \in FanOutEdges(s.topology, base, members, m)
        PROVE  e \in FanOutEdges(once, base, InstanceNames(base, n), m)
    <3>1. PICK d \in s.topology : e \in ExpandEdge(col(d[1]), col(d[2]), base, m)
      BY <1>2
    <3>2. PICK c : c \in ExpandEdge(col(d[1]), col(d[2]), base, n)
      BY <1>5
    <3> QED
      BY <1>1, <1>3, <1>4, <3>1, <3>2
  <2> QED
    BY <2>1, <2>2
<1> QED
  BY <1>6 DEF once, members

\* Agents that differ in their places only.
LEMMA SameElsewhere ==
  ASSUME NEW x \in Agent, NEW y \in Agent,
         x.name = y.name, x.refs = y.refs, x.config = y.config
  PROVE  [x EXCEPT !.at = 0] = [y EXCEPT !.at = 0]
<1>1. \A z \in Agent : [z EXCEPT !.at = 0] =
        [name |-> z.name, at |-> 0, refs |-> z.refs, config |-> z.config]
  BY DEF Agent
<1> QED
  BY <1>1

\* A swarm whose agents are in no particular places.
LEMMA WithoutPlaces ==
  \A w \in Swarm : InAnyPlace(w) =
    [agents |-> {[a EXCEPT !.at = 0] : a \in w.agents}, objects |-> w.objects,
     topology |-> w.topology, options |-> w.options, places |-> 0]
<1> SUFFICES ASSUME NEW w \in Swarm
             PROVE  InAnyPlace(w) =
                      [agents |-> {[a EXCEPT !.at = 0] : a \in w.agents},
                       objects |-> w.objects, topology |-> w.topology,
                       options |-> w.options, places |-> 0]
  OBVIOUS
<1> DEFINE moved == {[a EXCEPT !.at = 0] : a \in w.agents}
<1>1. InAnyPlace(w) = [w EXCEPT !.agents = moved, !.places = 0]
  BY DEF InAnyPlace
<1> HIDE DEF moved
<1>2. InAnyPlace(w) = [agents |-> moved, objects |-> w.objects, topology |-> w.topology,
                       options |-> w.options, places |-> 0]
  BY <1>1 DEF Swarm
<1> QED
  BY <1>2 DEF moved

\* An instance of an instance has the slots and the configuration of the first template.
LEMMA TemplateKept ==
  ASSUME NEW s \in Swarm, NEW base \in Names, NEW n \in Nat \ {0}, NEW i \in Nat,
         Group(s, base) # {}
  PROVE  [Instance(Scaled(s, base, n), base, i) EXCEPT !.at = 0] =
           [Instance(s, base, i) EXCEPT !.at = 0]
<1> DEFINE t == Scaled(s, base, n)
<1>1. t \in Swarm
  <2>1. \A e \in t.topology : e \in Names \X Names
    <3> SUFFICES ASSUME NEW e \in t.topology PROVE e \in Names \X Names
      OBVIOUS
    <3>1. PICK d \in s.topology :
            e \in ExpandEdge(Collapsed(d[1], base, NamesOf(Group(s, base))),
                             Collapsed(d[2], base, NamesOf(Group(s, base))), base, n)
      BY ScaledParts DEF FanOutEdges
    <3>2. d[1] \in Names /\ d[2] \in Names
      BY DEF Swarm
    <3>3. \A z \in InstanceNames(base, n) : z \in Names
      BY InstanceNameFacts DEF InstanceNames
    <3> QED
      BY <3>1, <3>2, <3>3, ExpandedEnds DEF Collapsed
  <2>2. \A a \in t.agents : a \in Agent
    BY ScaledParts, InstanceTyped DEF Instances, Swarm
  <2>3. t.places \in Nat
    BY ScaledParts DEF Swarm
  <2>4. t = [s EXCEPT !.agents = t.agents, !.topology = t.topology, !.places = t.places]
    BY DEF Scaled, Swarm
  <2> HIDE DEF t
  <2> QED
    BY <2>1, <2>2, <2>3, <2>4 DEF Swarm
<1>2. Group(t, base) = Instances(s, base, n)
  BY ScaledGroup
<1>3. Group(t, base) # {}
  BY <1>2, 1 \in 1..n DEF Instances
<1> HIDE DEF t
<1>4. Template(t, base) \in Instances(s, base, n)
  BY <1>1, <1>2, <1>3, TemplateInGroup
<1>5. PICK k \in 1..n : Template(t, base) = Instance(s, base, k)
  BY <1>4 DEF Instances
<1>6. Template(t, base) \in Agent /\ Template(s, base) \in Agent
  BY <1>1, <1>3, TemplateInGroup DEF Group, Swarm
<1>7. /\ Template(t, base).refs = Template(s, base).refs
      /\ Template(t, base).config = Template(s, base).config
  BY <1>5, <1>6 DEF Instance, Agent
<1>8. InstanceName(base, i) \in Names /\ s.places + i \in Nat /\ t.places + i \in Nat
  <2>1. InstanceName(base, i) \in Names
    BY InstanceNameFacts
  <2>2. s.places \in Nat /\ t.places \in Nat
    BY <1>1 DEF Swarm
  <2> QED
    BY <2>1, <2>2
<1> DEFINE x == Instance(t, base, i)
           y == Instance(s, base, i)
<1>9. /\ x \in Agent /\ x.name = InstanceName(base, i)
      /\ x.refs = Template(t, base).refs /\ x.config = Template(t, base).config
      /\ y \in Agent /\ y.name = InstanceName(base, i)
      /\ y.refs = Template(s, base).refs /\ y.config = Template(s, base).config
  BY <1>6, <1>8 DEF Instance, Agent
<1> HIDE DEF x, y
<1>10. [x EXCEPT !.at = 0] = [y EXCEPT !.at = 0]
  BY <1>7, <1>9, SameElsewhere
<1> QED
  BY <1>10 DEF t, x, y

\* ScaleAbsorbs: in every swarm that is folded, scaling a group to some size first makes
\* no difference to what it is when it is then scaled to another.
THEOREM ScalingForgets ==
  ASSUME Apart
  PROVE  Spec => []ScaleAbsorbs
<1>1. ASSUME NEW s, Sound(s), NEW base \in Bases, NEW n \in Counts \ {0}, NEW m \in Counts,
             Group(s, base) # {}
      PROVE  InAnyPlace(Scaled(Scaled(s, base, n), base, m)) = InAnyPlace(Scaled(s, base, m))
  <2> DEFINE t == Scaled(s, base, n)
             u == Scaled(t, base, m)
             v == Scaled(s, base, m)
  <2>1. base \in Names /\ n \in Nat \ {0} /\ m \in Nat /\ s \in Swarm
    BY <1>1, PayloadAssumption DEF Sound, Typed
  <2>2. t \in Swarm
    BY <1>1, <2>1, ScaledTyped DEF Sound, Typed
  <2>3. /\ Group(t, base) = Instances(s, base, n)
        /\ NamesOf(Instances(s, base, n)) = InstanceNames(base, n)
        /\ t.agents \ Instances(s, base, n) = s.agents \ Group(s, base)
    BY <1>1, <2>1, ScaledGroup
  <2>4. Group(t, base) # {}
    BY <2>1, <2>3, 1 \in 1..n DEF Instances
  <2>5. /\ t.objects = s.objects /\ t.options = s.options
        /\ t.topology = FanOutEdges(s.topology, base, NamesOf(Group(s, base)), n)
        /\ v.agents = (s.agents \ Group(s, base)) \cup Instances(s, base, m)
        /\ v.objects = s.objects /\ v.options = s.options
        /\ v.topology = FanOutEdges(s.topology, base, NamesOf(Group(s, base)), m)
    BY <1>1, <2>1, ScaledParts
  <2>6. v \in Swarm
    BY <1>1, <2>1, ScaledTyped DEF Sound, Typed
  <2>7. \A i \in 1..m : [Instance(t, base, i) EXCEPT !.at = 0] =
                          [Instance(s, base, i) EXCEPT !.at = 0]
    BY <1>1, <2>1, TemplateKept
  <2> HIDE DEF t
  <2>8. /\ u.agents = (t.agents \ Group(t, base)) \cup Instances(t, base, m)
        /\ u.objects = t.objects /\ u.options = t.options
        /\ u.topology = FanOutEdges(t.topology, base, NamesOf(Group(t, base)), m)
    BY <2>1, <2>2, <2>4, ScaledParts
  <2>9. u \in Swarm
    <3>1. Typed(t)
      BY <1>1, <2>1, ScaledTyped DEF Sound, t
    <3> QED
      BY <3>1, <2>1, <2>4, ScaledTyped DEF Typed
  <2> HIDE DEF u, v
  <2>10. u.topology = v.topology
    BY <1>1, <2>1, <2>3, <2>5, <2>8, FanOutTwice
  <2>11. {[a EXCEPT !.at = 0] : a \in u.agents} = {[a EXCEPT !.at = 0] : a \in v.agents}
    <3> DEFINE rest == {[a EXCEPT !.at = 0] : a \in s.agents \ Group(s, base)}
    <3>1. {[a EXCEPT !.at = 0] : a \in Instances(t, base, m)} =
            {[a EXCEPT !.at = 0] : a \in Instances(s, base, m)}
      <4> DEFINE f(a) == [a EXCEPT !.at = 0]
      <4>1. \A i \in 1..m : f(Instance(t, base, i)) = f(Instance(s, base, i))
        BY <2>7
      <4> HIDE DEF f
      <4>2. {f(a) : a \in Instances(t, base, m)} = {f(a) : a \in Instances(s, base, m)}
        BY <4>1 DEF Instances
      <4> QED
        BY <4>2 DEF f
    <3>2. {[a EXCEPT !.at = 0] : a \in u.agents} =
            rest \cup {[a EXCEPT !.at = 0] : a \in Instances(t, base, m)}
      BY <2>3, <2>8
    <3>3. {[a EXCEPT !.at = 0] : a \in v.agents} =
            rest \cup {[a EXCEPT !.at = 0] : a \in Instances(s, base, m)}
      BY <2>5
    <3> QED
      BY <3>1, <3>2, <3>3
  <2>12. InAnyPlace(u) = InAnyPlace(v)
    BY <2>5, <2>6, <2>8, <2>9, <2>10, <2>11, WithoutPlaces
  <2> QED
    BY <2>12 DEF t, u, v
<1>2. Sound(swarm) => ScaleAbsorbs
  BY <1>1 DEF ScaleAbsorbs
<1> QED
  BY <1>2, AlwaysSound, PTL

-----------------------------------------------------------------------------
(* Who joins a group                                                       *)

\* A group is joined last: the template and the other agents are those there were.
LEMMA JoinedGroup ==
  ASSUME NEW s, Sound(s), NEW base \in Names, Group(s, base) # {},
         NEW name \in AgentNames, NEW refs \in AgentRefs,
         ~NodeExists(s, name), Member(name, base), name # base
  PROVE  LET t == WithAgent(s, name, refs)
         IN /\ Group(t, base) # {} /\ NamesOf(Group(t, base)) = NamesOf(Group(s, base)) \cup {name}
            /\ t.agents \ Group(t, base) = s.agents \ Group(s, base)
            /\ Template(t, base) = Template(s, base)
            /\ t.objects = s.objects /\ t.options = s.options /\ t.topology = s.topology
            /\ t.places = s.places + 1
<1> DEFINE a == [name |-> name, at |-> s.places + 1, refs |-> refs, config |-> NoConfig]
           t == WithAgent(s, name, refs)
<1>1. Typed(s) /\ Sound(t) /\ Typed(t) /\ s \in Swarm /\ t \in Swarm /\ s.places \in Nat
  BY AddedAgentSound DEF Sound, Typed, Swarm
<1>2. /\ t.agents = s.agents \cup {a} /\ t.objects = s.objects /\ t.topology = s.topology
      /\ t.options = s.options /\ t.places = s.places + 1
  BY <1>1 DEF Swarm, WithAgent
<1>3. a.name = name /\ a.at = s.places + 1 /\ a \notin s.agents
  <2>1. \A x \in s.agents : x.name # name
    BY DEF NodeExists, NamesOf, Nodes
  <2> QED
    BY <2>1
<1> HIDE DEF a, t
<1>4. Group(t, base) = Group(s, base) \cup {a}
  BY <1>2, <1>3 DEF Group
<1>5. NamesOf(Group(t, base)) = NamesOf(Group(s, base)) \cup {name}
  BY <1>3, <1>4 DEF NamesOf
<1>6. t.agents \ Group(t, base) = s.agents \ Group(s, base)
  BY <1>2, <1>3, <1>4 DEF Group
<1>7. Template(t, base) = Template(s, base)
  <2> DEFINE x == Template(s, base)
             y == Template(t, base)
  <2>1. /\ x \in Group(s, base)
        /\ x.name = base \/ \A m \in Group(s, base) : m.name # base /\ x.at <= m.at
    BY <1>1, TemplateInGroup
  <2>2. /\ y \in Group(t, base)
        /\ y.name = base \/ \A m \in Group(t, base) : m.name # base /\ y.at <= m.at
    BY <1>1, <1>4, TemplateInGroup
  <2> HIDE DEF x, y
  <2>3. \A m \in Group(s, base) : m \in s.agents /\ m \in Nodes(s) /\ m.at \in 1..s.places
    BY <1>1 DEF Group, Nodes, Typed, InPlaces
  <2>4. y \in Group(s, base)
    BY <1>1, <1>3, <1>4, <2>1, <2>2, <2>3
  <2>5. ASSUME y.name = base PROVE x = y
    BY <2>1, <2>3, <2>4, <2>5 DEF Sound, Valid, UniqueNames
  <2>6. ASSUME y.name # base PROVE x = y
    <3>1. \A m \in Group(s, base) : m.name # base /\ x.at <= m.at /\ y.at <= m.at
      BY <1>4, <2>1, <2>2, <2>6
    <3>2. x.at = y.at
      BY <2>1, <2>3, <2>4, <3>1
    <3> QED
      BY <1>1, <2>1, <2>3, <2>4, <3>2 DEF Typed, InPlaces
  <2> QED
    BY <2>5, <2>6 DEF x, y
<1> QED
  BY <1>2, <1>4, <1>5, <1>6, <1>7 DEF t

\* JoinersAbsorbed: in every swarm that is folded, an agent that joins a group has no part
\* in what scaling makes of it, unless it takes the name of the base itself.
THEOREM JoiningLeavesNothing ==
  ASSUME Apart
  PROVE  Spec => []JoinersAbsorbed
<1>1. ASSUME NEW s, Sound(s), NEW base \in Bases, NEW n \in Counts, NEW refs \in AgentRefs,
             NEW name \in AgentNames, Group(s, base) # {},
             ~NodeExists(s, name), Member(name, base), name # base
      PROVE  InAnyPlace(Scaled(WithAgent(s, name, refs), base, n)) = InAnyPlace(Scaled(s, base, n))
  <2> DEFINE t == WithAgent(s, name, refs)
             u == Scaled(t, base, n)
             v == Scaled(s, base, n)
             members == NamesOf(Group(s, base))
  <2>1. base \in Names /\ n \in Nat /\ Typed(s) /\ s \in Swarm /\ Typed(t) /\ t \in Swarm
    BY <1>1, AddedAgentSound, PayloadAssumption DEF Sound, Typed
  <2>2. /\ Group(t, base) # {} /\ NamesOf(Group(t, base)) = members \cup {name}
        /\ t.agents \ Group(t, base) = s.agents \ Group(s, base)
        /\ Template(t, base) = Template(s, base)
        /\ t.objects = s.objects /\ t.options = s.options /\ t.topology = s.topology
    BY <1>1, <2>1, JoinedGroup
  <2> HIDE DEF t
  <2>3. /\ v.agents = (s.agents \ Group(s, base)) \cup Instances(s, base, n)
        /\ v.objects = s.objects /\ v.options = s.options
        /\ v.topology = FanOutEdges(s.topology, base, members, n)
    BY <1>1, <2>1, ScaledParts
  <2>9. /\ u.agents = (t.agents \ Group(t, base)) \cup Instances(t, base, n)
        /\ u.objects = t.objects /\ u.options = t.options
        /\ u.topology = FanOutEdges(t.topology, base, NamesOf(Group(t, base)), n)
    BY <2>1, <2>2, ScaledParts
  <2>4. u \in Swarm /\ v \in Swarm
    BY <1>1, <2>1, <2>2, ScaledTyped DEF Typed
  <2> HIDE DEF u, v
  <2>5. u.topology = v.topology
    <3>1. \A e \in s.topology : e[1] # name /\ e[2] # name
      BY <1>1 DEF NodeExists, Sound, Valid, ValidEdges
    <3>2. \A e \in s.topology :
            /\ Collapsed(e[1], base, members \cup {name}) = Collapsed(e[1], base, members)
            /\ Collapsed(e[2], base, members \cup {name}) = Collapsed(e[2], base, members)
      BY <3>1 DEF Collapsed
    <3>3. u.topology = FanOutEdges(s.topology, base, members \cup {name}, n)
      BY <2>2, <2>9
    <3>4. FanOutEdges(s.topology, base, members \cup {name}, n) =
            FanOutEdges(s.topology, base, members, n)
      <4> DEFINE over(e) == ExpandEdge(Collapsed(e[1], base, members \cup {name}),
                                       Collapsed(e[2], base, members \cup {name}), base, n)
                 under(e) == ExpandEdge(Collapsed(e[1], base, members),
                                        Collapsed(e[2], base, members), base, n)
      <4>1. \A e \in s.topology : over(e) = under(e)
        BY <3>2
      <4> HIDE DEF over, under
      <4>2. UNION {over(e) : e \in s.topology} = UNION {under(e) : e \in s.topology}
        BY <4>1
      <4> QED
        BY <4>2 DEF FanOutEdges, over, under
    <3> QED
      BY <2>3, <3>3, <3>4
  <2>6. \A i \in 1..n : [Instance(t, base, i) EXCEPT !.at = 0] =
                          [Instance(s, base, i) EXCEPT !.at = 0]
    <3> SUFFICES ASSUME NEW i \in 1..n
                 PROVE  [Instance(t, base, i) EXCEPT !.at = 0] =
                          [Instance(s, base, i) EXCEPT !.at = 0]
      OBVIOUS
    <3>1. Instance(t, base, i) \in Agent /\ Instance(s, base, i) \in Agent
      BY <1>1, <2>1, <2>2, InstanceTyped
    <3>2. Template(s, base) \in Agent
      BY <1>1, <2>1, TemplateInGroup DEF Group, Swarm
    <3>3. /\ Instance(t, base, i).name = Instance(s, base, i).name
          /\ Instance(t, base, i).refs = Instance(s, base, i).refs
          /\ Instance(t, base, i).config = Instance(s, base, i).config
      BY <2>2, <3>2 DEF Instance, Agent
    <3> QED
      BY <3>1, <3>3, SameElsewhere
  <2>7. {[a EXCEPT !.at = 0] : a \in u.agents} = {[a EXCEPT !.at = 0] : a \in v.agents}
    <3> DEFINE rest == {[a EXCEPT !.at = 0] : a \in s.agents \ Group(s, base)}
    <3>1. /\ {[a EXCEPT !.at = 0] : a \in u.agents} =
               rest \cup {[a EXCEPT !.at = 0] : a \in Instances(t, base, n)}
          /\ {[a EXCEPT !.at = 0] : a \in v.agents} =
               rest \cup {[a EXCEPT !.at = 0] : a \in Instances(s, base, n)}
      BY <2>2, <2>3, <2>9
    <3>2. {[a EXCEPT !.at = 0] : a \in Instances(t, base, n)} =
            {[a EXCEPT !.at = 0] : a \in Instances(s, base, n)}
      <4> DEFINE f(a) == [a EXCEPT !.at = 0]
      <4>1. \A i \in 1..n : f(Instance(t, base, i)) = f(Instance(s, base, i))
        BY <2>6
      <4> HIDE DEF f
      <4>2. {f(a) : a \in Instances(t, base, n)} = {f(a) : a \in Instances(s, base, n)}
        BY <4>1 DEF Instances
      <4> QED
        BY <4>2 DEF f
    <3> QED
      BY <3>1, <3>2
  <2>8. InAnyPlace(u) = InAnyPlace(v)
    BY <2>2, <2>3, <2>4, <2>5, <2>7, <2>9, WithoutPlaces
  <2> QED
    BY <2>8 DEF t, u, v
<1>2. Sound(swarm) => JoinersAbsorbed
  BY <1>1 DEF JoinersAbsorbed, Joiners
<1> QED
  BY <1>2, AlwaysSound, PTL

-----------------------------------------------------------------------------
(* Roles: how many nodes have a root, and which roots are linked           *)

Holding(s, r) == {z \in NamesOf(Nodes(s)) : z.root = r}
LinksOf(s) == {<<e[1].root, e[2].root>> : e \in s.topology}

\* Since names are unique, nodes can be counted by their names.
LEMMA CountedByName ==
  ASSUME NEW s, UniqueNames(s), IsFiniteSet(NamesOf(Nodes(s))), NEW r
  PROVE  /\ IsFiniteSet(Holding(s, r))
         /\ Cardinality({x \in Nodes(s) : x.name.root = r}) = Cardinality(Holding(s, r))
<1> DEFINE S == {x \in Nodes(s) : x.name.root = r}
           f == [x \in S |-> x.name]
<1>1. IsFiniteSet(Holding(s, r))
  <2>1. Holding(s, r) \in SUBSET NamesOf(Nodes(s))
    BY DEF Holding
  <2> QED
    BY <2>1, FS_Subset
<1>2. f \in [S -> Holding(s, r)]
  BY DEF Holding, NamesOf
<1>3. \A x, y \in S : f[x] = f[y] => x = y
  BY DEF UniqueNames
<1>4. \A z \in Holding(s, r) : \E x \in S : f[x] = z
  BY DEF Holding, NamesOf
<1> HIDE DEF S, f
<1>5. f \in Injection(S, Holding(s, r)) /\ f \in Surjection(S, Holding(s, r))
  BY <1>2, <1>3, <1>4 DEF Injection, IsInjective, Surjection
<1>6. Cardinality(S) = Cardinality(Holding(s, r))
  BY <1>1, <1>5, FS_Injection
<1> QED
  BY <1>1, <1>6 DEF S

\* What the count of a role says of it.
LEMMA CountFacts ==
  ASSUME NEW s, IsFiniteSet(NamesOf(Nodes(s))), NEW r
  PROVE  /\ Cardinality(Holding(s, r)) \in Nat
         /\ Cardinality(Holding(s, r)) = 0 <=> Holding(s, r) = {}
<1>1. Holding(s, r) \in SUBSET NamesOf(Nodes(s))
  BY DEF Holding
<1>2. IsFiniteSet(Holding(s, r))
  BY <1>1, FS_Subset
<1> QED
  BY <1>2, FS_EmptySet, FS_CardinalityType

\* A sound swarm that is finite, of which the roles are a view.
Counted(s) == Sound(s) /\ IsFiniteSet(NamesOf(Nodes(s)))

\* Every link is one of roles that have a node.
LEMMA LinkedPresent ==
  ASSUME NEW s, Counted(s)
  PROVE  \A l \in LinksOf(s) :
           /\ l = <<l[1], l[2]>>
           /\ l[1] \in Roots /\ Holding(s, l[1]) # {}
           /\ l[2] \in Roots /\ Holding(s, l[2]) # {}
<1> SUFFICES ASSUME NEW e \in s.topology
             PROVE  /\ e[1].root \in Roots /\ Holding(s, e[1].root) # {}
                    /\ e[2].root \in Roots /\ Holding(s, e[2].root) # {}
  BY DEF LinksOf
<1>1. e[1] \in NamesOf(Nodes(s)) /\ e[2] \in NamesOf(Nodes(s))
  BY DEF Counted, Sound, Valid, ValidEdges
<1>2. e[1] \in Names /\ e[2] \in Names
  BY DEF Counted, Sound, Typed, Swarm
<1> QED
  BY <1>1, <1>2 DEF Holding, Names

\* Seeds are finite documents.
LEMMA SeedsCounted ==
  ASSUME NEW s \in Seeds
  PROVE  IsFiniteSet(NamesOf(Nodes(s)))
<1> DEFINE f == [x \in Nodes(s) |-> x.name]
<1>1. IsFiniteSet(Nodes(s))
  BY DataAssumption
<1>2. f \in [Nodes(s) -> NamesOf(Nodes(s))] /\ \A z \in NamesOf(Nodes(s)) : \E x \in Nodes(s) : f[x] = z
  BY DEF NamesOf
<1> HIDE DEF f
<1>3. f \in Surjection(Nodes(s), NamesOf(Nodes(s)))
  BY <1>2 DEF Surjection
<1> QED
  BY <1>1, <1>3, FS_Surjection

\* The instances of a group are as many as they are numbered: finitely many.
LEMMA InstancesFinite ==
  ASSUME NEW base \in Names, NEW n \in Nat
  PROVE  IsFiniteSet(InstanceNames(base, n))
<1> DEFINE f == [i \in 1..n |-> InstanceName(base, i)]
<1>1. IsFiniteSet(1..n)
  BY FS_Interval
<1>2. f \in [1..n -> InstanceNames(base, n)] /\ \A z \in InstanceNames(base, n) : \E i \in 1..n : f[i] = z
  BY DEF InstanceNames
<1> HIDE DEF f
<1>3. f \in Surjection(1..n, InstanceNames(base, n))
  BY <1>2 DEF Surjection
<1> QED
  BY <1>1, <1>3, FS_Surjection

-----------------------------------------------------------------------------
(* What a step of the roles is made of: how the names and edges changed    *)

LEMMA RolesOf ==
  ASSUME Counted(swarm), Counted(swarm')
  PROVE  /\ Size = [r \in Roots |-> Cardinality(Holding(swarm, r))]
         /\ Size' = [r \in Roots |-> Cardinality(Holding(swarm', r))]
         /\ Links = LinksOf(swarm) /\ Links' = LinksOf(swarm')
<1>1. \A r \in Roots : /\ Cardinality({x \in Nodes(swarm) : x.name.root = r}) =
                            Cardinality(Holding(swarm, r))
                       /\ Cardinality({x \in Nodes(swarm') : x.name.root = r}) =
                            Cardinality(Holding(swarm', r))
  BY CountedByName DEF Counted, Sound, Valid
<1>2. Size' = [r \in Roots |-> Cardinality({x \in Nodes(swarm') : x.name.root = r})]
  BY DEF Size, Nodes
<1> QED
  BY <1>1, <1>2 DEF Size, Links, LinksOf

\* A node with a new name joins its role.
LEMMA JoinStep ==
  ASSUME Counted(swarm), Counted(swarm'), NEW name \in Names, name \notin NamesOf(Nodes(swarm)),
         NamesOf(Nodes(swarm')) = NamesOf(Nodes(swarm)) \cup {name},
         swarm'.topology = swarm.topology
  PROVE  SwarmOfRoles!Join(name.root)
<1>1. name.root \in Roots
  BY DEF Names
<1>2. Holding(swarm', name.root) = Holding(swarm, name.root) \cup {name}
  BY DEF Holding
<1>3. \A r \in Roots : r # name.root => Holding(swarm', r) = Holding(swarm, r)
  BY DEF Holding
<1>4. IsFiniteSet(Holding(swarm, name.root)) /\ name \notin Holding(swarm, name.root)
  BY CountedByName DEF Counted, Sound, Valid, Holding
<1>5. Cardinality(Holding(swarm', name.root)) = Cardinality(Holding(swarm, name.root)) + 1
  BY <1>2, <1>4, FS_AddElement
<1>6. Size' = [Size EXCEPT ![name.root] = @ + 1]
  BY <1>1, <1>3, <1>5, RolesOf
<1>7. Links' = Links
  BY RolesOf DEF LinksOf
<1> QED
  BY <1>6, <1>7 DEF SwarmOfRoles!Join

\* Some nodes of one role leave, with the edges that end in them.
LEMMA LossStep ==
  ASSUME Counted(swarm), Counted(swarm'), NEW gone, gone \subseteq NamesOf(Nodes(swarm)),
         gone # {}, NEW r \in Roots, \A z \in gone : z.root = r,
         NamesOf(Nodes(swarm')) = NamesOf(Nodes(swarm)) \ gone,
         swarm'.topology = {e \in swarm.topology : e[1] \notin gone /\ e[2] \notin gone}
  PROVE  SwarmOfRoles!Lose(r) \/ SwarmOfRoles!Leave(r)
<1> DEFINE before == Cardinality(Holding(swarm, r))
           after == Cardinality(Holding(swarm', r))
<1>1. Holding(swarm', r) \in SUBSET Holding(swarm, r) /\ Holding(swarm', r) # Holding(swarm, r)
  BY DEF Holding
<1>2. IsFiniteSet(Holding(swarm, r)) /\ before \in Nat /\ after \in Nat
  <2>1. IsFiniteSet(Holding(swarm, r))
    BY CountedByName DEF Counted, Sound, Valid
  <2>2. before \in Nat /\ after \in Nat
    BY CountFacts DEF Counted
  <2> QED
    BY <2>1, <2>2
<1>3. after < before
  <2>1. after <= before /\ after # before
    BY <1>1, <1>2, FS_Subset
  <2> HIDE DEF before, after
  <2> QED
    BY <1>2, <2>1
<1>4. \A q \in Roots : q # r => Holding(swarm', q) = Holding(swarm, q)
  BY DEF Holding
<1>5. Size' = [Size EXCEPT ![r] = Size'[r]] /\ Size[r] = before /\ Size'[r] = after
  BY <1>4, RolesOf
<1>6. Links' \subseteq Links
  BY RolesOf DEF LinksOf
<1>7. ASSUME NEW l \in Links, l[1] # r, l[2] # r PROVE l \in Links'
  <2>1. PICK e \in swarm.topology : l = <<e[1].root, e[2].root>>
    BY <1>7, RolesOf DEF LinksOf
  <2>2. e \in swarm'.topology
    BY <1>7, <2>1
  <2> QED
    BY <2>1, <2>2, RolesOf DEF LinksOf
<1>8. SwarmOfRoles!Incident(r) = {l \in Links : l[1] = r \/ l[2] = r}
  BY DEF SwarmOfRoles!Incident
<1>9. Links \ SwarmOfRoles!Incident(r) \subseteq Links'
  BY <1>7, <1>8
<1>10. CASE after = 0
  <2>1. Holding(swarm', r) = {}
    BY <1>10, CountFacts DEF Counted
  <2>2. \A l \in Links' : l[1] # r /\ l[2] # r
    BY <2>1, LinkedPresent, RolesOf
  <2>3. Links' = Links \ SwarmOfRoles!Incident(r)
    BY <1>6, <1>8, <1>9, <2>2
  <2>4. Size[r] > 0
    BY <1>2, <1>3, <1>5, <1>10
  <2> QED
    BY <1>5, <1>10, <2>3, <2>4 DEF SwarmOfRoles!Leave
<1>11. CASE after # 0
  <2> HIDE DEF before, after
  <2>1. Size'[r] \in 1..(Size[r] - 1)
    BY <1>2, <1>3, <1>5, <1>11
  <2> QED
    BY <1>5, <1>6, <1>9, <2>1 DEF SwarmOfRoles!Lose
<1> QED
  BY <1>10, <1>11

\* Edges are added between nodes that exist, or removed.
LEMMA LinkStep ==
  ASSUME Counted(swarm), Counted(swarm'), NamesOf(Nodes(swarm')) = NamesOf(Nodes(swarm)),
         swarm.topology \subseteq swarm'.topology \/ swarm'.topology \subseteq swarm.topology
  PROVE  SwarmOfRoles!Link \/ SwarmOfRoles!Unlink
<1>1. Size' = Size
  BY RolesOf DEF Holding
<1>2. CASE swarm'.topology \subseteq swarm.topology
  <2>1. Links' \subseteq Links
    BY <1>2, RolesOf DEF LinksOf
  <2> QED
    BY <1>1, <2>1 DEF SwarmOfRoles!Unlink
<1>3. CASE swarm.topology \subseteq swarm'.topology
  <2>1. Links \subseteq Links'
    BY <1>3, RolesOf DEF LinksOf
  <2>2. \A r \in Roots : Holding(swarm', r) # {} => Size[r] > 0
    <3>1. \A r \in Roots : /\ Holding(swarm', r) # {} => Cardinality(Holding(swarm', r)) # 0
                           /\ Cardinality(Holding(swarm', r)) \in Nat
      BY CountFacts DEF Counted
    <3> QED
      BY <1>1, <3>1, RolesOf
  <2>3. SwarmOfRoles!Present = {r \in Roots : Size[r] > 0}
    BY DEF SwarmOfRoles!Present
  <2>4. Links' \subseteq SwarmOfRoles!Present \X SwarmOfRoles!Present
    BY <2>2, <2>3, LinkedPresent, RolesOf
  <2> QED
    BY <1>1, <2>1, <2>4 DEF SwarmOfRoles!Link
<1> QED
  BY <1>2, <1>3

-----------------------------------------------------------------------------
(* What each operation does to the names                                   *)

LEMMA ScaledNames ==
  ASSUME NEW s, Counted(s), NEW base \in Names, NEW n \in Nat, Group(s, base) # {}, Apart
  PROVE  /\ NamesOf(Nodes(Scaled(s, base, n))) =
              (NamesOf(Nodes(s)) \ NamesOf(Group(s, base))) \cup InstanceNames(base, n)
         /\ IsFiniteSet(NamesOf(Nodes(Scaled(s, base, n))))
<1> DEFINE t == Scaled(s, base, n)
<1>1. s \in Swarm
  BY DEF Counted, Sound, Typed
<1>2. /\ t.agents = (s.agents \ Group(s, base)) \cup Instances(s, base, n)
      /\ t.objects = s.objects
      /\ NamesOf(Instances(s, base, n)) = InstanceNames(base, n)
  BY <1>1, ScaledParts, ScaledGroup
<1>3. \A x \in Nodes(s) : x.name \in NamesOf(Group(s, base)) <=> x \in Group(s, base)
  BY DEF NamesOf, Counted, Sound, Valid, UniqueNames, Group, Nodes
<1>4. \A o \in s.objects : o \notin Group(s, base)
  BY KindsApart DEF Counted, Sound, Group
<1> HIDE DEF t
<1>5. NamesOf(Nodes(t)) = (NamesOf(Nodes(s)) \ NamesOf(Group(s, base))) \cup InstanceNames(base, n)
  <2>1. Nodes(t) = (Nodes(s) \ Group(s, base)) \cup Instances(s, base, n)
    BY <1>2, <1>4 DEF Nodes
  <2>2. NamesOf(Nodes(t)) = NamesOf(Nodes(s) \ Group(s, base)) \cup NamesOf(Instances(s, base, n))
    BY <2>1 DEF NamesOf
  <2>3. NamesOf(Nodes(s) \ Group(s, base)) = NamesOf(Nodes(s)) \ NamesOf(Group(s, base))
    <3>1. \A x \in Nodes(s) \ Group(s, base) : x.name \notin NamesOf(Group(s, base))
      BY <1>3
    <3> QED
      BY <3>1 DEF NamesOf
  <2> QED
    BY <1>2, <2>2, <2>3
<1>6. IsFiniteSet(NamesOf(Nodes(t)))
  <2>1. NamesOf(Nodes(s)) \ NamesOf(Group(s, base)) \in SUBSET NamesOf(Nodes(s))
    OBVIOUS
  <2>2. IsFiniteSet(NamesOf(Nodes(s)) \ NamesOf(Group(s, base)))
    BY <2>1, FS_Subset DEF Counted
  <2> QED
    BY <1>5, <2>2, InstancesFinite, FS_Union
<1> QED
  BY <1>5, <1>6 DEF t

\* A removed node takes its name along.
LEMMA RemovedNames ==
  ASSUME Apart, NEW s, Counted(s), NEW name
  PROVE  /\ HasAgent(s, name) =>
              NamesOf(Nodes(WithoutAgent(s, name))) = NamesOf(Nodes(s)) \ {name}
         /\ HasObject(s, name) =>
              NamesOf(Nodes(WithoutObject(s, name))) = NamesOf(Nodes(s)) \ {name}
<1>1. /\ Nodes(WithoutAgent(s, name)) = {a \in s.agents : a.name # name} \cup s.objects
      /\ Nodes(WithoutObject(s, name)) = s.agents \cup {o \in s.objects : o.name # name}
  BY DEF Counted, Sound, Typed, Swarm, WithoutAgent, WithoutObject, Nodes
<1>2. \A a \in s.agents, o \in s.objects : a.name # o.name
  BY KindsApart DEF Counted, Sound
<1>3. HasAgent(s, name) => \A o \in s.objects : o.name # name
  BY <1>2 DEF HasAgent, NamesOf
<1>4. HasObject(s, name) => \A a \in s.agents : a.name # name
  BY <1>2 DEF HasObject, NamesOf
<1>5. HasAgent(s, name) => Nodes(WithoutAgent(s, name)) = {x \in Nodes(s) : x.name # name}
  BY <1>1, <1>3 DEF Nodes
<1>6. HasObject(s, name) => Nodes(WithoutObject(s, name)) = {x \in Nodes(s) : x.name # name}
  BY <1>1, <1>4 DEF Nodes
<1>7. NamesOf({x \in Nodes(s) : x.name # name}) = NamesOf(Nodes(s)) \ {name}
  BY DEF NamesOf
<1> QED
  BY <1>5, <1>6, <1>7

LEMMA ReplacedNames ==
  ASSUME Apart, NEW s, Counted(s), NEW x \in Nodes(s), NEW y, y.name = x.name
  PROVE  /\ NamesOf(Nodes(Replaced(s, x, y))) = NamesOf(Nodes(s))
         /\ Replaced(s, x, y).topology = s.topology
<1> DEFINE t == Replaced(s, x, y)
<1>1. t.topology = s.topology
  BY DEF Replaced, Counted, Sound, Typed, Swarm
<1>2. /\ x \in s.agents => t.agents = (s.agents \ {x}) \cup {y} /\ t.objects = s.objects
      /\ x \notin s.agents => t.objects = (s.objects \ {x}) \cup {y} /\ t.agents = s.agents
  BY DEF Replaced, Counted, Sound, Typed, Swarm
<1> HIDE DEF t
<1>3. x \in s.agents => x \notin s.objects
  BY KindsApart DEF Counted, Sound
<1>4. Nodes(t) = (Nodes(s) \ {x}) \cup {y}
  BY <1>2, <1>3 DEF Nodes
<1>5. NamesOf(Nodes(t)) = NamesOf(Nodes(s))
  BY <1>4 DEF NamesOf
<1> QED
  BY <1>1, <1>5 DEF t

LEMMA AddedNames ==
  ASSUME NEW s, Counted(s), NEW name, NEW refs
  PROVE  /\ NamesOf(Nodes(WithAgent(s, name, refs))) = NamesOf(Nodes(s)) \cup {name}
         /\ NamesOf(Nodes(WithObject(s, name, refs))) = NamesOf(Nodes(s)) \cup {name}
         /\ WithAgent(s, name, refs).topology = s.topology
         /\ WithObject(s, name, refs).topology = s.topology
<1> DEFINE a == [name |-> name, at |-> s.places + 1, refs |-> refs, config |-> NoConfig]
           o == [name |-> name, refs |-> refs, config |-> NoConfig]
<1>1. /\ Nodes(WithAgent(s, name, refs)) = Nodes(s) \cup {a}
      /\ Nodes(WithObject(s, name, refs)) = Nodes(s) \cup {o}
      /\ WithAgent(s, name, refs).topology = s.topology
      /\ WithObject(s, name, refs).topology = s.topology
  BY DEF WithAgent, WithObject, Counted, Sound, Typed, Swarm, Nodes
<1>2. a.name = name /\ o.name = name
  OBVIOUS
<1> HIDE DEF a, o
<1> QED
  BY <1>1, <1>2 DEF NamesOf

LEMMA ResolvedNames ==
  ASSUME Counted(swarm), NEW releases \in Snapshots, Resolve(releases)
  PROVE  /\ NamesOf(Nodes(swarm')) = NamesOf(Nodes(swarm))
         /\ swarm'.topology = swarm.topology
<1>1. swarm'.topology = swarm.topology
  BY DEF Resolve, Counted, Sound, Typed, Swarm
<1>2. /\ swarm'.agents = {Pinned(a, releases) : a \in swarm.agents}
      /\ swarm'.objects = {Pinned(o, releases) : o \in swarm.objects}
      /\ \A x \in Nodes(swarm) : Pinned(x, releases).name = x.name
  BY ResolveNodes DEF Counted, Sound, Typed
<1>3. Nodes(swarm') = {Pinned(x, releases) : x \in Nodes(swarm)}
  BY <1>2 DEF Nodes
<1>4. NamesOf(Nodes(swarm')) = NamesOf(Nodes(swarm))
  BY <1>2, <1>3 DEF NamesOf
<1> QED
  BY <1>1, <1>4

-----------------------------------------------------------------------------
(* Every step joins, loses, rescales or relinks                            *)

Joined ==
  \E name \in Names :
    /\ name \notin NamesOf(Nodes(swarm))
    /\ NamesOf(Nodes(swarm')) = NamesOf(Nodes(swarm)) \cup {name}
    /\ swarm'.topology = swarm.topology
Lost ==
  \E r \in Roots, gone \in SUBSET NamesOf(Nodes(swarm)) :
    /\ gone # {} /\ \A z \in gone : z.root = r
    /\ NamesOf(Nodes(swarm')) = NamesOf(Nodes(swarm)) \ gone
    /\ swarm'.topology = {e \in swarm.topology : e[1] \notin gone /\ e[2] \notin gone}
Rescaled ==
  \E base \in Names, n \in Nat \ {0} :
    Group(swarm, base) # {} /\ swarm' = Scaled(swarm, base, n)
Relinked ==
  /\ NamesOf(Nodes(swarm')) = NamesOf(Nodes(swarm))
  /\ swarm.topology \subseteq swarm'.topology \/ swarm'.topology \subseteq swarm.topology

\* A group that is scaled to nothing is lost.
LEMMA ScaledAway ==
  ASSUME Apart, Counted(swarm), NEW base \in Names, Group(swarm, base) # {},
         swarm' = Scaled(swarm, base, 0)
  PROVE  Lost
<1> DEFINE gone == NamesOf(Group(swarm, base))
<1>0. swarm \in Swarm
  BY DEF Counted, Sound, Typed
<1>1. \A z \in gone : z \in Names /\ Member(z, base)
  BY <1>0 DEF NamesOf, Group, Swarm, Agent
<1>2. base.root \in Roots /\ \A z \in gone : z.root = base.root
  BY <1>1, MemberRoot DEF Names
<1>3. gone \in SUBSET NamesOf(Nodes(swarm)) /\ gone # {}
  BY DEF NamesOf, Group, Nodes
<1>4. InstanceNames(base, 0) = {}
  BY 1..0 = {} DEF InstanceNames
<1>5. NamesOf(Nodes(swarm')) = NamesOf(Nodes(swarm)) \ gone
  BY <1>4, ScaledNames
<1>6. swarm'.topology = {e \in swarm.topology : e[1] \notin gone /\ e[2] \notin gone}
  <2> DEFINE col(z) == Collapsed(z, base, gone)
  <2>1. \A e : e \in swarm'.topology <=>
                 \E d \in swarm.topology : e \in ExpandEdge(col(d[1]), col(d[2]), base, 0)
    <3>1. swarm'.topology = FanOutEdges(swarm.topology, base, gone, 0)
      BY <1>0, ScaledParts
    <3> QED
      BY <3>1 DEF FanOutEdges
  <2>2. \A f, t : ExpandEdge(f, t, base, 0) = IF f = base \/ t = base THEN {} ELSE {<<f, t>>}
    BY <1>4 DEF ExpandEdge
  <2>3. \A d \in swarm.topology : d = <<d[1], d[2]>>
    BY <1>0 DEF Swarm
  <2>4. \A d \in swarm.topology : /\ col(d[1]) = base <=> d[1] \in gone
                                  /\ col(d[2]) = base <=> d[2] \in gone
    <3>1. \A z \in NamesOf(Nodes(swarm)) : z = base => z \in gone
      <4>1. \A z \in NamesOf(Nodes(swarm)) : z = base => Member(z, base)
        BY DEF Member
      <4> QED
        BY <4>1, GroupAlone DEF Counted
    <3>2. \A d \in swarm.topology : d[1] \in NamesOf(Nodes(swarm)) /\ d[2] \in NamesOf(Nodes(swarm))
      BY DEF Counted, Sound, Valid, ValidEdges
    <3> QED
      BY <3>1, <3>2 DEF Collapsed
  <2>5. \A z : z \notin gone => col(z) = z
    BY DEF Collapsed
  <2> HIDE DEF col, gone
  <2> QED
    BY <2>1, <2>2, <2>3, <2>4, <2>5
<1> QED
  BY <1>2, <1>3, <1>5, <1>6 DEF Lost

LEMMA StepsOfRoles ==
  ASSUME Apart, Counted(swarm), [Next]_vars
  PROVE  Joined \/ Lost \/ Rescaled \/ Relinked
<1> USE PayloadAssumption
<1>0. swarm \in Swarm /\ \A x \in Nodes(swarm) : x \in Agent \/ x \in Object
  BY DEF Counted, Sound, Typed, Swarm, Nodes
<1>1. ASSUME NEW name \in AgentNames, NEW refs, AddAgent(name, refs) PROVE Joined
  BY <1>1, AddedNames DEF AddAgent, Fold, NodeExists, Joined
<1>2. ASSUME NEW name \in ObjectNames, NEW refs, AddObject(name, refs) PROVE Joined
  BY <1>2, AddedNames DEF AddObject, Fold, NodeExists, Joined
<1>3. ASSUME NEW name \in Targets, RemoveAgent(name) \/ RemoveObject(name) PROVE Lost
  <2>1. NamesOf(Nodes(swarm')) = NamesOf(Nodes(swarm)) \ {name}
    BY <1>3, RemovedNames DEF RemoveAgent, RemoveObject, Fold
  <2>2. swarm'.topology = DropIncident(swarm.topology, name)
    BY <1>0, <1>3 DEF RemoveAgent, RemoveObject, Fold, WithoutAgent, WithoutObject, Swarm
  <2>3. name \in NamesOf(Nodes(swarm)) /\ name.root \in Roots
    BY <1>0 DEF Targets, NamesOf, Agent, Object, Names
  <2>4. swarm'.topology = {e \in swarm.topology : e[1] \notin {name} /\ e[2] \notin {name}}
    BY <2>2 DEF DropIncident
  <2>5. {name} \in SUBSET NamesOf(Nodes(swarm)) /\ {name} # {} /\ \A z \in {name} : z.root = name.root
    BY <2>3
  <2> QED
    BY <2>1, <2>3, <2>4, <2>5 DEF Lost
<1>4. ASSUME NEW edges, AddTopologyEdges(edges) \/ RemoveTopologyEdges(edges) PROVE Relinked
  <2>1. /\ swarm'.agents = swarm.agents /\ swarm'.objects = swarm.objects
        /\ \/ swarm'.topology = swarm.topology \cup edges
           \/ swarm'.topology = swarm.topology \ edges
    BY <1>0, <1>4 DEF AddTopologyEdges, RemoveTopologyEdges, Fold, Swarm
  <2> QED
    BY <2>1 DEF Relinked, Nodes
<1>5. ASSUME NEW options, SetOptions(options) PROVE Relinked
  BY <1>0, <1>5 DEF SetOptions, Fold, Swarm, Relinked, Nodes
<1>6. ASSUME NEW x \in Nodes(swarm), NEW y, y.name = x.name, swarm' = Replaced(swarm, x, y)
      PROVE  Relinked
  BY <1>6, ReplacedNames DEF Relinked
<1>7. ASSUME NEW name, NEW config \in Configs, UpdateConfig(name, config) PROVE Relinked
  <2>1. PICK x \in Addressed(swarm, name) :
          swarm' = Replaced(swarm, x, [x EXCEPT !.config = Merge(@, config)])
    BY <1>7 DEF UpdateConfig, Fold
  <2>2. x \in Nodes(swarm)
    BY AddressedNode
  <2> DEFINE y == [x EXCEPT !.config = Merge(@, config)]
  <2>3. y.name = x.name
    BY <1>0, <2>2, ConfiguredTyped
  <2>4. swarm' = Replaced(swarm, x, y)
    BY <2>1
  <2> HIDE DEF y
  <2> QED
    BY <1>6, <2>2, <2>3, <2>4
<1>8. ASSUME NEW name, NEW field, NEW from, NEW to \in Digests, BumpPackage(name, field, from, to)
      PROVE  Relinked
  <2>1. PICK x \in Addressed(swarm, name) :
          /\ Bumpable(x, field, from)
          /\ swarm' = Replaced(swarm, x, [x EXCEPT !.refs[field].digest = to])
    BY <1>8 DEF BumpPackage, Fold
  <2>2. x \in Nodes(swarm) /\ field \in DOMAIN x.refs
    BY <2>1, AddressedNode DEF Bumpable
  <2> DEFINE y == [x EXCEPT !.refs[field].digest = to]
  <2>3. y.name = x.name
    BY <1>0, <2>2, BumpedTyped
  <2>4. swarm' = Replaced(swarm, x, y)
    BY <2>1
  <2> HIDE DEF y
  <2> QED
    BY <1>6, <2>2, <2>3, <2>4
<1>9. ASSUME NEW base \in Bases, NEW n \in Counts, ScaleAgentGroup(base, n)
      PROVE  Lost \/ Rescaled
  <2>1. base \in Names /\ n \in Nat /\ Group(swarm, base) # {} /\ swarm' = Scaled(swarm, base, n)
    BY <1>9 DEF ScaleAgentGroup, Fold
  <2>2. CASE n = 0
    BY <2>1, <2>2, ScaledAway
  <2>3. CASE n # 0
    BY <2>1, <2>3 DEF Rescaled
  <2> QED
    BY <2>2, <2>3
<1>10. ASSUME NEW releases \in Snapshots, Resolve(releases) PROVE Relinked
  BY <1>10, ResolvedNames DEF Relinked
<1>11. ASSUME NEW releases, ResolveFails(releases) PROVE Relinked
  BY <1>11 DEF ResolveFails, Relinked, Nodes
<1>12. CASE Refuse \/ Emit \/ ParseCheckpoint \/ Terminating \/ UNCHANGED vars
  BY <1>12 DEF Refuse, Emit, ParseCheckpoint, Terminating, vars, Relinked, Nodes
<1> QED
  BY <1>1, <1>2, <1>3, <1>4, <1>5, <1>7, <1>8, <1>9, <1>10, <1>11, <1>12
  DEF Next, Event, Materialize

\* Whatever is folded into it, a swarm stays finite.
LEMMA StaysFinite ==
  ASSUME Apart, Counted(swarm), [Next]_vars
  PROVE  IsFiniteSet(NamesOf(Nodes(swarm')))
<1>1. IsFiniteSet(NamesOf(Nodes(swarm)))
  BY DEF Counted
<1>2. CASE Joined
  BY <1>1, <1>2, FS_AddElement DEF Joined
<1>3. CASE Lost \/ Relinked
  <2>1. NamesOf(Nodes(swarm')) \in SUBSET NamesOf(Nodes(swarm))
    BY <1>3 DEF Lost, Relinked
  <2> QED
    BY <1>1, <2>1, FS_Subset
<1>4. CASE Rescaled
  BY <1>4, ScaledNames DEF Rescaled
<1> QED
  BY <1>2, <1>3, <1>4, StepsOfRoles

\* A group that keeps a node keeps all its links, and gets none.
LEMMA ResizeStep ==
  ASSUME Apart, Counted(swarm), Counted(swarm'), NEW base \in Names, NEW n \in Nat \ {0},
         Group(swarm, base) # {}, swarm' = Scaled(swarm, base, n)
  PROVE  SwarmOfRoles!Resize(base.root)
<1> DEFINE members == NamesOf(Group(swarm, base))
           col(z) == Collapsed(z, base, members)
<1>0. swarm \in Swarm /\ base.root \in Roots
  BY DEF Counted, Sound, Typed, Names
<1>1. \A z \in members : z \in NamesOf(Nodes(swarm)) /\ z.root = base.root
  <2>1. \A z \in members : z \in Names /\ Member(z, base) /\ z \in NamesOf(Nodes(swarm))
    BY <1>0 DEF NamesOf, Group, Nodes, Swarm, Agent
  <2> QED
    BY <2>1, MemberRoot
<1>2. members # {}
  BY DEF NamesOf
<1>3. \A z \in InstanceNames(base, n) : z.root = base.root
  BY InstanceNameFacts DEF InstanceNames
<1>4. InstanceName(base, 1) \in InstanceNames(base, n)
  BY 1 \in 1..n DEF InstanceNames
<1>5. NamesOf(Nodes(swarm')) = (NamesOf(Nodes(swarm)) \ members) \cup InstanceNames(base, n)
  BY ScaledNames
<1>6. \A d, e : e \in ExpandEdge(col(d[1]), col(d[2]), base, n) =>
                  e[1].root = d[1].root /\ e[2].root = d[2].root
  <2>1. \A z : IF col(z) = base THEN z.root = base.root ELSE col(z) = z
    BY <1>1 DEF Collapsed
  <2> HIDE DEF col
  <2> QED
    BY <1>3, <2>1, ExpandedEnds
<1>7. \A e : e \in swarm'.topology <=>
               \E d \in swarm.topology : e \in ExpandEdge(col(d[1]), col(d[2]), base, n)
  <2>1. swarm'.topology = FanOutEdges(swarm.topology, base, members, n)
    BY <1>0, ScaledParts
  <2> QED
    BY <2>1 DEF FanOutEdges
<1>8. \A d : ExpandEdge(col(d[1]), col(d[2]), base, n) # {}
  BY ExpandedSome
<1> HIDE DEF members, col
<1>9. LinksOf(swarm') = LinksOf(swarm)
  <2>1. \A e \in swarm'.topology : \E d \in swarm.topology :
          e[1].root = d[1].root /\ e[2].root = d[2].root
    BY <1>6, <1>7
  <2>2. ASSUME NEW d \in swarm.topology
        PROVE  \E e \in swarm'.topology : e[1].root = d[1].root /\ e[2].root = d[2].root
    <3>1. PICK e : e \in ExpandEdge(col(d[1]), col(d[2]), base, n)
      BY <1>8
    <3> QED
      BY <1>6, <1>7, <3>1
  <2> QED
    BY <2>1, <2>2 DEF LinksOf
<1>10. Holding(swarm, base.root) # {} /\ Holding(swarm', base.root) # {}
  BY <1>1, <1>2, <1>3, <1>4, <1>5 DEF Holding
<1>11. \A q \in Roots : q # base.root => Holding(swarm', q) = Holding(swarm, q)
  BY <1>1, <1>3, <1>5 DEF Holding
<1>12. Size' = [Size EXCEPT ![base.root] = Size'[base.root]]
  BY <1>11, RolesOf
<1>13. Size[base.root] > 0 /\ Size'[base.root] > 0
  <2>1. /\ Cardinality(Holding(swarm, base.root)) \in Nat \ {0}
        /\ Cardinality(Holding(swarm', base.root)) \in Nat \ {0}
    BY <1>10, CountFacts DEF Counted
  <2> QED
    BY <1>0, <2>1, RolesOf
<1> QED
  BY <1>9, <1>12, <1>13, RolesOf DEF SwarmOfRoles!Resize

\* ImplementsRoles: in any swarm, through any events and checkpoints, the nodes of a role
\* join, are resized or leave as SwarmRoles says, and its links with them.
THEOREM FoldIsRoles ==
  ASSUME Apart
  PROVE  Spec => ImplementsRoles
<1> DEFINE Finite == IsFiniteSet(NamesOf(Nodes(swarm)))
<1>1. Init => Finite
  BY SeedsCounted DEF Init
<1>2. Finite /\ Sound(swarm) /\ [Next]_vars => Finite'
  <2> SUFFICES ASSUME Finite, Sound(swarm), [Next]_vars PROVE Finite'
    OBVIOUS
  <2>1. IsFiniteSet(NamesOf(Nodes(swarm')))
    BY StaysFinite DEF Counted
  <2> QED
    BY <2>1 DEF NamesOf, Nodes
<1>3. Sound(swarm) /\ Finite /\ Init => SwarmOfRoles!Init
  <2> SUFFICES ASSUME Counted(swarm) PROVE SwarmOfRoles!Init
    BY DEF Counted
  <2>1. \A r \in Roots : Size[r] = Cardinality(Holding(swarm, r))
    BY CountedByName DEF Counted, Sound, Valid, Size
  <2>2. \A r \in Roots : Size[r] \in Nat /\ (Holding(swarm, r) # {} => Size[r] > 0)
    BY <2>1, CountFacts DEF Counted
  <2>3. Size \in [Roots -> Nat]
    BY <2>2 DEF Size
  <2>4. SwarmOfRoles!Present = {r \in Roots : Size[r] > 0}
    BY DEF SwarmOfRoles!Present
  <2>5. Links \subseteq SwarmOfRoles!Present \X SwarmOfRoles!Present
    BY <2>2, <2>4, LinkedPresent DEF Links, LinksOf
  <2> QED
    BY <2>3, <2>5 DEF SwarmOfRoles!Init
<1>4. /\ Sound(swarm) /\ Finite /\ Sound(swarm)' /\ Finite' /\ [Next]_vars
      => [SwarmOfRoles!Next]_(SwarmOfRoles!roleVars)
  <2> SUFFICES ASSUME Counted(swarm), Counted(swarm'), [Next]_vars
               PROVE  SwarmOfRoles!Next
    <3>1. Sound(swarm)' => Sound(swarm')
      BY DEF Sound, Typed, InPlaces, Valid, UniqueNames, ValidEdges, InRoots, NamesOf, Nodes
    <3>2. Finite' => IsFiniteSet(NamesOf(Nodes(swarm')))
      BY DEF NamesOf, Nodes
    <3> QED
      BY <3>1, <3>2 DEF Counted
  <2>1. CASE Joined
    <3>1. PICK name \in Names : SwarmOfRoles!Join(name.root)
      BY <2>1, JoinStep DEF Joined
    <3> QED
      BY <3>1 DEF SwarmOfRoles!Next, Names
  <2>2. CASE Lost
    <3>1. PICK r \in Roots : SwarmOfRoles!Lose(r) \/ SwarmOfRoles!Leave(r)
      BY <2>2, LossStep DEF Lost
    <3> QED
      BY <3>1 DEF SwarmOfRoles!Next
  <2>3. CASE Rescaled
    <3>1. PICK base \in Names : SwarmOfRoles!Resize(base.root)
      BY <2>3, ResizeStep DEF Rescaled
    <3> QED
      BY <3>1 DEF SwarmOfRoles!Next, Names
  <2>4. CASE Relinked
    BY <2>4, LinkStep DEF Relinked, SwarmOfRoles!Next
  <2> QED
    BY <2>1, <2>2, <2>3, <2>4, StepsOfRoles
<1> QED
  BY <1>1, <1>2, <1>3, <1>4, AlwaysSound, PTL DEF Spec, ImplementsRoles, SwarmOfRoles!Spec
=============================================================================
