------------------------------ MODULE SwarmFold ------------------------------
(***************************************************************************)
(* "gsp materialize", over and over: a swarm.state is parsed, the events   *)
(* of overlays are folded into it one by one, its package slots may be     *)
(* resolved against the verified log, and what is emitted is the state the *)
(* next invocation (or "gsp vendor") parses.                               *)
(*                                                                         *)
(* A name is a root and the numbers that follow it: "coder" has none, its  *)
(* instance "coder#2" has <<2>>.  A numeral that no instance gets (coder#0,*)
(* coder#01, coder#-1) is 0 or a number above every count.  Lists of       *)
(* objects and edges are sets; an agent knows its place in the list of     *)
(* agents, which decides whose slots a new instance copies.                *)
(***************************************************************************)
EXTENDS Naturals, Sequences, FiniteSets

CONSTANTS
  Roots,                     \* names without numbers
  Seeds,                     \* swarm.state documents
  AgentNames, ObjectNames,   \* names that add_agent and add_object are given
  AgentRefs, ObjectRefs,     \* slots that they are given
  Bases, Counts,             \* base_name and target_count of scale_agent_group
  EdgeLists,                 \* edges that are added or removed together
  Configs,                   \* configurations of nodes, and options
  Packages, Digests,
  Snapshots,                 \* verified logs: the releases that are active
  MaxEvents                  \* bound: events folded

External == "external"    \* a reference that is not swarmidx:
NoDigest == "nodigest"

AgentSlots == {"body", "model", "backend"}
ObjectSlots == {"handler"}
RoleKind(slot) == IF slot = "model" THEN "policy" ELSE slot

Names == [root : Roots, nums : Seq(Nat)]
Ref == [pkg : Packages \cup {External}, digest : Digests \cup {NoDigest}]
Agent == [name : Names, at : Nat, refs : [AgentSlots -> Ref], config : Configs]
Object == [name : Names, refs : [ObjectSlots -> Ref], config : Configs]
Swarm == [agents : SUBSET Agent, objects : SUBSET Object, topology : SUBSET (Names \X Names),
          options : Configs, places : Nat]    \* places: of the list of agents, how many are or were taken

Merge(base, over) ==
  [k \in DOMAIN base \cup DOMAIN over |-> IF k \in DOMAIN over THEN over[k] ELSE base[k]]
NoConfig == <<>>

Nodes(s) == s.agents \cup s.objects
NamesOf(ns) == {x.name : x \in ns}

\* Validate: unique names, and edges between nodes that exist.
UniqueNames(s) == \A x, y \in Nodes(s) : x.name = y.name => x = y
ValidEdges(s) == s.topology \subseteq NamesOf(Nodes(s)) \X NamesOf(Nodes(s))
Valid(s) == UniqueNames(s) /\ ValidEdges(s)

\* Every agent has a place of its own in the list.
InPlaces(s) ==
  \A a, b \in s.agents : a.at \in 1..s.places /\ (a.at = b.at => a = b)

Release == [kind : {"body", "policy", "handler", "swarm"}, digest : Digests]

ASSUME DataAssumption ==
  /\ External \notin Packages /\ NoDigest \notin Digests
  /\ Seeds \subseteq Swarm
  /\ \A s \in Seeds : Valid(s) /\ InPlaces(s) /\ IsFiniteSet(Nodes(s))
  /\ \A releases \in Snapshots :
       DOMAIN releases \subseteq Packages /\ \A p \in DOMAIN releases : releases[p] \in Release
ASSUME PayloadAssumption ==
  /\ AgentNames \subseteq Names /\ ObjectNames \subseteq Names /\ Bases \subseteq Names
  /\ AgentRefs \subseteq [AgentSlots -> Ref] /\ ObjectRefs \subseteq [ObjectSlots -> Ref]
  /\ EdgeLists \subseteq SUBSET (Names \X Names)
  /\ Counts \subseteq Nat /\ MaxEvents \in Nat
ASSUME ConfigAssumption ==
  NoConfig \in Configs /\ \A c, d \in Configs : Merge(c, d) \in Configs

VARIABLES
  swarm,
  phase,    \* folding; failed; emitted or, if --resolve was given, resolved; rejected
  events    \* events folded so far

vars == <<swarm, phase, events>>

-----------------------------------------------------------------------------
(* fold.go: what each operation makes of a state                           *)

NodeExists(s, name) == name \in NamesOf(Nodes(s))
HasAgent(s, name) == name \in NamesOf(s.agents)
HasObject(s, name) == name \in NamesOf(s.objects)

WithAgentFirst(s, name, refs) ==    \* a mutant: it takes the first place
  [s EXCEPT !.agents =
     @ \cup {[name |-> name, at |-> 1, refs |-> refs, config |-> NoConfig]}]
WithAgent(s, name, refs) ==
  [s EXCEPT !.agents =
              @ \cup {[name |-> name, at |-> s.places + 1, refs |-> refs, config |-> NoConfig]},
            !.places = @ + 1]
WithObject(s, name, refs) ==
  [s EXCEPT !.objects = @ \cup {[name |-> name, refs |-> refs, config |-> NoConfig]}]

DropNothing(topology, name) == topology    \* a mutant: the edges of a removed node stay
DropIncident(topology, name) == {e \in topology : e[1] # name /\ e[2] # name}

WithoutAgent(s, name) ==
  [s EXCEPT !.agents = {a \in @ : a.name # name}, !.topology = DropIncident(@, name)]
WithoutObject(s, name) ==
  [s EXCEPT !.objects = {o \in @ : o.name # name}, !.topology = DropIncident(@, name)]

\* Agents are looked through before objects.
Addressed(s, name) ==
  IF HasAgent(s, name) THEN {a \in s.agents : a.name = name}
                       ELSE {o \in s.objects : o.name = name}

Replaced(s, x, y) ==
  IF x \in s.agents THEN [s EXCEPT !.agents = (@ \ {x}) \cup {y}]
                    ELSE [s EXCEPT !.objects = (@ \ {x}) \cup {y}]

\* A name without its last number.
Stem(name) == [root |-> name.root, nums |-> SubSeq(name.nums, 1, Len(name.nums) - 1)]

\* scale_agent_group: every agent named base or base#number is in the group.
MemberAtAnyDepth(name, base) ==    \* a mutant: the suffix is not read as a number
  /\ name.root = base.root
  /\ Len(base.nums) <= Len(name.nums) /\ SubSeq(name.nums, 1, Len(base.nums)) = base.nums
Member(name, base) == name = base \/ (name.nums # <<>> /\ Stem(name) = base)
Group(s, base) == {a \in s.agents : Member(a.name, base)}

InstanceName(base, i) == [root |-> base.root, nums |-> Append(base.nums, i)]
InstanceNames(base, n) == {InstanceName(base, i) : i \in 1..n}

TemplateLast(s, base) ==    \* a mutant: or else the last of the group
  CHOOSE a \in Group(s, base) :
    \/ a.name = base
    \/ \A m \in Group(s, base) : m.name # base /\ m.at <= a.at
\* The agent that is named base, or else the first of the group.
Template(s, base) ==
  CHOOSE a \in Group(s, base) :
    \/ a.name = base
    \/ \A m \in Group(s, base) : m.name # base /\ a.at <= m.at

\* An edge of the group becomes one of every instance; one within the group
\* becomes an edge from every instance to itself.
ExpandOutside(f, t, base, n) ==    \* a mutant: edges within the group are forgotten
  {e \in (IF f = base THEN InstanceNames(base, n) ELSE {f}) \X
                (IF t = base THEN InstanceNames(base, n) ELSE {t}) : ~(f = base /\ t = base)}
ExpandEdge(f, t, base, n) ==
  IF f = base /\ t = base
  THEN {<<x, x>> : x \in InstanceNames(base, n)}
  ELSE (IF f = base THEN InstanceNames(base, n) ELSE {f}) \X
       (IF t = base THEN InstanceNames(base, n) ELSE {t})

CollapsedBase(name, base, members) == name    \* a mutant: only the base's own edges fan out
Collapsed(name, base, members) == IF name \in members THEN base ELSE name
FanOutEdges(topology, base, members, n) ==
  UNION {ExpandEdge(Collapsed(e[1], base, members), Collapsed(e[2], base, members), base, n) :
           e \in topology}

Scaled(s, base, n) ==
  LET instance(i) == [Template(s, base) EXCEPT !.name = InstanceName(base, i), !.at = s.places + i]
  IN [s EXCEPT !.agents = (@ \ Group(s, base)) \cup {instance(i) : i \in 1..n},
               !.topology = FanOutEdges(@, base, NamesOf(Group(s, base)), n),
               !.places = @ + n]

-----------------------------------------------------------------------------
Init ==
  /\ swarm \in Seeds
  /\ phase = "folding"
  /\ events = 0

(* Fold: one action per operation.                                         *)

Fold(s) ==
  /\ phase = "folding"
  /\ events < MaxEvents
  /\ events' = events + 1
  /\ swarm' = s
  /\ UNCHANGED phase

AddAgent(name, refs) == ~NodeExists(swarm, name) /\ Fold(WithAgent(swarm, name, refs))

AddObject(name, refs) == ~NodeExists(swarm, name) /\ Fold(WithObject(swarm, name, refs))

RemoveAgent(name) == HasAgent(swarm, name) /\ Fold(WithoutAgent(swarm, name))

RemoveObject(name) == HasObject(swarm, name) /\ Fold(WithoutObject(swarm, name))

EdgesKnown(edges) == \A e \in edges : NodeExists(swarm, e[1]) /\ NodeExists(swarm, e[2])
AddTopologyEdges(edges) ==
  /\ EdgesKnown(edges)
  /\ Fold([swarm EXCEPT !.topology = @ \cup edges])

RemoveTopologyEdges(edges) == Fold([swarm EXCEPT !.topology = @ \ edges])

SetOptions(options) == Fold([swarm EXCEPT !.options = Merge(@, options)])

UpdateConfig(target, config) ==
  \E x \in Addressed(swarm, target) :
    Fold(Replaced(swarm, x, [x EXCEPT !.config = Merge(@, config)]))

Bumpable(x, field, from) == field \in DOMAIN x.refs /\ x.refs[field].digest = from
BumpPackage(target, field, from, to) ==
  \E x \in Addressed(swarm, target) :
    /\ Bumpable(x, field, from)
    /\ Fold(Replaced(swarm, x, [x EXCEPT !.refs[field].digest = to]))

ScaleAgentGroup(base, n) == Group(swarm, base) # {} /\ Fold(Scaled(swarm, base, n))

\* One event's precondition does not hold: the whole materialization fails.
Refuse ==
  /\ phase = "folding"
  /\ events < MaxEvents
  /\ \/ \E name \in AgentNames \cup ObjectNames : NodeExists(swarm, name)
     \/ \E name \in AgentNames : ~HasAgent(swarm, name)
     \/ \E name \in ObjectNames : ~HasObject(swarm, name)
     \/ \E edges \in EdgeLists : ~EdgesKnown(edges)
     \/ \E base \in Bases : Group(swarm, base) = {}
     \/ \E x \in Nodes(swarm), field \in AgentSlots \cup ObjectSlots, from \in Digests :
          ~Bumpable(x, field, from)
  /\ phase' = "failed"
  /\ events' = events + 1
  /\ UNCHANGED swarm

-----------------------------------------------------------------------------
(* cmdMaterialize: the end of it, and the next one                         *)

Emit ==
  /\ phase = "folding"
  /\ phase' = "emitted"
  /\ UNCHANGED <<swarm, events>>

\* resolveState: a swarmidx reference is an active release of the slot's kind, and has
\* its digest if it has one; references of other schemes, and backends, are not touched.
ResolvableSlots(x) == {f \in DOMAIN x.refs \ {"backend"} : x.refs[f].pkg # External}
AgreesRepinned(ref, f, releases) ==    \* a mutant: an old pin is replaced
  ref.pkg \in DOMAIN releases /\ releases[ref.pkg].kind = RoleKind(f)
Agrees(ref, f, releases) ==
  /\ ref.pkg \in DOMAIN releases
  /\ releases[ref.pkg].kind = RoleKind(f)
  /\ ref.digest \in {NoDigest, releases[ref.pkg].digest}

PinnedBodies(x, releases) ==    \* a mutant: only bodies are pinned
  [x EXCEPT !.refs = [f \in DOMAIN x.refs |->
     IF f \in ResolvableSlots(x) \cap {"body"}
     THEN [x.refs[f] EXCEPT !.digest = releases[x.refs[f].pkg].digest]
     ELSE x.refs[f]]]
Pinned(x, releases) ==
  [x EXCEPT !.refs = [f \in DOMAIN x.refs |->
     IF f \in ResolvableSlots(x)
     THEN [x.refs[f] EXCEPT !.digest = releases[x.refs[f].pkg].digest]
     ELSE x.refs[f]]]

AllAgree(releases) ==
  \A x \in Nodes(swarm) : \A f \in ResolvableSlots(x) : Agrees(x.refs[f], f, releases)

Resolve(releases) ==
  /\ phase = "folding"
  /\ AllAgree(releases)
  /\ swarm' = [swarm EXCEPT !.agents = {Pinned(a, releases) : a \in @},
                            !.objects = {Pinned(o, releases) : o \in @}]
  /\ phase' = "resolved"
  /\ UNCHANGED events

ResolveFails(releases) ==
  /\ phase = "folding"
  /\ ~AllAgree(releases)
  /\ phase' = "failed"
  /\ UNCHANGED <<swarm, events>>

\* ParseState of what was emitted.
ParseCheckpoint ==
  /\ phase \in {"emitted", "resolved"}
  /\ phase' = IF Valid(swarm) THEN "folding" ELSE "rejected"
  /\ UNCHANGED <<swarm, events>>

-----------------------------------------------------------------------------
Targets == NamesOf(Nodes(swarm))

Event ==
  \/ \E name \in AgentNames, refs \in AgentRefs : AddAgent(name, refs)
  \/ \E name \in ObjectNames, refs \in ObjectRefs : AddObject(name, refs)
  \/ \E name \in Targets : RemoveAgent(name) \/ RemoveObject(name)
  \/ \E edges \in EdgeLists : AddTopologyEdges(edges) \/ RemoveTopologyEdges(edges)
  \/ \E config \in Configs : SetOptions(config) \/ \E name \in Targets : UpdateConfig(name, config)
  \/ \E name \in Targets, field \in AgentSlots \cup ObjectSlots, from, to \in Digests :
       BumpPackage(name, field, from, to)
  \/ \E base \in Bases, n \in Counts : ScaleAgentGroup(base, n)
  \/ Refuse

Materialize ==
  \/ Emit \/ ParseCheckpoint
  \/ \E releases \in Snapshots : Resolve(releases) \/ ResolveFails(releases)

Terminating == phase \in {"failed", "rejected"} /\ UNCHANGED vars

Next == Event \/ Materialize \/ Terminating

Spec == Init /\ [][Next]_vars

-----------------------------------------------------------------------------
(* Properties                                                              *)

\* Every variable holds what its declaration says, and no two agents are in one
\* place of their list.
TypeOK ==
  /\ swarm \in Swarm /\ InPlaces(swarm)
  /\ phase \in {"folding", "failed", "emitted", "resolved", "rejected"}
  /\ events \in 0..MaxEvents

\* Design document, 4.2: "every op must leave the supervision tree valid in between".
\* If no object has the root of an agent's name, Validate would accept every state
\* that any events lead to, in any order, through any number of checkpoints.
ValidInBetween == Valid(swarm)

\* Design document, 4.4: the materialized state is the checkpoint to restore from.
CheckpointReadable == phase # "rejected"

\* How a group came to its size does not matter: scaled to n and then to m it is
\* what it would be if scaled to m at once.
InAnyPlace(s) == [s EXCEPT !.agents = {[a EXCEPT !.at = 0] : a \in @}, !.places = 0]
ScaleAbsorbs ==
  \A base \in Bases, n \in Counts \ {0}, m \in Counts :
    Group(swarm, base) # {} =>
      InAnyPlace(Scaled(Scaled(swarm, base, n), base, m)) = InAnyPlace(Scaled(swarm, base, m))

\* Who joined a group last does not lead it: an agent that is added under the name of an
\* instance, with whatever slots, leaves nothing behind when the group is then scaled.
Joiners(base) ==
  {name \in AgentNames : ~NodeExists(swarm, name) /\ Member(name, base) /\ name # base}
JoinersAbsorbed ==
  \A base \in Bases, n \in Counts, refs \in AgentRefs :
    Group(swarm, base) # {} =>
      \A name \in Joiners(base) :
        InAnyPlace(Scaled(WithAgent(swarm, name, refs), base, n)) = InAnyPlace(Scaled(swarm, base, n))

\* One event reaches the nodes of one group only, a name and the instances of that
\* very name: whatever node or edge else there is is left as it was.
Changed(xs, ys) == (xs \ ys) \cup (ys \ xs)
GroupLocal ==
  [][phase = "folding" /\ phase' = "folding" /\ Nodes(swarm) # Nodes(swarm') =>
       LET names == NamesOf(Changed(Nodes(swarm), Nodes(swarm')))
           stems == {Stem(x) : x \in {x \in names : x.nums # <<>>}}
       IN \E base \in names \cup stems :
            LET inGroup(x) == x = base \/ (x.nums # <<>> /\ Stem(x) = base)
            IN /\ \A x \in names : inGroup(x)
               /\ \A e \in Changed(swarm.topology, swarm'.topology) :
                    inGroup(e[1]) \/ inGroup(e[2])]_vars

\* README: materialization checks "existing digest pins ... rather than replacing
\* mismatching pins".
PinsKept ==
  [][phase = "folding" /\ phase' # "folding" =>
       \A x \in Nodes(swarm) : \E y \in Nodes(swarm') :
         /\ y.name = x.name /\ DOMAIN y.refs = DOMAIN x.refs
         /\ \A f \in DOMAIN x.refs : x.refs[f].digest # NoDigest => y.refs[f] = x.refs[f]]_vars

\* In a resolved state every package has one digest, in whichever slots of whichever
\* nodes it is, after any bumps, copies and earlier resolutions: what "gsp vendor"
\* then locks by reference is what every slot asks for.
ResolvedAgree ==
  phase = "resolved" =>
    \A x, y \in Nodes(swarm) : \A f \in ResolvableSlots(x), g \in ResolvableSlots(y) :
      /\ x.refs[f].digest # NoDigest
      /\ x.refs[f].pkg = y.refs[g].pkg => x.refs[f].digest = y.refs[g].digest

\* Scaling keeps a role's links, removals take only their own: see SwarmRoles.
Size == [r \in Roots |-> Cardinality({x \in Nodes(swarm) : x.name.root = r})]
Links == {<<e[1].root, e[2].root>> : e \in swarm.topology}
SwarmOfRoles == INSTANCE SwarmRoles WITH Roles <- Roots, size <- Size, links <- Links
ImplementsRoles == SwarmOfRoles!Spec

\* Objects' names cannot be mistaken for those of agents or their instances.
AgentRoots == {n.root : n \in AgentNames \cup UNION {NamesOf(s.agents) : s \in Seeds}}
ObjectRoots == {n.root : n \in ObjectNames \cup UNION {NamesOf(s.objects) : s \in Seeds}}
Apart == AgentRoots \cap ObjectRoots = {}
=============================================================================
