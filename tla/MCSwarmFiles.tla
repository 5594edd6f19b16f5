---------------------------- MODULE MCSwarmFiles -----------------------------
(***************************************************************************)
(* Two swarms of an agent and an object, whose slots, one after the other, *)
(* take every form that the parser tells apart, good and bad.              *)
(***************************************************************************)
EXTENDS SwarmFiles

Body == "swarmidx:acme/coder@1"
Policy == "swarmidx:acme/frugal@1"
Handler == "swarmidx:acme/board@1"
Digest == "sha256:1"
Other == "sha256:2"

MCSplit ==
  [s \in {Body, Policy, Handler, "openai:gpt", "oci:image", "ssh", "tmux", "bwrap", "local", "github", ":x", "x:"} |->
     CASE s \in {Body, Policy, Handler} -> <<"swarmidx", "package">>
       [] s = "openai:gpt" -> <<"openai", "gpt">>
       [] s = "oci:image" -> <<"oci", "image">>
       [] s = ":x" -> <<"", "x">>
       [] s = "x:" -> <<"x", "">>
       [] OTHER -> <<s>>]

With(m, k, v) == [x \in DOMAIN m \cup {k} |-> IF x = k THEN v ELSE m[x]]
Less(m, k) == [x \in DOMAIN m \ {k} |-> m[x]]

Ref(ref) == [ref |-> Str(ref)]
Coder == [ref |-> Str(Body), kind |-> Str("data")]
Frugal == [ref |-> Str(Policy), kind |-> Str("data")]
Keeper == [ref |-> Str(Handler), kind |-> Str("code")]
Agent(name, body, model, backend) ==
  [name |-> Str(name), body |-> Obj(body), model |-> Obj(model), backend |-> Obj(backend)]
Object(name, handler) == [name |-> Str(name), handler |-> Obj(handler)]
Swarm(agents, objects, topology) ==
  [v |-> Num(1), kind |-> Str("swarm.state"), name |-> Str("swarm"), phase |-> Str("desired"),
   agents |-> Arr(agents), objects |-> objects, topology |-> topology]

Isolated == With(Ref("bwrap"), "opts", Obj([memory |-> Num(4), net |-> Null]))
Codex == [ref |-> Str("tmux"), client |-> Str("codex"), opts |-> Null]
Remote == [ref |-> Str("ssh"), host |-> Str("there"), image |-> Str("agent"), client |-> Num(3), opts |-> Obj(NoKeys)]
Image == [ref |-> Str("oci:image"), kind |-> Str("code"), digest |-> Str(Other), image |-> Null]
Budget == Obj([budget |-> Num(7), notes |-> Null])

Plain == Agent("coder", Coder, Ref("openai:gpt"), Ref("bwrap"))
Board == Object("board", Keeper)
Edges == {Arr(<<Str("coder"), Str("board")>>), Arr(<<Str("board"), Str("coder")>>)}
Whole == Swarm({Obj(Plain)}, Arr({Obj(Board)}), Arr(Edges))
Alone(agent) == Less(Less(Swarm({Obj(agent)}, Null, Null), "objects"), "topology")

GoodDocuments ==
  {With(Swarm({Obj(With(Agent("coder", With(Coder, "digest", Str(Digest)), Ref("openai:gpt"), Isolated), "config", Budget)),
               Obj(With(Agent("critic", With(Coder, "attested", True), With(Ref("openai:gpt"), "policy", Obj(Frugal)), Codex),
                        "overrides", Budget))},
              Arr({Obj(With(Board, "config", Budget))}), Arr(Edges)), "options", Budget),
   With(With(Swarm({Obj(With(Agent("coder", With(Coder, "digest", Str(Other)), With(Ref("openai:gpt"), "policy", Null), Remote),
                             "config", Str("x"))),
                    Obj(With(Agent("critic", With(Ref("local"), "kind", Str("data")),
                                   [policy |-> Obj(With(Frugal, "opts", Null))], Image), "overrides", Null)),
                    Obj(With(Agent("tester", With(With(Coder, "digest", Num(5)), "attested", <<"boolean", FALSE>>),
                                   With(Ref("openai:gpt"), "digest", Str(Digest)), With(Ref("bwrap"), "host", Num(1))),
                             "config", Obj(NoKeys)))},
                   Str("x"), Arr({})), "options", Null), "phase", Str("observed")),
   Whole}

BadBodies ==
  {Less(Coder, "ref"), With(Coder, "ref", Str(":x")), With(Coder, "ref", Str("github")), With(Coder, "kind", Null),
   With(Coder, "kind", Num(1)), With(Coder, "kind", Str("code")), With(Coder, "attested", Num(1)), Ref("local")}
BadModels == {Frugal, [policy |-> Obj(Keeper)], [policy |-> Str("x")]}
BadBackends ==
  {Ref("ssh"), With(Ref("ssh"), "host", Num(1)), Ref("tmux"), With(Ref("tmux"), "client", Str("vi")),
   With(Ref("bwrap"), "opts", Arr({})), With(Ref("bwrap"), "image", Str("")), Ref("oci:image"), Ref("x:"), Coder}
BadAgents ==
  {Agent("", Coder, Ref("openai:gpt"), Ref("bwrap")), With(Plain, "model", Str("x"))}
  \cup {Less(Plain, k) : k \in DOMAIN Plain}
  \cup {With(Plain, "body", Obj(m)) : m \in BadBodies} \cup {With(Plain, "model", Obj(m)) : m \in BadModels}
  \cup {With(Plain, "backend", Obj(m)) : m \in BadBackends}
BadEdges == {Arr(<<Str("coder")>>), Arr(<<Str("coder"), Num(1)>>), Arr(<<Str("coder"), Str("nobody")>>), Null}
BadDocuments ==
  {Alone(m) : m \in BadAgents} \cup {With(Whole, "topology", Arr({e})) : e \in BadEdges}
  \cup {Less(Whole, k) : k \in {"v", "kind", "name", "phase", "agents", "objects"}}
  \cup {With(Whole, "v", v) : v \in {Num(2), Str("1"), <<"fraction", "1.5">>}}
  \cup {With(Whole, "phase", Str("planned")), With(Whole, "topology", Null),
        With(Whole, "objects", Arr({Null})), With(Whole, "objects", Arr({Obj(Object("board", Coder))})),
        With(Whole, "objects", Arr({Obj(Board), Obj(Object("coder", Keeper))}))}
MCDocuments == GoodDocuments \cup BadDocuments

\* Overlays: one event, or several in order or out of it.
Event(seq, op, payload) == Obj([seq |-> seq, op |-> Str(op), payload |-> payload])
Overlay(events) ==
  [v |-> Num(1), kind |-> Str("swarm.overlay"), swarm |-> Str("any"), events |-> Arr(events)]
One(op, payload) == Overlay(<<Event(Num(0), op, Obj(payload))>>)

Critic == Agent("critic", Coder, Ref("openai:gpt"), With(Remote, "opts", Obj([cpus |-> Num(2)])))
Options == One("set_options", [options |-> Obj([budget |-> Num(1), notes |-> Null])])
Tuned == [target |-> Str("coder"), config |-> Obj([budget |-> Num(2), depth |-> Num(1)])]
BumpBody == BumpTo("coder", "body", Digest, Other)

GoodOverlays ==
  {With(Options, "apply", Str("transactional")),
   Overlay(<<Event(Num(1), "remove_agent", Obj([name |-> Str("coder")])),
             Event(Num(3), "add_agent", Obj(With(With(Plain, "backend", Obj(Codex)), "config", Budget))),
             Event(Num(4), "update_config", Obj(Tuned))>>),
   Overlay(<<Event(Num(0), "add_object", Obj(With(Object("inbox", Keeper), "config", Budget))),
             Event(Num(1), "add_topology_edges", Obj([edges |-> Arr({Arr(<<Str("coder"), Str("inbox")>>)})])),
             Event(Num(2), "update_config", Obj(With(Tuned, "target", Str("inbox"))))>>),
   Overlay(<<Event(Num(1), "remove_object", Obj([name |-> Str("board"), on_inflight |-> Str("drain")])),
             Event(Num(4), "bump_package", Obj(With(BumpBody, "migration", Str("restart"))))>>),
   One("bump_package", BumpTo("board", "handler", Digest, Other)),
   Overlay(<<Event(Num(5), "bump_package", Obj(BumpTo("critic", "model", Digest, Other))),
             Event(Num(7), "bump_package", Obj(BumpTo("critic", "backend", Other, Digest)))>>),
   One("remove_topology_edges", [edges |-> Arr(Edges)]), One("add_agent", Critic)}

BadOverlays ==
  {With(Options, "apply", Null), Less(Options, "swarm"), Less(Options, "events"),
   Overlay(<<Null>>), Overlay(<<Event(Str("1"), "set_options", Obj([options |-> Obj(NoKeys)]))>>),
   Overlay(<<Event(Num(2), "remove_agent", Obj([name |-> Str("coder")])),
             Event(Num(2), "remove_object", Obj([name |-> Str("board")]))>>),
   One("rename_agent", [name |-> Str("coder")]),
   One("remove_agent", [name |-> Str("coder"), on_inflight |-> Str("wait")]),
   One("set_options", [options |-> Null]), One("update_config", [target |-> Str("coder")]),
   One("scale_agent_group", [base_name |-> Str("coder"), target_count |-> Num(-1)]),
   One("bump_package", With(BumpBody, "to", Str("sha256:z"))),
   One("add_topology_edges", [edges |-> Arr({Arr(<<Str("coder")>>)})]),
   One("add_agent", With(Critic, "backend", Obj(Coder)))}
MCOverlays == GoodOverlays \cup BadOverlays

\* The verified logs: as published; the body withdrawn and published again; the handler
\* withdrawn, and what was a policy now a handler.
Signed(kind, digest) == [kind |-> kind, digest |-> digest]
Log ==
  [ref \in {Body, Policy, Handler} |->
     Signed(IF ref = Body THEN "body" ELSE IF ref = Policy THEN "policy" ELSE "handler", Digest)]
MCReleases == {Log, With(Log, Body, Signed("body", Other)), With(Less(Log, Handler), Policy, Signed("handler", Digest))}

\* A configuration, or options, with an integer that float64 does not hold.
OddDocuments ==
  UNION {{Alone(With(Plain, "config", Obj([budget |-> Num(n)]))),
          With(Alone(Plain), "options", Obj([budget |-> Num(n)]))} : n \in 6..11}
\* The documents of the one run are what the theorems ask for, that of the other is not.
ASSUME NumbersAssumption ==
  /\ ExactBackends(MCDocuments) /\ ExactConfigs(MCDocuments)
  /\ ~ExactConfigs(OddDocuments)
=============================================================================
