---------------------------- MODULE MCSwarmFold ----------------------------
(***************************************************************************)
(* A coder and a writer, agents, and a board, an object.  One seed is as   *)
(* it was authored; the other is a checkpoint in which the coder has two   *)
(* instances, of which the second was bumped.                              *)
(***************************************************************************)
EXTENDS SwarmFold, TLC

CONSTANTS coder, writer, board, bodyPkg, policyPkg, handlerPkg, d1, d2

Name(root, nums) == [root |-> root, nums |-> nums]
Slot(pkg, digest) == [pkg |-> pkg, digest |-> digest]
Outside == Slot(External, NoDigest)
Slots(body, model) == [body |-> body, model |-> model, backend |-> Outside]
Handler(digest) == [handler |-> Slot(handlerPkg, digest)]

Fresh == Slots(Slot(bodyPkg, NoDigest), Outside)
Guided(digest) == Slots(Slot(bodyPkg, digest), Slot(policyPkg, NoDigest))

Node(name, refs) == [name |-> name, refs |-> refs, config |-> NoConfig]
Placed(node, at) == [name |-> node.name, at |-> at, refs |-> node.refs, config |-> node.config]

Authored ==
  [agents |-> {Placed(Node(Name(coder, <<>>), Fresh), 1), Placed(Node(Name(writer, <<>>), Fresh), 2)},
   objects |-> {Node(Name(board, <<>>), Handler(NoDigest))},
   topology |-> {<<Name(coder, <<>>), Name(board, <<>>)>>, <<Name(coder, <<>>), Name(coder, <<>>)>>},
   options |-> NoConfig, places |-> 2]

Checkpoint ==
  [agents |-> {Placed(Node(Name(coder, <<1>>), Guided(d1)), 1), Placed(Node(Name(coder, <<2>>), Guided(d2)), 2)},
   objects |-> {Node(Name(board, <<>>), Handler(d1))},
   topology |-> {<<Name(coder, <<1>>), Name(coder, <<2>>)>>, <<Name(board, <<>>), Name(coder, <<2>>)>>},
   options |-> NoConfig, places |-> 2]

MCSeeds == {Authored, Checkpoint}

\* An agent named like an instance, and one named like an instance of an instance.
MCAgentNames == {Name(coder, <<>>), Name(coder, <<2>>), Name(coder, <<1, 1>>)}
MCObjectNames == {Name(board, <<>>)}
CollidingNames == {Name(coder, <<1>>)}
MCBases == {Name(coder, <<>>), Name(coder, <<1>>)}
MCAgentRefs == {Fresh, Guided(d1)}
MCObjectRefs == {Handler(NoDigest)}

\* From the board to coders, and two edges of which one may be unknown.
MCEdgeLists ==
  {{<<Name(board, <<>>), Name(coder, <<1>>)>>},
   {<<Name(board, <<>>), Name(board, <<>>)>>, <<Name(writer, <<>>), Name(coder, <<>>)>>}}
MCConfigs == {NoConfig, [model |-> "small"]}
Signed(kind, digest) == [kind |-> kind, digest |-> digest]
Log(digest) ==
  bodyPkg :> Signed("body", digest) @@ policyPkg :> Signed("policy", d1) @@
  handlerPkg :> Signed("handler", d1)

\* The body withdrawn and published again with other bytes; a handler named where a
\* policy is expected; nothing published.
MCSnapshots == {Log(d1), Log(d2), [Log(d1) EXCEPT ![policyPkg].kind = "handler"], <<>>}
=============================================================================
