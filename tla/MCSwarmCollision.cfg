SPECIFICATION Spec
CONSTANTS
  coder = coder  writer = writer  board = board
  bodyPkg = bodyPkg  policyPkg = policyPkg  handlerPkg = handlerPkg  d1 = d1  d2 = d2
  Roots = {coder, writer, board}
  Seeds <- MCSeeds
  AgentNames <- MCAgentNames
  ObjectNames <- CollidingNames
  AgentRefs <- MCAgentRefs
  ObjectRefs <- MCObjectRefs
  Bases <- MCBases
  Counts = {0, 1, 3}
  EdgeLists <- MCEdgeLists
  Configs <- MCConfigs
  Packages = {bodyPkg, policyPkg, handlerPkg}
  Digests = {d1, d2}
  Snapshots <- MCSnapshots
  MaxEvents = 3
INVARIANT CheckpointReadable
