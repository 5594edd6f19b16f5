SPECIFICATION Spec
CONSTANTS
  p1 = p1  p2 = p2  c1 = c1  b1 = b1  b2 = b2
  Publishers = {p1, p2}
  Consumers = {c1}
  Names <- MCNames
  Dirs <- MCDirs
  Roots = {"."}
  Paths <- MCPaths
  VcsPaths = {".git/index"}
  Untracked = {"build"}
  Bytes = {b1, b2}
  VcsBytes = b2
  Manifests <- MCManifests
  Branches = {"main"}
  Tags = {"v1"}
  Trees <- MCTrees
  Changes <- MCChanges
  MaxChanges = 1
INVARIANTS
  TypeOK
  ReportedIsNotarized
  OneInDoubt
  LandedIsNotarized
  TagsVendor
  IInv
PROPERTIES
  RerunAddsNothing
SYMMETRY MCSymmetry
CHECK_DEADLOCK FALSE
