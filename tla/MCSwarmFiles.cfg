SPECIFICATION Spec
CONSTANTS
  Split <- MCSplit
  Digests = {"sha256:1", "sha256:2"}
  Exact = 8
  Documents <- MCDocuments
  Overlays <- MCOverlays
  Packages = {"swarmidx:acme/coder@1", "github"}
  Models = {"openai:gpt", "swarmidx:acme/frugal@1"}
  Backends = {"bwrap", "ssh"}
  NodeNames = {"coder"}
  Fields = {"body"}
  Releases <- MCReleases
  MaxOverlays = 2
  NoFile = NoFile
INVARIANTS
  TypeOK
  CheckpointExact
  PackagesAuthenticated
  IInv
PROPERTIES
  BackendKept
  ConfigKept
  ImplementsMemory
