SPECIFICATION Spec
CONSTANTS
  lib = lib  app = app  d1 = d1  d2 = d2
  Packages = {lib, app}
  Versions = {1, 2}
  Digests = {d1, d2}
  Payloads <- ReturningPayloads
  Commands = {"resolve"}
  Faults = {}
  MaxEntries = 4
  MaxInt = 4
  MaxPage = 2
  MaxLog = 4
  MaxRestores = 0
  MaxAltered = 0
INVARIANT
  DependenciesAcyclic
