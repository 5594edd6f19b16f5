SPECIFICATION Spec
CONSTANTS
  lib = lib  app = app  d1 = d1  d2 = d2
  Packages = {lib, app}
  Versions = {1, 2}
  Digests = {d1, d2}
  Payloads <- FewPayloads
  Commands = {"resolve"}
  Faults = {"mirror", "network"}
  MaxEntries = 3
  MaxInt = 4
  MaxPage = 2
  MaxLog = 3
  MaxRestores = 1
  MaxAltered = 1
INVARIANTS
  TypeOK
  VerifiedIsSigned
  SnapshotIsActive
