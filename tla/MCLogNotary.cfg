SPECIFICATION FairSpec
CONSTANTS
  lib = lib  app = app  d1 = d1  d2 = d2
  Packages = {lib, app}
  Versions = {1, 2}
  Digests = {d1, d2}
  Payloads <- AllPayloads
  Commands = {"log", "resolve"}
  Faults = {"notary"}
  MaxEntries = 3
  MaxInt = 4
  MaxPage = 2
  MaxLog = 3
  MaxRestores = 0
  MaxAltered = 0
INVARIANTS
  HistoryIsSound
  SeesAllFromStart
PROPERTY
  EndsWell
