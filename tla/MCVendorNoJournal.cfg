SPECIFICATION Spec
CONSTANTS
  i1 = i1  i2 = i2  i3 = i3  r1 = r1  r2 = r2  a = a  b = b  d1 = d1  d2 = d2
  Installers = {i1, i2}
  Recoverers = {r1}
  Refs = {a, b}
  Digests = {d1, d2}
  Snapshots <- MCSnapshots
  Requests <- MCRequests
  OperatorRefs = {}
  MaxDepth = 1
  Crashes <- InstallersAnywhere
  IOErrors <- Nowhere
  Discipline <- CarefulAndLate
INVARIANT InterruptedLeavesJournal
