------------------------- MODULE VendorCommitProofs ------------------------
(***************************************************************************)
(* The lock is the commit boundary, for any number of processes, packages  *)
(* and snapshots: what the lock, the tree and the journal say of each      *)
(* other, and that the lock and the answers are those of VendorStore.  It  *)
(* rests on the lease, which VendorTransactionProofs proves exclusive.     *)
(***************************************************************************)
EXTENDS VendorTransactionProofs

-----------------------------------------------------------------------------
(* Frames: what a step leaves to show, given which process makes it.       *)

LEMMA InitCommit == Init => CommitInv
<1> SUFFICES ASSUME Init PROVE CommitInv
  OBVIOUS
<1>1. \A p \in Procs : pc[p] = "idle"
  BY DEF Init
<1>2. Loose = {} /\ TreeInv
  BY DEF Init, Loose, TreeInv, Empty, NoJournal
<1>3. RollbackInv
  BY <1>1 DEF RollbackInv, RollingBack, At
<1>4. BatchInv
  BY <1>1 DEF Init, BatchInv, Batching, At, Procs
<1>5. RecordInv
  BY <1>1 DEF RecordInv, At, Procs
<1>6. ClosedLock
  BY DEF Init, ClosedLock, Empty
<1>7. QED
  BY <1>2, <1>3, <1>4, <1>5, <1>6 DEF CommitInv

\* A writer between its lease and its lock is alone: no one rolls back, no one
\* else has a batch, and no recovery has read a dead writer's journal.
LEMMA BatchAlone ==
  ASSUME TypeOK, IInv, NEW i \in Installers, Alive(i)
  PROVE  /\ pending = i
         /\ \A j \in Installers \ {i} : ~Alive(j) /\ ~Batching(j)
         /\ \A p \in Procs \ {i} : pc[p] \notin {"verify", "remove", "tear", "list", "unlink"}
         /\ \A r \in Recoverers : ~At(r, "readlock")
BY OneWriter DEF Alive, Batching, PastProbe, Procs, At

\* A step of a writer that ends inside its batch, or in its cleanup.
LEMMA WriterCommit ==
  ASSUME TypeOK, IInv, CommitInv, NEW i \in Installers, Batching(i), NEW l, Goto(i, l),
         l \in {"begin", "walk", "inplace", "commit", "list", "verify"},
         pending' = pending,
         \A j \in Installers \ {i} : new'[j] = new[j] /\ undo'[j] = undo[j]
                                     /\ outcome'[j] = outcome[j],
         TreeInv', ClosedLock',
         l \in {"begin", "walk", "inplace", "commit"} =>
           outcome'[i] = outcome[i] /\ StagedInv(i)' /\ WalkInv(i)',
         l = "verify" => (/\ Loose \subseteq Doomed(i)
                          /\ \A r \in Doomed(i) \ touched : lock[r] = Absent)',
         l = "list" => Loose' = {}
  PROVE  CommitInv'
<1>1. \A p \in Procs : pc'[p] = IF p = i THEN l ELSE pc[p]
  BY DEF Goto, TypeOK
<1>2. Alive(i) /\ i \in Procs
  BY DEF Alive, Batching, Procs
<1>3. RollbackInv'
  BY <1>1, <1>2, BatchAlone DEF RollbackInv, RollingBack, Doomed, At
<1>4. BatchInv'
  <2>1. ASSUME NEW j \in Installers \ {i}
        PROVE  /\ ~Batching(j)'
               /\ At(j, "idle")' => new'[j] = Empty /\ undo'[j] = NoUndo /\ outcome'[j] = None
    BY <1>1, <1>2, BatchAlone DEF CommitInv, BatchInv, Batching, At, Procs
  <2>2. outcome[i] = None
    BY DEF CommitInv, BatchInv
  <2>3. QED
    BY <1>1, <1>2, <2>1, <2>2 DEF BatchInv, Batching, At
<1>5. RecordInv'
  BY <1>1, <1>2, BatchAlone, ProcsAssumption DEF RecordInv, At, Alive, Procs
<1>6. QED
  BY <1>3, <1>4, <1>5 DEF CommitInv

\* Nobody else is on the way while a process rolls back or cleans up.
LEMMA CleanupAlone ==
  ASSUME TypeOK, IInv, NEW p \in Procs, pc[p] \in {"verify", "remove", "tear", "list", "unlink"}
  PROVE  /\ \A i \in Installers : ~Batching(i)
         /\ \A q \in Procs \ {p} : pc[q] \notin {"verify", "remove", "tear", "list", "unlink"}
         /\ \A r \in Recoverers : ~At(r, "readlock") /\ (At(r, "probe") => Alive(pending))
<1>1. CASE p \in Installers
  BY <1>1, BatchAlone DEF Alive, Batching, At
<1>2. CASE p \in Recoverers
  <2>1. PastProbe(p) /\ \A q \in Recoverers \ {p} : At(q, "idle")
    BY <1>2 DEF IInv, RecoverersOwnDead, Active, PastProbe, At
  <2>2. \A i \in Installers : ~Alive(i)
    BY <1>2, <2>1, OneWriter
  <2>3. QED
    BY <1>2, <2>1, <2>2 DEF Alive, Batching, At, Procs
<1>3. QED
  BY <1>1, <1>2 DEF Procs

\* A step inside rollback or the cleanup.
LEMMA CleanupCommit ==
  ASSUME TypeOK, IInv, CommitInv, NEW p \in Procs, NEW l, Goto(p, l),
         pc[p] \in {"verify", "remove", "tear", "list", "unlink"},
         l \in {"verify", "remove", "tear", "unlink"},
         UNCHANGED <<pending, lock, touched, outcome, new>>,
         \A q \in Procs \ {p} : undo'[q] = undo[q],
         TreeInv',
         l # "unlink" => (/\ Loose \subseteq Doomed(p)
                          /\ \A r \in Doomed(p) \ touched : lock[r] = Absent)',
         l \in {"remove", "tear"} => undo'[p].refs = {},
         l = "tear" => undo'[p].cur \in undo'[p].present,
         l = "unlink" => Loose' = {}
  PROVE  CommitInv'
<1>1. \A q \in Procs : pc'[q] = IF q = p THEN l ELSE pc[q]
  BY DEF Goto, TypeOK
<1>2. RollbackInv'
  BY <1>1, CleanupAlone DEF RollbackInv, RollingBack, Doomed, At
<1>3. BatchInv'
  <2>1. ASSUME NEW i \in Installers
        PROVE  /\ ~Batching(i)'
               /\ At(i, "idle")' => new'[i] = Empty /\ undo'[i] = NoUndo /\ outcome'[i] = None
    BY <1>1, CleanupAlone DEF CommitInv, BatchInv, Batching, At, Procs
  <2>2. QED
    BY <2>1 DEF BatchInv
<1>4. RecordInv'
  <2>1. \A r \in Recoverers : ~At(r, "readlock")'
    BY <1>1, CleanupAlone DEF At, Procs
  <2>2. ASSUME NEW r \in Recoverers, At(r, "probe")' PROVE Alive(pending)'
    <3>1. At(r, "probe") /\ Alive(pending)
      BY <1>1, <2>2, CleanupAlone DEF At, Procs
    <3>2. pending \in Procs
      BY <3>1 DEF IInv, RecoverersOwnDead, Linked, Active, At, Procs
    <3>3. QED
      BY <1>1, <3>1, <3>2 DEF Alive
  <2>3. QED
    BY <2>1, <2>2 DEF RecordInv
<1>5. ClosedLock'
  BY DEF CommitInv, ClosedLock
<1>6. QED
  BY <1>2, <1>3, <1>4, <1>5 DEF CommitInv

\* A step with which a process ends, gives up or lets go: the tree, the lock and
\* the journal stay as they are.
LEMMA EndCommit ==
  ASSUME TypeOK, IInv, CommitInv, Attended, NEW p \in Procs, NEW l, Goto(p, l),
         \/ p \in Installers /\ Alive(p) /\ Steady(p) /\ l \in {"exited", "crashed"}
         \/ p \in Recoverers /\ Active(p) /\ l \in {"release", "idle"},
         UNCHANGED <<files, journal, outcome>>,
         \A q \in Procs \ {p} : new'[q] = new[q] /\ undo'[q] = undo[q],
         p \in Recoverers => UNCHANGED <<staged, walk>> /\ (pending' = pending \/ PastProbe(p))
  PROVE  CommitInv'
<1> USE DEF files
<1>1. \A q \in Procs : pc'[q] = IF q = p THEN l ELSE pc[q]
  BY DEF Goto, TypeOK
<1>2. TreeInv' /\ Loose' = Loose /\ ClosedLock'
  BY DEF CommitInv, TreeInv, Loose, ClosedLock
<1>3. RollbackInv'
  BY <1>1, <1>2, ProcsAssumption DEF CommitInv, RollbackInv, RollingBack, Doomed, At, Procs
<1>4. BatchInv'
  <2>1. CASE p \in Installers
    <3>1. \A i \in Installers : ~Batching(i)'
      BY <1>1, <2>1, BatchAlone, ProcsAssumption DEF Batching, Procs
    <3>2. QED
      BY <1>1, <2>1, <3>1, ProcsAssumption DEF CommitInv, BatchInv, At, Procs
  <2>2. CASE p \in Recoverers /\ PastProbe(p)
    <3>1. \A i \in Installers : ~Batching(i)
      BY <2>2, OneWriter DEF Alive, Batching
    <3>2. QED
      BY <1>1, <2>2, <3>1, ProcsAssumption DEF CommitInv, BatchInv, Batching, At, Procs
  <2>3. CASE p \in Recoverers /\ UNCHANGED <<staged, walk>>
    <3>1. \A i \in Installers : /\ pc'[i] = pc[i] /\ new'[i] = new[i] /\ undo'[i] = undo[i]
                                /\ outcome'[i] = outcome[i]
      BY <1>1, <2>3, ProcsAssumption DEF Procs
    <3>2. \A i \in Installers : StagedInv(i)' <=> StagedInv(i)
      BY <1>2, <2>3, <3>1 DEF StagedInv, At
    <3>3. \A i \in Installers : WalkInv(i)' <=> WalkInv(i)
      BY <2>3, <3>1 DEF WalkInv, At, Todo
    <3>4. QED
      BY <3>1, <3>2, <3>3 DEF CommitInv, BatchInv, Batching, At
  <2>4. QED
    BY <2>1, <2>2, <2>3 DEF Procs
<1>5. RecordInv'
  <2>1. CASE p \in Installers
    <3>1. \A r \in Recoverers : ~At(r, "probe") /\ ~At(r, "readlock")
      BY <2>1, OneWriter, ProcsAssumption
         DEF IInv, RecoverersOwnDead, Steady, Attended, PastProbe
    <3>2. QED
      BY <1>1, <2>1, <3>1, ProcsAssumption DEF RecordInv, At, Procs
  <2>2. CASE p \in Recoverers
    <3>1. \A r \in Recoverers \ {p} : At(r, "idle")
      BY <2>2, ProcsAssumption DEF IInv, RecoverersOwnDead, Active, At
    <3>2. QED
      BY <1>1, <2>2, <3>1, ProcsAssumption DEF RecordInv, At, Procs
  <2>3. QED
    BY <2>1, <2>2 DEF Procs
<1>6. QED
  BY <1>2, <1>3, <1>4, <1>5 DEF CommitInv

\* A step of Recover that goes on, with nothing but its own memory and its mark changed.
LEMMA RecoveryCommit ==
  ASSUME TypeOK, IInv, CommitInv, NEW r \in Recoverers, NEW l, Goto(r, l),
         l \in {"claim", "read", "probe", "readlock", "verify"},
         UNCHANGED <<files, pending, journal, staged, walk, outcome>>,
         \A q \in Procs \ {r} : new'[q] = new[q] /\ undo'[q] = undo[q],
         \A q \in Recoverers \ {r} : At(q, "idle"),
         l \in {"probe", "readlock"} => new'[r] = journal.new,
         l = "verify" => (/\ Loose \subseteq Doomed(r)
                          /\ \A x \in Doomed(r) \ touched : lock[x] = Absent)'
  PROVE  CommitInv'
<1> USE DEF files
<1>1. \A q \in Procs : pc'[q] = IF q = r THEN l ELSE pc[q]
  BY DEF Goto, TypeOK, Procs
<1>2. TreeInv' /\ Loose' = Loose /\ ClosedLock'
  BY DEF CommitInv, TreeInv, Loose, ClosedLock
<1>3. RollbackInv'
  BY <1>1, <1>2, ProcsAssumption DEF CommitInv, RollbackInv, RollingBack, Doomed, At, Procs
<1>4. BatchInv'
  <2>1. \A i \in Installers : /\ pc'[i] = pc[i] /\ new'[i] = new[i] /\ undo'[i] = undo[i]
                              /\ outcome'[i] = outcome[i]
    BY <1>1, ProcsAssumption DEF Procs
  <2>2. \A i \in Installers : StagedInv(i)' <=> StagedInv(i)
    BY <1>2, <2>1 DEF StagedInv, At
  <2>3. \A i \in Installers : WalkInv(i)' <=> WalkInv(i)
    BY <2>1 DEF WalkInv, At, Todo
  <2>4. QED
    BY <2>1, <2>2, <2>3 DEF CommitInv, BatchInv, Batching, At
<1>5. RecordInv'
  BY <1>1, ProcsAssumption DEF RecordInv, At, Procs
<1>6. QED
  BY <1>2, <1>3, <1>4, <1>5 DEF CommitInv
-----------------------------------------------------------------------------
(* The steps of a batch                                                    *)

\* A step that leaves the directories, the lock and the journal alone.
LEMMA QuietTree ==
  ASSUME TreeInv, UNCHANGED <<disk, lock, touched>>, journal' = journal
  PROVE  TreeInv' /\ Loose' = Loose
BY DEF TreeInv, Loose

\* Landing r: it is marked seen and its dependencies are queued.
LEMMA SeenWalk ==
  ASSUME TypeOK, NEW i \in Installers, NEW r \in Refs, Seen(i, r), WalkInv(i),
         r \in walk[i].queue, walk[i].snap.digest[r] # Absent,
         At(i, "walk")'
  PROVE  WalkInv(i)'
<1> DEFINE w == walk[i]
           v == walk'[i]
<1>1. /\ v.snap = w.snap /\ v.queue = w.queue
      /\ v.seen = w.seen \cup {r} /\ v.next = w.next \cup w.snap.deps[r]
  BY DEF Seen, TypeOK, Walks
<1>2. \A x \in v.seen : /\ v.snap.digest[x] # Absent
                         /\ v.snap.deps[x] \subseteq v.seen \cup v.queue \cup v.next
  BY <1>1 DEF WalkInv
<1>3. \E roots \in Requests :
        /\ roots \subseteq v.seen \cup v.queue
        /\ \A T \in SUBSET Refs :
             roots \subseteq T /\ Store!ClosedUnder(v.snap, T)
             => v.seen \cup v.queue \cup v.next \subseteq T
  <2>1. PICK roots \in Requests :
          /\ roots \subseteq w.seen \cup w.queue
          /\ \A T \in SUBSET Refs :
               roots \subseteq T /\ Store!ClosedUnder(w.snap, T)
             => w.seen \cup w.queue \cup w.next \subseteq T
    BY DEF WalkInv
  <2>2. ASSUME NEW T \in SUBSET Refs, roots \subseteq T, Store!ClosedUnder(v.snap, T)
        PROVE  v.seen \cup v.queue \cup v.next \subseteq T
    <3>1. w.seen \cup w.queue \cup w.next \subseteq T /\ Store!ClosedUnder(w.snap, T)
      BY <1>1, <2>1, <2>2
    <3>2. r \in T /\ w.snap.deps[r] \subseteq T
      BY <3>1 DEF Store!ClosedUnder
    <3>3. QED
      BY <1>1, <3>1, <3>2
  <2>3. QED
    BY <1>1, <2>1, <2>2
<1>4. QED
  BY <1>1, <1>2, <1>3 DEF WalkInv, At

\* Taking the lease: nothing is loose, and the process knows nothing yet.
LEMMA LeaseCommit ==
  ASSUME TypeOK, IInv, CommitInv, NEW i \in Installers, Lease(i)
  PROVE  CommitInv'
<1> USE DEF files, lease, batch
<1>1. pending = None /\ i \in Procs /\ pc[i] = "idle"
  BY DEF Lease, LeaseFree, Procs, At
<1>2. \A q \in Procs : pc'[q] = IF q = i THEN "leased" ELSE pc[q]
  BY DEF Lease, Goto, TypeOK
<1>3. \A j \in Installers : ~Alive(j)
  BY <1>1, ProcsAssumption DEF IInv, WritersOwnPending, Procs
<1>4. \A r \in Recoverers : ~At(r, "probe") /\ ~At(r, "readlock") /\ ~PastProbe(r)
  BY <1>1, ProcsAssumption DEF IInv, RecoverersOwnDead, Linked, Active, At, PastProbe, Procs
<1>5. TreeInv' /\ Loose' = {} /\ staged' = Empty
  <2>1. journal = NoJournal /\ staged = Empty
    BY <1>1 DEF IInv, PendingContents
  <2>2. Loose = {}
    BY <2>1 DEF CommitInv, TreeInv, NoJournal, Empty, Loose
  <2>3. QED
    BY <2>1, <2>2, QuietTree DEF Lease, CommitInv
<1>6. RollbackInv'
  BY <1>2, <1>3, <1>4 DEF RollbackInv, RollingBack, At, Alive, PastProbe, Procs
<1>7. BatchInv'
  <2>1. /\ new'[i] = Empty /\ undo'[i] = NoUndo /\ outcome'[i] = None
    BY <1>1 DEF Lease, CommitInv, BatchInv, At
  <2>2. PICK snap \in Snapshots, roots \in Requests :
          walk' = [walk EXCEPT ![i] = [NoWalk EXCEPT !.snap = snap, !.queue = roots]]
    BY DEF Lease
  <2>3. /\ walk'[i].snap = snap /\ walk'[i].queue = roots
        /\ walk'[i].seen = {} /\ walk'[i].next = {}
    BY <2>2 DEF NoWalk, TypeOK
  <2>4. StagedInv(i)'
    BY <1>1, <1>2, <1>5, <2>1, <2>3 DEF StagedInv, At, Empty, NoUndo
  <2>5. WalkInv(i)'
    BY <1>1, <1>2, <2>2, <2>3 DEF WalkInv, At
  <2>6. ASSUME NEW j \in Installers \ {i}
        PROVE  /\ ~Batching(j)'
               /\ At(j, "idle")' => new'[j] = Empty /\ undo'[j] = NoUndo /\ outcome'[j] = None
    BY <1>2, <1>3 DEF Lease, CommitInv, BatchInv, Batching, At, Alive, Procs
  <2>7. QED
    BY <1>1, <1>2, <2>1, <2>4, <2>5, <2>6 DEF BatchInv, At
<1>8. RecordInv'
  BY <1>1, <1>2, <1>4, ProcsAssumption DEF RecordInv, At, Procs
<1>9. ClosedLock'
  BY DEF Lease, CommitInv, ClosedLock
<1>10. QED
  BY <1>5, <1>6, <1>7, <1>8, <1>9 DEF CommitInv
\* vendorGraph's steps: staging a package, finding one in its place, a level further.
LEMMA WalkCommit ==
  ASSUME TypeOK, IInv, CommitInv, NEW i \in Installers,
         \/ ReadLock(i) \/ NextLevel(i) \/ Begin(i)
         \/ \E r \in Refs : Stage(i, r) \/ FoundInPlace(i, r) \/ InPlace(i, r)
  PROVE  CommitInv'
<1> USE DEF files, lease, batch, Goto
<1>0. /\ i \in Procs /\ pc \in [Procs -> Labels] /\ new \in [Procs -> Entries]
      /\ undo \in [Procs -> Undos] /\ TreeInv /\ ClosedLock /\ i # None
  BY ProcsAssumption DEF Procs, TypeOK, CommitInv
<1>1. Batching(i) /\ StagedInv(i) /\ WalkInv(i) /\ ~At(i, "commit") /\ pending = i
  <2>1. Batching(i) /\ ~At(i, "commit")
    BY DEF ReadLock, NextLevel, LevelDone, Begin, Stage, FoundInPlace, InPlace, Batching, At
  <2>2. pending = i
    BY <2>1, OneWriter DEF Alive, Batching
  <2>3. QED
    BY <2>1, <2>2 DEF CommitInv, BatchInv
<1>2. Loose = {} /\ undo[i].refs = {}
  BY <1>1 DEF StagedInv
<1>3. \A j \in Installers \ {i} : new'[j] = new[j] /\ undo'[j] = undo[j] /\ outcome'[j] = outcome[j]
  BY <1>0 DEF ReadLock, NextLevel, Begin, Stage, FoundInPlace, InPlace, Procs
<1>4. CASE ReadLock(i)
  <2>1. TreeInv' /\ Loose' = Loose /\ ClosedLock'
    BY <1>0, <1>4, QuietTree DEF ReadLock, ClosedLock
  <2>2. StagedInv(i)' /\ WalkInv(i)'
    BY <1>0, <1>1, <1>4, <2>1 DEF ReadLock, StagedInv, WalkInv, At, Todo
  <2>3. QED
    BY <1>1, <1>3, <1>4, <2>1, <2>2, WriterCommit DEF ReadLock
<1>5. CASE NextLevel(i)
  <2>1. TreeInv' /\ Loose' = Loose /\ ClosedLock'
    BY <1>0, <1>5, QuietTree DEF NextLevel, ClosedLock
  <2>2. /\ walk'[i].snap = walk[i].snap /\ walk'[i].seen = walk[i].seen
        /\ walk'[i].queue = walk[i].next /\ walk'[i].next = {} /\ walk[i].queue \subseteq walk[i].seen
    BY <1>5 DEF NextLevel, LevelDone, TypeOK, Walks
  <2>3. At(i, "walk") /\ At(i, "walk")'
    BY <1>5 DEF NextLevel, LevelDone, At
  <2>4. StagedInv(i)'
    BY <1>1, <1>5, <2>1, <2>2, <2>3 DEF NextLevel, StagedInv, At
  <2>5. WalkInv(i)'
    <3>1. PICK roots \in Requests :
            /\ roots \subseteq walk[i].seen \cup walk[i].queue
            /\ \A T \in SUBSET Refs :
                 roots \subseteq T /\ Store!ClosedUnder(walk[i].snap, T) =>
                   walk[i].seen \cup walk[i].queue \cup walk[i].next \subseteq T
      BY <1>1 DEF WalkInv
    <3>2. QED
      BY <1>1, <2>2, <2>3, <3>1 DEF WalkInv, At
  <2>6. Goto(i, "walk")
    BY <1>0, <1>5, <2>3 DEF NextLevel, At
  <2>7. QED
    BY <1>1, <1>3, <1>5, <2>1, <2>4, <2>5, <2>6, WriterCommit DEF NextLevel
<1>6. CASE Begin(i)
  <2>1. new[i] = Empty /\ journal'.new = Empty
    BY <1>1, <1>6 DEF Begin, WriteJournal, StagedInv, At
  <2>2. TreeInv' /\ Loose' = Loose /\ ClosedLock'
    BY <1>0, <1>2, <1>6, <2>1 DEF Begin, TreeInv, Loose, ClosedLock, Empty
  <2>3. StagedInv(i)' /\ WalkInv(i)'
    BY <1>0, <1>1, <1>6, <2>2 DEF Begin, WriteJournal, StagedInv, WalkInv, At, Todo
  <2>4. QED
    BY <1>1, <1>3, <1>6, <2>2, <2>3, WriterCommit DEF Begin, WriteJournal
<1>7. ASSUME NEW r \in Refs, Stage(i, r) PROVE CommitInv'
  <2>1. TreeInv' /\ Loose' = Loose /\ ClosedLock'
    BY <1>0, <1>7, QuietTree DEF Stage, ClosedLock
  <2>2. At(i, "walk") /\ At(i, "walk")' /\ Goto(i, "walk") /\ pending' = pending
    BY <1>0, <1>1, <1>7 DEF Stage, At
  <2>3. /\ walk'[i].snap = walk[i].snap /\ walk'[i].seen = walk[i].seen \cup {r}
        /\ walk[i].snap.digest[r] # Absent
        /\ \A x \in Refs : new'[i][x] = IF x = r THEN walk[i].snap.digest[r] ELSE new[i][x]
        /\ \A x \in Refs : staged'[x] = IF x = r THEN walk[i].snap.digest[r] ELSE staged[x]
    <3>1. walk[i].snap.digest[r] \in Digests \cup {Absent} /\ walk[i].snap.digest[r] # Absent
      BY <1>7 DEF Stage, Todo, TypeOK, Walks, Snapshot, Entries
    <3>2. /\ walk'[i].snap = walk[i].snap /\ walk'[i].seen = walk[i].seen \cup {r}
      BY <1>7 DEF Stage, Seen, TypeOK, Walks
    <3>3. \A x \in Refs : new'[i][x] = IF x = r THEN walk[i].snap.digest[r] ELSE new[i][x]
      BY <1>0, <1>7 DEF Stage, Entries
    <3>4. \A x \in Refs : staged'[x] = IF x = r THEN walk[i].snap.digest[r] ELSE staged[x]
      BY <1>7 DEF Stage, TypeOK, Entries
    <3>5. QED
      BY <3>1, <3>2, <3>3, <3>4
  <2>4. r \notin touched => lock[r] = Absent
    BY <1>0, <1>7 DEF Stage, TreeInv
  <2>5. undo' = undo /\ UNCHANGED <<disk, lock, touched>>
    BY <1>7 DEF Stage
  <2>6. StagedInv(i)'
    BY <1>1, <2>1, <2>2, <2>3, <2>4, <2>5 DEF StagedInv, At
  <2>7. WalkInv(i)'
    BY <1>1, <1>7, <2>2, SeenWalk DEF Stage, Todo
  <2>8. QED
    BY <1>1, <1>3, <1>7, <2>1, <2>2, <2>6, <2>7, WriterCommit DEF Stage
<1>8. ASSUME NEW r \in Refs, FoundInPlace(i, r) PROVE CommitInv'
  <2>1. TreeInv' /\ Loose' = Loose /\ ClosedLock'
    BY <1>0, <1>8, QuietTree DEF FoundInPlace, ClosedLock
  <2>2. undo'[i].cur = r /\ undo'[i].refs = undo[i].refs /\ At(i, "inplace")' /\ At(i, "walk")
    BY <1>0, <1>8 DEF FoundInPlace, Undos, At
  <2>3. StagedInv(i)'
    BY <1>1, <1>2, <1>8, <2>1, <2>2 DEF FoundInPlace, StagedInv, At
  <2>4. WalkInv(i)'
    BY <1>1, <1>8, <2>2 DEF FoundInPlace, WalkInv, At, Todo
  <2>5. QED
    BY <1>1, <1>3, <1>8, <2>1, <2>3, <2>4, WriterCommit DEF FoundInPlace
<1>9. ASSUME NEW r \in Refs, InPlace(i, r) PROVE CommitInv'
  <2>1. Todo(i, r) /\ (r \notin touched => disk[r] # Absent)
    BY <1>1, <1>9 DEF InPlace, WalkInv, StagedInv
  <2>2. \A x \in Refs \ touched : disk'[x] = disk[x]
    BY <1>9, <2>1 DEF InPlace, TypeOK
  <2>3. disk'[r] = walk[i].snap.digest[r]
    BY <1>9 DEF InPlace, TypeOK
  <2>4. TreeInv' /\ Loose' = Loose /\ ClosedLock'
    <3>1. UNCHANGED <<lock, touched, journal>>
      BY <1>9 DEF InPlace
    <3>2. Loose' = Loose
      BY <2>2, <3>1 DEF Loose
    <3>3. QED
      BY <1>0, <2>2, <3>1, <3>2 DEF TreeInv, ClosedLock
  <2>5. /\ walk'[i].snap = walk[i].snap /\ walk'[i].seen = walk[i].seen \cup {r}
    <3>1. Seen(i, r)
      BY <1>9 DEF InPlace
    <3>2. QED
      BY <3>1 DEF Seen, TypeOK, Walks
  <2>6. undo'[i].refs = undo[i].refs /\ At(i, "walk")' /\ At(i, "inplace")
    BY <1>0, <1>9 DEF InPlace, Undos, At
  <2>7. new'[i] = new[i] /\ staged' = staged /\ lock' = lock /\ touched' = touched
    BY <1>9 DEF InPlace
  <2>8. StagedInv(i)'
    BY <1>1, <1>2, <2>2, <2>3, <2>4, <2>5, <2>6, <2>7 DEF StagedInv, At
  <2>9. WalkInv(i)'
    BY <1>1, <1>9, <2>1, <2>6, SeenWalk DEF InPlace, Todo
  <2>10. QED
    BY <1>1, <1>3, <1>9, <2>4, <2>8, <2>9, WriterCommit DEF InPlace
<1>10. QED
  BY <1>4, <1>5, <1>6, <1>7, <1>8, <1>9

\* The second journal, a move, and the errors before and in the commit.
LEMMA MoveCommit ==
  ASSUME TypeOK, IInv, CommitInv, NEW i \in Installers,
         Merge(i) \/ CommitError(i) \/ Abort(i) \/ \E r \in Refs : Move(i, r)
  PROVE  CommitInv'
<1> USE DEF files, lease, batch, Goto
<1>0. /\ i \in Procs /\ pc \in [Procs -> Labels] /\ new \in [Procs -> Entries]
      /\ undo \in [Procs -> Undos] /\ TreeInv /\ ClosedLock /\ i # None
  BY ProcsAssumption DEF Procs, TypeOK, CommitInv
<1>1. Batching(i) /\ StagedInv(i) /\ WalkInv(i) /\ pending = i
  <2>1. Batching(i)
    BY DEF Merge, WalkDone, LevelDone, CommitError, Abort, Move, Batching, At
  <2>2. pending = i
    BY <2>1, OneWriter DEF Alive, Batching
  <2>3. QED
    BY <2>1, <2>2 DEF CommitInv, BatchInv
<1>2. \A j \in Installers \ {i} : new'[j] = new[j] /\ undo'[j] = undo[j] /\ outcome'[j] = outcome[j]
  BY <1>0 DEF Merge, CommitError, Abort, Move, Procs, TypeOK
<1>3. CASE Merge(i)
  <2>1. At(i, "walk") /\ At(i, "commit")' /\ walk[i].queue \subseteq walk[i].seen /\ walk[i].next = {}
    BY <1>0, <1>3 DEF Merge, WalkDone, LevelDone, At
  <2>2. Loose = {} /\ undo[i].refs = {}
    BY <1>1, <2>1 DEF StagedInv, At
  <2>3. journal'.new = new[i] /\ UNCHANGED <<disk, lock, touched, staged, walk, new, undo, outcome>>
    BY <1>3 DEF Merge, WriteJournal
  <2>4. TreeInv' /\ Loose' = {} /\ ClosedLock'
    BY <1>0, <1>1, <2>2, <2>3 DEF TreeInv, Loose, ClosedLock, StagedInv
  <2>5. StagedInv(i)'
    BY <1>1, <2>1, <2>2, <2>3, <2>4 DEF StagedInv, At
  <2>6. WalkInv(i)'
    BY <1>1, <2>1, <2>3 DEF WalkInv, At
  <2>7. QED
    BY <1>1, <1>2, <1>3, <2>3, <2>4, <2>5, <2>6, WriterCommit DEF Merge, WriteJournal
<1>4. ASSUME NEW r \in Refs, Move(i, r) PROVE CommitInv'
  <2>1. At(i, "commit") /\ At(i, "commit")' /\ Goto(i, "commit")
    BY <1>0, <1>4 DEF Move, At
  <2>2. staged[r] = new[i][r] /\ new[i][r] # Absent /\ r \notin undo[i].refs
    BY <1>1, <1>4 DEF Move, ToMove, StagedInv
  <2>3. /\ \A x \in Refs : disk'[x] = IF x = r THEN new[i][r] ELSE disk[x]
        /\ \A x \in Refs : staged'[x] = IF x = r THEN Absent ELSE staged[x]
        /\ undo'[i].refs = undo[i].refs \cup {r}
    BY <1>0, <1>4, <2>2 DEF Move, TypeOK, Undos, Entries
  <2>4. UNCHANGED <<lock, touched, journal, walk, new, outcome>>
    BY <1>4 DEF Move
  <2>5. journal.new = new[i] /\ (r \notin touched => lock[r] = Absent)
    BY <1>1, <2>1, <2>2 DEF StagedInv
  <2>6. Loose' \subseteq Loose \cup {r} /\ TreeInv' /\ ClosedLock'
    BY <1>0, <2>2, <2>3, <2>4, <2>5 DEF TreeInv, Loose, ClosedLock
  <2>7. StagedInv(i)'
    <3>1. \A x \in walk[i].seen \ touched : new[i][x] = Absent => disk'[x] = walk[i].snap.digest[x]
      BY <1>1, <2>2, <2>3 DEF StagedInv, TypeOK, Walks
    <3>2. \A x \in undo'[i].refs : new[i][x] # Absent /\ (x \notin touched => disk'[x] = new[i][x])
      BY <1>0, <1>1, <2>1, <2>2, <2>3 DEF StagedInv, Undos
    <3>3. QED
      BY <1>1, <2>1, <2>3, <2>4, <2>6, <3>1, <3>2 DEF StagedInv, At
  <2>8. WalkInv(i)'
    BY <1>1, <2>1, <2>4 DEF WalkInv, At
  <2>9. QED
    BY <1>1, <1>2, <1>4, <2>1, <2>4, <2>6, <2>7, <2>8, WriterCommit DEF Move
<1>5. CASE CommitError(i)
  <2>1. TreeInv' /\ Loose' = Loose /\ ClosedLock'
    BY <1>0, <1>5, QuietTree DEF CommitError, ClosedLock
  <2>2. Loose \subseteq undo[i].refs /\ \A r \in undo[i].refs \ touched : lock[r] = Absent
    BY <1>0, <1>1, <1>5 DEF CommitError, StagedInv, Undos
  <2>3. Doomed(i)' = undo[i].refs
    BY <1>0, <1>5 DEF CommitError, Doomed, Undos
  <2>4. QED
    BY <1>1, <1>2, <1>5, <2>1, <2>2, <2>3, WriterCommit DEF CommitError
<1>6. CASE Abort(i)
  <2>1. TreeInv' /\ Loose' = Loose /\ ClosedLock'
    BY <1>0, <1>6, QuietTree DEF Abort, ClosedLock
  <2>2. Loose = {}
    BY <1>1, <1>6 DEF Abort, StagedInv, At
  <2>3. QED
    BY <1>1, <1>2, <1>6, <2>1, <2>2, WriterCommit DEF Abort
<1>7. QED
  BY <1>3, <1>4, <1>5, <1>6
\* WriteLock: what it lists afterwards is on disk with its dependencies, and nothing
\* that is on disk is left out.
LEMMA LockCommit ==
  ASSUME TypeOK, IInv, CommitInv, NEW i \in Installers, CommitLock(i)
  PROVE  CommitInv'
<1> USE DEF files, lease, batch, Goto
<1> DEFINE seen == walk[i].seen
           digest == walk[i].snap.digest
<1>1. At(i, "commit") /\ Batching(i) /\ i \in Procs
  BY DEF CommitLock, Batching, At, Procs
<1>2. StagedInv(i) /\ WalkInv(i) /\ TreeInv /\ ClosedLock
  BY <1>1 DEF CommitInv, BatchInv
<1>3. old[i] = lock /\ Compatible(i) /\ lock' = Merged(i)
  BY <1>1 DEF IInv, OldIsLock, CommitLock, At
<1>4. \A x \in Refs : Landed(i)[x] = IF x \in seen THEN digest[x] ELSE Absent
  BY DEF Landed
<1>5. /\ \A x \in Refs : x \in seen => digest[x] # Absent /\ lock'[x] = digest[x]
      /\ \A x \in Refs : x \notin seen => lock'[x] = lock[x]
      /\ \A x \in Refs : lock[x] # Absent => lock'[x] = lock[x]
  BY <1>2, <1>3, <1>4 DEF Merged, Compatible, WalkInv
<1>6. \A x \in Refs : new[i][x] # Absent => x \in seen /\ new[i][x] = digest[x] /\ x \in undo[i].refs
  BY <1>2 DEF CommitLock, StagedInv, ToMove
<1>7. UNCHANGED <<disk, touched, journal, new, undo>> /\ journal.new = new[i]
  BY <1>1, <1>2 DEF CommitLock, StagedInv
<1>8. Loose' = {}
  <2>1. ASSUME NEW x \in Refs \ touched, disk[x] # Absent, lock'[x] = Absent PROVE FALSE
    <3>1. x \notin seen /\ lock[x] = Absent
      BY <1>5, <2>1
    <3>2. x \in undo[i].refs
      BY <1>1, <1>2, <2>1, <3>1 DEF StagedInv, Loose
    <3>3. QED
      BY <1>1, <1>2, <1>6, <3>1, <3>2 DEF StagedInv
  <2>2. QED
    BY <1>7, <2>1 DEF Loose
<1>9. TreeInv'
  <2>1. ASSUME NEW x \in Refs \ touched, lock'[x] # Absent PROVE disk[x] = lock'[x]
    <3>1. CASE x \notin seen
      BY <1>2, <1>5, <2>1, <3>1 DEF TreeInv
    <3>2. CASE x \in seen /\ new[i][x] = Absent
      BY <1>2, <1>5, <3>2 DEF StagedInv
    <3>3. CASE new[i][x] # Absent
      BY <1>1, <1>2, <1>5, <1>6, <2>1, <3>3 DEF StagedInv
    <3>4. QED
      BY <3>1, <3>2, <3>3
  <2>2. ASSUME NEW x \in Refs \ touched, journal.new[x] # Absent PROVE lock'[x] = journal.new[x]
    BY <1>5, <1>6, <1>7, <2>2
  <2>3. QED
    BY <1>7, <1>8, <2>1, <2>2 DEF TreeInv
<1>10. ClosedLock'
  <2>1. ASSUME NEW x \in Refs, x \in seen
        PROVE  /\ walk[i].snap \in Snapshots /\ digest[x] = lock'[x]
               /\ \A d \in walk[i].snap.deps[x] : lock'[d] # Absent /\ lock'[d] = digest[d]
    <3>1. /\ walk[i].snap \in Snapshots /\ walk[i].snap.deps[x] \subseteq seen
          /\ seen \subseteq Refs
      BY <1>1, <1>2, <2>1 DEF WalkInv, TypeOK, Walks
    <3>2. QED
      BY <1>5, <2>1, <3>1
  <2>2. ASSUME NEW x \in Refs, x \notin seen, lock'[x] # Absent
        PROVE  \E snap \in Snapshots :
                 /\ snap.digest[x] = lock'[x]
                 /\ \A d \in snap.deps[x] : lock'[d] # Absent /\ lock'[d] = snap.digest[d]
    <3>1. PICK snap \in Snapshots :
            /\ snap.digest[x] = lock[x]
            /\ \A d \in snap.deps[x] : lock[d] # Absent /\ lock[d] = snap.digest[d]
      BY <1>2, <1>5, <2>2 DEF ClosedLock
    <3>2. snap.deps[x] \subseteq Refs
      BY DataAssumption DEF Snapshot
    <3>3. QED
      BY <1>5, <2>2, <3>1, <3>2
  <2>3. QED
    BY <2>1, <2>2 DEF ClosedLock
<1>11. \A j \in Installers \ {i} : new'[j] = new[j] /\ undo'[j] = undo[j] /\ outcome'[j] = outcome[j]
  BY DEF CommitLock, TypeOK
<1>12. QED
  BY <1>1, <1>8, <1>9, <1>10, <1>11, WriterCommit DEF CommitLock
-----------------------------------------------------------------------------
(* Rollback, cleanup, recovery and faults                                  *)

LEMMA RollbackCommit ==
  ASSUME TypeOK, IInv, CommitInv, Attended, NEW p \in Procs,
         Rollback(p) \/ RemovePending(p) \/ IOError(p) \/ Crash(p)
  PROVE  CommitInv'
<1> USE DEF files, lease, batch
<1>1. pc \in [Procs -> Labels] /\ undo \in [Procs -> Undos] /\ TreeInv /\ RollbackInv
  BY DEF TypeOK, CommitInv
<1>2. p \in Recoverers => pc[p] # "exited" /\ pc[p] # "crashed"
  BY DEF IInv, LabelsFit, PastProbe, At
<1>3. ASSUME Forget(p) \/ UNCHANGED <<new, undo>>
      PROVE  \A q \in Procs \ {p} : new'[q] = new[q] /\ undo'[q] = undo[q]
  BY <1>3 DEF Forget, TypeOK
<1>4. ASSUME Leave(p), pc[p] \notin {"idle", "exited", "crashed"},
             UNCHANGED <<files, journal, staged, outcome>>,
             pending' = pending \/ PastProbe(p)
      PROVE  CommitInv'
  <2>1. CASE p \in Installers
    BY <1>3, <1>4, <2>1, EndCommit, ProcsAssumption DEF Leave, Alive, Procs
  <2>2. CASE p \in Recoverers
    BY <1>3, <1>4, <2>2, EndCommit, ProcsAssumption DEF Leave, Active, Procs
  <2>3. QED
    BY <2>1, <2>2 DEF Procs
<1>5. ASSUME NEW r \in Refs, Verify(p, r) PROVE CommitInv'
  <2>1. TreeInv' /\ Loose' = Loose
    BY <1>1, <1>5, QuietTree DEF Verify
  <2>2. /\ undo'[p].refs = undo[p].refs \ {r}
        /\ undo'[p].present = IF disk[r] = Absent THEN undo[p].present ELSE undo[p].present \cup {r}
        /\ r \in undo[p].refs
    BY <1>1, <1>5 DEF Verify, Undos
  <2>3. Loose \subseteq Doomed(p) /\ \A x \in Doomed(p) \ touched : lock[x] = Absent
    BY <1>1, <1>5 DEF Verify, RollbackInv, RollingBack, At
  <2>4. Doomed(p)' \subseteq Doomed(p) /\ \A x \in Doomed(p) \ Doomed(p)' : disk[x] = Absent
    BY <2>2 DEF Doomed
  <2>5. /\ Loose' \subseteq Doomed(p)'
        /\ \A x \in Doomed(p)' \ touched' : lock'[x] = Absent
    BY <1>5, <2>1, <2>3, <2>4 DEF Verify, Loose
  <2>6. Goto(p, "verify")
    BY <1>1, <1>5 DEF Verify, Goto, At
  <2>7. QED
    BY <1>1, <1>5, <2>1, <2>5, <2>6, CleanupCommit DEF Verify, At
<1>6. ASSUME NEW r \in Refs, VerifyFails(p, r) PROVE CommitInv'
  BY <1>4, <1>6 DEF VerifyFails, At
<1>15. CASE Verified(p)
  <2>1. TreeInv' /\ Loose' = Loose
    BY <1>1, <1>15, QuietTree DEF Verified
  <2>2. Loose \subseteq Doomed(p) /\ \A x \in Doomed(p) \ touched : lock[x] = Absent
    BY <1>1, <1>15 DEF Verified, RollbackInv, RollingBack, At
  <2>3. QED
    BY <1>1, <1>15, <2>1, <2>2, CleanupCommit DEF Verified, Doomed, At
<1>7. ASSUME NEW r \in Refs, Tear(p, r) PROVE CommitInv'
  <2>1. /\ undo'[p].present = undo[p].present /\ undo'[p].cur = r /\ r \in undo[p].present
        /\ undo[p].present \subseteq Refs /\ undo'[p].refs = undo[p].refs /\ undo[p].refs = {}
    BY <1>1, <1>7 DEF Tear, RollbackInv, Undos, At
  <2>2. Loose \subseteq undo[p].present /\ \A x \in undo[p].present \ touched : lock[x] = Absent
    BY <1>1, <1>7, <2>1 DEF Tear, RollbackInv, RollingBack, Doomed, At
  <2>3. /\ UNCHANGED <<lock, touched, journal>>
        /\ \A x \in Refs \ {r} : disk'[x] = disk[x]
        /\ disk[r] = Absent => disk'[r] = Absent
    BY <1>7 DEF Tear, TypeOK
  <2>4. Loose' \subseteq Loose
    BY <2>3 DEF Loose
  <2>5. TreeInv'
    BY <1>1, <2>1, <2>2, <2>3, <2>4 DEF TreeInv
  <2>6. QED
    BY <1>1, <1>7, <2>1, <2>2, <2>3, <2>4, <2>5, CleanupCommit DEF Tear, Doomed, At
<1>8. ASSUME NEW r \in Refs, Removed(p, r) PROVE CommitInv'
  <2>1. /\ undo'[p].present = undo[p].present \ {r} /\ r \in undo[p].present
        /\ undo[p].present \subseteq Refs /\ undo'[p].refs = undo[p].refs /\ undo[p].refs = {}
    BY <1>1, <1>8 DEF Removed, RollbackInv, Undos
  <2>2. Loose \subseteq undo[p].present /\ \A x \in undo[p].present \ touched : lock[x] = Absent
    BY <1>1, <1>8, <2>1 DEF Removed, RollbackInv, RollingBack, Doomed, At
  <2>3. /\ UNCHANGED <<lock, touched, journal>>
        /\ \A x \in Refs : disk'[x] = IF x = r THEN Absent ELSE disk[x]
    BY <1>8 DEF Removed, TypeOK
  <2>4. Loose' = Loose \ {r}
    BY <2>3 DEF Loose
  <2>5. TreeInv'
    BY <1>1, <2>1, <2>2, <2>3, <2>4 DEF TreeInv
  <2>6. QED
    BY <1>1, <1>8, <2>1, <2>2, <2>3, <2>4, <2>5, CleanupCommit DEF Removed, Doomed, At
<1>9. CASE List(p)
  <2>1. TreeInv' /\ Loose' = Loose
    BY <1>1, <1>9, QuietTree DEF List
  <2>2. Loose = {}
    BY <1>1, <1>9 DEF List, RollbackInv, RollingBack, Doomed, At
  <2>3. QED
    BY <1>1, <1>9, <2>1, <2>2, CleanupCommit DEF List, At
<1>10. ASSUME NEW n, Unlink(p, n) PROVE CommitInv'
  <2>1. Loose = {} /\ Loose' = Loose
    BY <1>1, <1>10 DEF Unlink, RollbackInv, At, Loose
  <2>2. UNCHANGED <<disk, lock, touched>> /\ (journal' = journal \/ journal' = NoJournal)
    BY <1>10 DEF Unlink
  <2>3. TreeInv'
    BY <1>1, <2>1, <2>2 DEF TreeInv, NoJournal, Empty
  <2>4. Goto(p, "unlink")
    BY <1>1, <1>10 DEF Unlink, Goto, At
  <2>5. QED
    BY <1>1, <1>10, <2>1, <2>3, <2>4, CleanupCommit DEF Unlink, At
<1>11. CASE Rmdir(p)
  BY <1>4, <1>11 DEF Rmdir, PastProbe, At
<1>12. CASE IOError(p)
  BY <1>4, <1>12 DEF IOError
<1>13. CASE Crash(p)
  <2>1. CASE p \in Installers
    BY <1>3, <1>13, <2>1, EndCommit, ProcsAssumption DEF Crash, Alive, Procs
  <2>2. CASE p \in Recoverers
    BY <1>3, <1>13, <2>2, EndCommit, ProcsAssumption DEF Crash, Forget, Active, Procs
  <2>3. QED
    BY <2>1, <2>2 DEF Procs
<1>14. QED
  BY <1>5, <1>6, <1>7, <1>8, <1>9, <1>10, <1>11, <1>12, <1>13, <1>15 DEF Rollback, RemovePending

\* Recover: what it compares with the lock covers everything that is loose.
LEMMA RecoverCommit ==
  ASSUME TypeOK, IInv, CommitInv, Attended, NEW r \in Recoverers, Open(r) \/ Recovery(r)
  PROVE  CommitInv'
<1> USE DEF files, lease, batch, At
<1>1. r \in Procs /\ pc \in [Procs -> Labels] /\ undo \in [Procs -> Undos]
      /\ new \in [Procs -> Entries]
  BY DEF Procs, TypeOK
<1>2. Active(r) => \A q \in Recoverers \ {r} : At(q, "idle")
  BY DEF IInv, RecoverersOwnDead, Active
<1>3. CASE Open(r)
  <2>1. \A q \in Recoverers : At(q, "idle")
    BY <1>3 DEF Open, Permitted, Attended, Active
  <2>2. QED
    BY <1>3, <2>1, RecoveryCommit DEF Open
<1>4. CASE Claim(r)
  BY <1>2, <1>4, RecoveryCommit DEF Claim, Active
<1>5. CASE ClaimRefused(r)
  BY <1>1, <1>5, EndCommit DEF ClaimRefused, Active
<1>6. CASE ReadJournal(r)
  <2>1. CASE Linked(r) /\ journal # NoJournal
    <3>1. new' = [new EXCEPT ![r] = journal.new]
      BY <1>6, <2>1 DEF ReadJournal
    <3>2. QED
      BY <1>1, <1>2, <1>6, <2>1, <3>1, RecoveryCommit DEF ReadJournal, Active
  <2>2. CASE ~(Linked(r) /\ journal # NoJournal)
    BY <1>1, <1>6, <2>2, EndCommit DEF ReadJournal, Active
  <2>3. QED
    BY <2>1, <2>2
<1>7. CASE Probe(r)
  <2>1. CASE WriterAlive(r)
    BY <1>1, <1>7, <2>1, EndCommit DEF Probe, Active
  <2>2. CASE ~WriterAlive(r)
    <3>1. new[r] = journal.new
      BY <1>7, <2>2 DEF Probe, WriterAlive, IInv, RecoverersOwnDead, CommitInv, RecordInv
    <3>2. QED
      BY <1>1, <1>2, <1>7, <2>2, <3>1, RecoveryCommit DEF Probe, Active
  <2>3. QED
    BY <2>1, <2>2
<1>8. CASE ReadCommitted(r)
  <2>1. new[r] = journal.new /\ TreeInv
    BY <1>8 DEF ReadCommitted, CommitInv, RecordInv
  <2>2. /\ undo'[r].refs = Uncommitted(r) /\ undo'[r].present = {}
        /\ \A q \in Procs \ {r} : undo'[q] = undo[q]
    BY <1>1, <1>8 DEF ReadCommitted, Undos
  <2>3. Loose \subseteq Uncommitted(r)
    BY <2>1 DEF TreeInv, Loose, Uncommitted
  <2>4. \A x \in Uncommitted(r) \ touched : lock[x] = Absent
    BY <2>1 DEF TreeInv, Uncommitted
  <2>5. Loose' = Loose
    BY <1>8 DEF ReadCommitted, Loose
  <2>6. QED
    BY <1>2, <1>8, <2>2, <2>3, <2>4, <2>5, RecoveryCommit DEF ReadCommitted, Doomed, Active
<1>9. CASE Release(r)
  <2>1. \A q \in Procs \ {r} : new'[q] = new[q] /\ undo'[q] = undo[q]
    BY <1>1, <1>9 DEF Release, Forget
  <2>2. UNCHANGED walk
    BY <1>9, ProcsAssumption DEF Release, Forget
  <2>3. QED
    BY <1>1, <1>9, <2>1, <2>2, EndCommit DEF Release, Active
<1>10. QED
  BY <1>3, <1>4, <1>5, <1>6, <1>7, <1>8, <1>9 DEF Recovery

\* A person's edit is no longer spoken of.
LEMMA TouchCommit ==
  ASSUME TypeOK, CommitInv, NEW r \in Refs, NEW bytes, Touch(r, bytes)
  PROVE  CommitInv'
<1> USE DEF lease, batch, At
<1>1. /\ touched' = touched \cup {r} /\ \A x \in Refs \ {r} : disk'[x] = disk[x]
      /\ UNCHANGED <<lock, lease, pc, batch, new, undo, sweep, probe>>
  BY DEF Touch, TypeOK
<1>2. Loose' = Loose \ {r}
  BY <1>1 DEF Loose
<1>3. TreeInv'
  BY <1>1, <1>2 DEF CommitInv, TreeInv
<1>4. RollbackInv'
  BY <1>1, <1>2 DEF CommitInv, RollbackInv, RollingBack, Doomed
<1>5. BatchInv'
  <2>1. ASSUME NEW i \in Installers, StagedInv(i) PROVE StagedInv(i)'
    <3>1. \A x \in undo[i].refs : x \in Refs
      BY DEF TypeOK, Undos, Procs
    <3>2. QED
      BY <1>1, <1>2, <2>1, <3>1 DEF StagedInv
  <2>2. ASSUME NEW i \in Installers, WalkInv(i) PROVE WalkInv(i)'
    BY <1>1, <2>2 DEF WalkInv, Todo
  <2>3. QED
    BY <1>1, <2>1, <2>2 DEF CommitInv, BatchInv, Batching
<1>6. RecordInv' /\ ClosedLock'
  BY <1>1 DEF CommitInv, RecordInv, ClosedLock, Alive
<1>7. QED
  BY <1>3, <1>4, <1>5, <1>6 DEF CommitInv

LEMMA NextCommit == TypeOK /\ IInv /\ CommitInv /\ Attended /\ [Next]_vars => CommitInv'
<1> SUFFICES ASSUME TypeOK, IInv, CommitInv, Attended, [Next]_vars PROVE CommitInv'
  OBVIOUS
<1>1. ASSUME NEW i \in Installers, LeaseRefused(i) PROVE CommitInv'
  <2> USE <1>1 DEF LeaseRefused, Goto, files, lease, batch, At
  <2>1. i \in Procs /\ \A p \in Procs : pc'[p] = IF p = i THEN "exited" ELSE pc[p]
    BY DEF Procs, TypeOK
  <2>2. TreeInv' /\ Loose' = Loose /\ ClosedLock' /\ RollbackInv'
    BY <2>1, QuietTree DEF CommitInv, RollbackInv, RollingBack, Doomed, ClosedLock
  <2>3. BatchInv'
    <3>1. \A j \in Installers \ {i} : pc'[j] = pc[j] /\ outcome'[j] = outcome[j]
      BY <2>1 DEF TypeOK, Procs
    <3>2. \A j \in Installers \ {i} : (StagedInv(j)' <=> StagedInv(j)) /\ (WalkInv(j)' <=> WalkInv(j))
      BY <2>2, <3>1 DEF StagedInv, WalkInv, Todo
    <3>3. QED
      BY <2>1, <3>1, <3>2 DEF CommitInv, BatchInv, Batching
  <2>4. RecordInv'
    BY <2>1, ProcsAssumption
       DEF CommitInv, RecordInv, Alive, IInv, RecoverersOwnDead, Linked, Active, PastProbe, Procs
  <2>5. QED
    BY <2>2, <2>3, <2>4 DEF CommitInv
<1>2. CASE UNCHANGED vars
  <2> USE <1>2 DEF vars, files, lease, batch
  <2>1. TreeInv' /\ RollbackInv' /\ RecordInv' /\ ClosedLock'
    BY DEF CommitInv, TreeInv, Loose, RollbackInv, RollingBack, Doomed, RecordInv, ClosedLock, At,
           Alive
  <2>2. \A i \in Installers : (StagedInv(i)' <=> StagedInv(i)) /\ (WalkInv(i)' <=> WalkInv(i))
    BY DEF StagedInv, WalkInv, Todo, Loose, At
  <2>3. QED
    BY <2>1, <2>2 DEF CommitInv, BatchInv, Batching, At
<1>3. ASSUME NEW i \in Installers, Install(i) PROVE CommitInv'
  BY <1>3, WalkCommit, MoveCommit, LockCommit DEF Install
<1>4. QED
  BY <1>1, <1>2, <1>3, LeaseCommit, RollbackCommit, RecoverCommit, TouchCommit
     DEF Next, Operator, Terminating
-----------------------------------------------------------------------------
(* Theorems                                                                *)

\* The relations between lock, tree and journal hold at every moment of every batch,
\* rollback and recovery of an attended vendor root.
THEOREM CommitInvariant == Attended => (Spec => []CommitInv)
<1> SUFFICES ASSUME Attended PROVE Spec => []CommitInv
  OBVIOUS
<1>1. TypeOK /\ IInv /\ CommitInv /\ [Next]_vars => CommitInv'
  BY NextCommit
<1>2. QED
  BY <1>1, InitCommit, TypeCorrect, Invariant, PTL DEF Spec

\* The lock is the commit boundary: what it lists is on disk with these bytes, and
\* when no installation is pending nothing else is, however many writers were refused,
\* failed or killed before; only directories that a person changed are excepted.
THEOREM TreeIsLocked == Attended => (Spec => []TreeMatchesLock)
<1> SUFFICES ASSUME Attended PROVE Spec => []TreeMatchesLock
  OBVIOUS
<1>1. ASSUME IInv, CommitInv PROVE TreeMatchesLock
  <2>1. TreeInv
    BY <1>1 DEF CommitInv
  <2>2. ASSUME NEW r \in Refs \ touched, pending = None, disk[r] # Absent PROVE lock[r] = disk[r]
    <3>1. journal.new[r] = Absent
      BY <1>1, <2>2 DEF IInv, PendingContents, NoJournal, Empty
    <3>2. lock[r] # Absent
      BY <2>1, <2>2, <3>1 DEF TreeInv, Loose
    <3>3. QED
      BY <2>1, <2>2, <3>2 DEF TreeInv
  <2>3. QED
    BY <2>1, <2>2 DEF TreeMatchesLock, TreeInv
<1>2. QED
  BY <1>1, CommitInvariant, Invariant, PTL

\* installBatch commits whole batches: each locked package was published with these bytes
\* along with dependencies that are locked too, whatever later batches added.
THEOREM LockIsClosed == Attended => (Spec => []ClosedLock)
<1> SUFFICES ASSUME Attended PROVE Spec => []ClosedLock
  OBVIOUS
<1>1. CommitInv => ClosedLock
  BY DEF CommitInv
<1>2. QED
  BY <1>1, CommitInvariant, PTL

-----------------------------------------------------------------------------
(* The batch before the tree                                               *)

\* A package that no person touched appears in the tree by a move.
LEMMA OnlyMovesInstall ==
  ASSUME TypeOK, IInv, CommitInv, Next, NEW r \in Refs \ touched', disk[r] = Absent, disk'[r] # Absent
  PROVE  \E i \in Installers : Move(i, r)
<1> USE DEF files, lease, batch
<1>1. disk' # disk
  OBVIOUS
<1>2. ASSUME NEW i \in Installers, Install(i) PROVE Move(i, r)
  <2>1. PICK x \in Refs : InPlace(i, x) \/ Move(i, x)
    BY <1>1, <1>2 DEF Install, ReadLock, Begin, Stage, FoundInPlace, NextLevel, Merge, CommitLock,
                      CommitError, Abort
  <2>2. x = r
    BY <2>1 DEF InPlace, Move, TypeOK
  <2>3. ~InPlace(i, r)
    <3>1. SUFFICES ASSUME InPlace(i, r) PROVE FALSE
      OBVIOUS
    <3>2. Batching(i) /\ At(i, "inplace") /\ undo[i].cur = r /\ r \notin touched
      BY <3>1 DEF InPlace, Batching, At
    <3>3. StagedInv(i)
      BY <3>2 DEF CommitInv, BatchInv
    <3>4. QED
      BY <3>2, <3>3 DEF StagedInv
  <2>4. QED
    BY <2>1, <2>2, <2>3
<1>3. ASSUME NEW i \in Installers PROVE ~Lease(i) /\ ~LeaseRefused(i)
  BY <1>1 DEF Lease, LeaseRefused
<1>4. ASSUME NEW p \in Procs PROVE ~Rollback(p) /\ ~RemovePending(p) /\ ~IOError(p) /\ ~Crash(p)
  <2>1. ~\E x \in Refs : Tear(p, x) \/ Removed(p, x)
    BY DEF Tear, Removed, TypeOK
  <2>2. QED
    BY <1>1, <2>1 DEF Rollback, RemovePending, IOError, Crash, Verify, Verified, VerifyFails, List,
                      Unlink, Rmdir
<1>5. ASSUME NEW q \in Recoverers PROVE ~Open(q) /\ ~Recovery(q)
  BY <1>1 DEF Open, Recovery, Claim, ClaimRefused, ReadJournal, Probe, ReadCommitted, Release
<1>6. ~Operator
  BY DEF Operator, Touch, TypeOK
<1>7. QED
  BY <1>1, <1>2, <1>3, <1>4, <1>5, <1>6 DEF Next, Terminating, vars

LEMMA MovesAreReady ==
  ASSUME TypeOK, IInv, CommitInv, NEW i \in Installers, NEW r \in Refs, Move(i, r)
  PROVE  /\ r \in walk[i].seen
         /\ Store!ClosedUnder(walk[i].snap, walk[i].seen)
         /\ \A d \in walk[i].seen \ touched : Ready(i, d)
<1>1. At(i, "commit") /\ Batching(i)
  BY DEF Move, Batching, At
<1>2. StagedInv(i) /\ WalkInv(i)
  BY <1>1 DEF CommitInv, BatchInv
<1>3. new[i][r] # Absent /\ r \in walk[i].seen
  BY <1>2 DEF Move, ToMove, StagedInv
<1>4. Store!ClosedUnder(walk[i].snap, walk[i].seen)
  BY <1>1, <1>2 DEF WalkInv, Store!ClosedUnder
<1>5. ASSUME NEW d \in walk[i].seen \ touched PROVE Ready(i, d)
  <2>1. d \in Refs
    BY DEF TypeOK, Walks
  <2>2. CASE new[i][d] = Absent
    BY <1>2, <2>1, <2>2 DEF StagedInv, Ready
  <2>3. CASE new[i][d] # Absent /\ d \in undo[i].refs
    BY <1>1, <1>2, <2>1, <2>3 DEF StagedInv, Ready
  <2>4. CASE new[i][d] # Absent /\ d \notin undo[i].refs
    BY <1>2, <2>1, <2>4 DEF StagedInv, Ready
  <2>5. QED
    BY <2>2, <2>3, <2>4
<1>6. QED
  BY <1>3, <1>4, <1>5

\* Nothing appears in the tree before the whole dependency batch is staged or found in
\* place with its bytes, where no person changes directories while installers look at them.
THEOREM BatchesAreStaged == Attended => (Spec => StagedBeforeInstalled)
<1> SUFFICES ASSUME Attended PROVE Spec => StagedBeforeInstalled
  OBVIOUS
<1> DEFINE Staged ==
      \A i \in Installers, r \in Refs \ touched' :
        Alive(i) /\ disk[r] = Absent /\ disk'[r] # Absent =>
          /\ r \in walk[i].seen
          /\ Store!ClosedUnder(walk[i].snap, walk[i].seen)
          /\ \A d \in walk[i].seen \ touched : Ready(i, d)
<1>1. TypeOK /\ IInv /\ CommitInv /\ [Next]_vars => [Staged]_vars
  <2> SUFFICES ASSUME TypeOK, IInv, CommitInv, Next,
                      NEW i \in Installers, NEW r \in Refs \ touched', Alive(i),
                      disk[r] = Absent, disk'[r] # Absent
               PROVE  /\ r \in walk[i].seen
                      /\ Store!ClosedUnder(walk[i].snap, walk[i].seen)
                      /\ \A d \in walk[i].seen \ touched : Ready(i, d)
    OBVIOUS
  <2>1. PICK j \in Installers : Move(j, r)
    BY OnlyMovesInstall
  <2>2. Alive(j)
    BY <2>1 DEF Move, Alive, At
  <2>3. i = j
    BY <2>2, OneWriter
  <2>4. QED
    BY <2>1, <2>3, MovesAreReady
<1>2. QED
  BY <1>1, TypeCorrect, Invariant, CommitInvariant, PTL DEF Spec, StagedBeforeInstalled

-----------------------------------------------------------------------------
(* Refinement of VendorStore                                               *)

\* The lock is written by a commit that adds exactly the closure of what was asked for.
LEMMA CommitSucceeds ==
  ASSUME TypeOK, IInv, CommitInv, NEW i \in Installers, CommitLock(i)
  PROVE  Store!Succeed(i)
<1> DEFINE S == walk[i].seen
           snap == walk[i].snap
<1>1. At(i, "commit") /\ Batching(i)
  BY DEF CommitLock, Batching, At
<1>2. WalkInv(i) /\ outcome[i] = None
  BY <1>1 DEF CommitInv, BatchInv
<1>3. S \in SUBSET Refs /\ snap \in Snapshots /\ walk[i].queue \subseteq S /\ walk[i].next = {}
  BY <1>1, <1>2 DEF WalkInv, TypeOK, Walks
<1>4. \E roots \in Requests : Store!IsClosure(snap, roots, S)
  <2>1. PICK roots \in Requests :
          /\ roots \subseteq S \cup walk[i].queue
          /\ \A T \in SUBSET Refs :
               roots \subseteq T /\ Store!ClosedUnder(snap, T) =>
                 S \cup walk[i].queue \cup walk[i].next \subseteq T
    BY <1>2 DEF WalkInv
  <2>2. Store!ClosedUnder(snap, S)
    BY <1>2, <1>3 DEF WalkInv, Store!ClosedUnder
  <2>3. QED
    BY <1>3, <2>1, <2>2 DEF Store!IsClosure
<1>5. old[i] = lock /\ Compatible(i) /\ lock' = Merged(i)
  BY <1>1 DEF IInv, OldIsLock, CommitLock, At
<1>6. \A r \in Refs : Landed(i)[r] = IF r \in S THEN snap.digest[r] ELSE Absent
  BY DEF Landed
<1>7. \A r \in S : snap.digest[r] # Absent /\ lock[r] \in {Absent, snap.digest[r]}
  BY <1>2, <1>3, <1>5, <1>6 DEF WalkInv, Compatible
<1>8. lock' = [r \in Refs |-> IF r \in S THEN snap.digest[r] ELSE lock[r]]
  BY <1>5, <1>6, <1>7 DEF Merged
<1>9. outcome' = [outcome EXCEPT ![i] = "ok"]
  BY DEF CommitLock
<1>10. QED
  BY <1>2, <1>3, <1>4, <1>7, <1>8, <1>9 DEF Store!Succeed

\* Every other step leaves the lock alone and answers at most an error, once.
LEMMA StepRefines ==
  ASSUME TypeOK, IInv, CommitInv, [Next]_vars
  PROVE  [Store!Next]_<<lock, outcome>>
<1> USE DEF files, lease, batch
<1>1. CASE \E i \in Installers : CommitLock(i)
  BY <1>1, CommitSucceeds DEF Store!Next
<1>2. ASSUME NEW i \in Installers, LeaseRefused(i) \/ CommitError(i) \/ Abort(i)
      PROVE  Store!Refuse(i)
  <2>1. At(i, "idle") \/ Batching(i)
    BY <1>2 DEF LeaseRefused, CommitError, Abort, Batching, At
  <2>2. outcome[i] = None
    BY <2>1 DEF CommitInv, BatchInv
  <2>3. QED
    BY <1>2, <2>2 DEF LeaseRefused, CommitError, Abort, Store!Refuse
<1>3. ASSUME NEW i \in Installers,
             Lease(i) \/ ReadLock(i) \/ Begin(i) \/ NextLevel(i) \/ Merge(i)
             \/ \E r \in Refs : Stage(i, r) \/ FoundInPlace(i, r) \/ InPlace(i, r) \/ Move(i, r)
      PROVE  UNCHANGED <<lock, outcome>>
  BY <1>3 DEF Lease, ReadLock, Begin, NextLevel, Merge, Stage, FoundInPlace, InPlace, Move
<1>4. ASSUME NEW p \in Procs, Rollback(p) \/ RemovePending(p) \/ IOError(p) \/ Crash(p)
      PROVE  UNCHANGED <<lock, outcome>>
  BY <1>4 DEF Rollback, RemovePending, IOError, Crash, Verify, Verified, VerifyFails, Tear, Removed,
              List, Unlink, Rmdir
<1>5. ASSUME NEW r \in Recoverers, Open(r) \/ Recovery(r) PROVE UNCHANGED <<lock, outcome>>
  BY <1>5 DEF Open, Recovery, Claim, ClaimRefused, ReadJournal, Probe, ReadCommitted, Release
<1>6. CASE Operator \/ UNCHANGED vars
  BY <1>6 DEF Operator, Touch, vars
<1>7. QED
  BY <1>1, <1>2, <1>3, <1>4, <1>5, <1>6 DEF Next, Install, Terminating, Store!Next

\* Through leases, journals, rollbacks, crashes and recoveries, each request either adds
\* the whole dependency closure of what it asked for, in one step and to the lock of that
\* moment, or leaves the lock alone, and it answers once.
THEOREM VendorIsStore == Attended => (Spec => ImplementsStore)
<1> SUFFICES ASSUME Attended PROVE Spec => ImplementsStore
  OBVIOUS
<1>1. Init => Store!Init
  BY DEF Init, Store!Init, Empty
<1>2. TypeOK /\ IInv /\ CommitInv /\ [Next]_vars => [Store!Next]_<<lock, outcome>>
  BY StepRefines
<1>3. QED
  BY <1>1, <1>2, TypeCorrect, Invariant, CommitInvariant, PTL
     DEF Spec, ImplementsStore, Store!Spec, Store!storeVars
=============================================================================
