---------------------- MODULE VendorTransactionProofs ----------------------
(***************************************************************************)
(* What holds of VendorTransaction for any number of processes, packages   *)
(* and snapshots, with crashes and errors anywhere.                        *)
(***************************************************************************)
EXTENDS VendorTransaction, TLAPS

-----------------------------------------------------------------------------
(* Type correctness                                                        *)

\* The values that a process starts with, and returns to, are well typed.
LEMMA FreshType ==
  /\ Empty \in Entries
  /\ NoWalk \in Walks
  /\ NoUndo \in Undos
  /\ NoSweep \in Sweeps
  /\ NoProbe \in Probes
BY DataAssumption DEF Empty, Entries, NoWalk, Walks, Snapshot, NoUndo, Undos, NoSweep, Sweeps,
                      NoProbe, Probes, Directories

LEMMA InitType == Init => TypeOK
<1> SUFFICES ASSUME Init PROVE TypeOK
  OBVIOUS
<1>1. disk \in [Refs -> Digests \cup {Absent, Edited, Torn}]
  BY DEF Init, Empty
<1>2. pc \in [Procs -> Labels]
  BY DEF Init, Labels
<1>3. QED
  BY <1>1, <1>2, FreshType DEF Init, TypeOK, Directories, Journals

\* Forgetting what a process knew keeps every private variable well typed.
LEMMA ForgetType ==
  ASSUME TypeOK, NEW p \in Procs, Forget(p)
  PROVE  /\ walk' \in [Installers -> Walks]
         /\ old' \in [Installers -> Entries]
         /\ new' \in [Procs -> Entries]
         /\ undo' \in [Procs -> Undos]
         /\ sweep' \in [Procs -> Sweeps]
         /\ probe' \in [Recoverers -> Probes]
<1>1. /\ new' \in [Procs -> Entries]
      /\ undo' \in [Procs -> Undos]
      /\ sweep' \in [Procs -> Sweeps]
  BY FreshType DEF Forget, TypeOK
<1>2. CASE p \in Installers
  BY <1>1, <1>2, FreshType DEF Forget, TypeOK
<1>3. CASE p \notin Installers
  BY <1>1, <1>3, FreshType DEF Forget, TypeOK, Procs
<1>4. QED
  BY <1>2, <1>3

\* No step of installBatch leaves the types.
LEMMA InstallType ==
  ASSUME TypeOK, NEW i \in Installers, Lease(i) \/ LeaseRefused(i) \/ Install(i)
  PROVE  TypeOK'
<1> USE DEF TypeOK, Goto, files, lease, batch
<1>0. i \in Procs
  BY DEF Procs
<1>1. CASE Lease(i)
  <2>1. PICK snap \in Snapshots, roots \in Requests :
          walk' = [walk EXCEPT ![i] = [NoWalk EXCEPT !.snap = snap, !.queue = roots]]
    BY <1>1 DEF Lease
  <2>2. walk' \in [Installers -> Walks]
    BY <2>1, FreshType, DataAssumption DEF Walks
  <2>3. QED
    BY <1>0, <1>1, <2>2 DEF Lease, Directories, Labels
<1>2. CASE LeaseRefused(i)
  BY <1>0, <1>2 DEF LeaseRefused, Labels
<1>3. CASE ReadLock(i)
  BY <1>0, <1>3 DEF ReadLock, Labels
<1>4. ASSUME WriteJournal(i) PROVE journal' \in Journals /\ pending' \in Directories
                                   /\ recovering' \in BOOLEAN /\ staged' \in Entries
  BY <1>0, <1>4 DEF WriteJournal, Journals
<1>5. CASE Begin(i)
  BY <1>0, <1>4, <1>5 DEF Begin, Labels
<1>6. ASSUME NEW r \in Refs, Seen(i, r) PROVE walk' \in [Installers -> Walks]
  <2>1. walk[i] \in Walks /\ walk[i].snap.deps[r] \in SUBSET Refs
    BY DEF Walks, Snapshot
  <2>2. QED
    BY <1>6, <2>1 DEF Seen, Walks
<1>7. walk[i].snap.digest \in Entries
  BY DEF Walks, Snapshot
<1>8. ASSUME NEW r \in Refs, Stage(i, r) PROVE TypeOK'
  <2>1. walk[i].snap.digest[r] \in Digests \cup {Absent}
    BY <1>7 DEF Entries
  <2>2. staged' \in Entries
    BY <1>8, <2>1 DEF Stage, Entries
  <2>3. new' \in [Procs -> Entries]
    BY <1>0, <1>8, <2>1 DEF Stage, Entries
  <2>4. QED
    BY <1>6, <1>8, <2>2, <2>3 DEF Stage, Directories
<1>9. ASSUME NEW r \in Refs, FoundInPlace(i, r) PROVE TypeOK'
  BY <1>0, <1>9 DEF FoundInPlace, Labels, Undos
<1>10. ASSUME NEW r \in Refs, InPlace(i, r) PROVE TypeOK'
  <2>1. disk' \in [Refs -> Digests \cup {Absent, Edited, Torn}]
    BY <1>7, <1>10 DEF InPlace, Entries
  <2>2. undo' \in [Procs -> Undos]
    BY <1>0, <1>10 DEF InPlace, Undos
  <2>3. QED
    BY <1>0, <1>6, <1>10, <2>1, <2>2 DEF InPlace, Labels
<1>11. CASE NextLevel(i)
  <2>1. walk' \in [Installers -> Walks]
    BY <1>11, DataAssumption DEF NextLevel, Walks
  <2>2. QED
    BY <1>11, <2>1 DEF NextLevel
<1>12. CASE Merge(i)
  BY <1>0, <1>4, <1>12 DEF Merge, Labels
<1>13. ASSUME NEW r \in Refs, Move(i, r) PROVE TypeOK'
  BY <1>0, <1>13 DEF Move, Entries, Undos
<1>14. CASE CommitLock(i)
  BY <1>0, <1>7, <1>14 DEF CommitLock, Merged, Landed, Entries, Labels
<1>15. CASE CommitError(i)
  <2>1. undo[i] \in Undos
    BY <1>0
  <2>2. undo' \in [Procs -> Undos]
    BY <1>15, <2>1 DEF CommitError, Undos
  <2>3. QED
    BY <1>0, <1>15, <2>2 DEF CommitError, Labels
<1>16. CASE Abort(i)
  BY <1>0, <1>16 DEF Abort, Undos, Labels
<1>17. QED
  BY <1>1, <1>2, <1>3, <1>5, <1>8, <1>9, <1>10, <1>11, <1>12, <1>13, <1>14, <1>15, <1>16
     DEF Install
\* No step of rollback, of the cleanup or of a fault leaves the types.
LEMMA CleanupType ==
  ASSUME TypeOK, NEW p \in Procs,
         Rollback(p) \/ RemovePending(p) \/ IOError(p) \/ Crash(p)
  PROVE  TypeOK'
<1> USE DEF TypeOK, Goto, files, lease, batch
<1>1. ASSUME Leave(p)
      PROVE  /\ walk' \in [Installers -> Walks] /\ old' \in [Installers -> Entries]
             /\ new' \in [Procs -> Entries] /\ undo' \in [Procs -> Undos]
             /\ sweep' \in [Procs -> Sweeps] /\ probe' \in [Recoverers -> Probes]
             /\ pc' \in [Procs -> Labels]
  BY <1>1, ForgetType DEF Leave, Labels
<1>2. ASSUME NEW r \in Refs, Verify(p, r) PROVE TypeOK'
  <2>1. undo[p] \in Undos
    BY DEF Undos
  <2>2. undo' \in [Procs -> Undos]
    BY <1>2, <2>1 DEF Verify, Undos
  <2>3. QED
    BY <1>2, <2>2 DEF Verify
<1>3. ASSUME NEW r \in Refs, VerifyFails(p, r) PROVE TypeOK'
  BY <1>1, <1>3 DEF VerifyFails
<1>12. CASE Verified(p)
  BY <1>12 DEF Verified, Labels
<1>4. ASSUME NEW r \in Refs, Tear(p, r) PROVE TypeOK'
  BY <1>4 DEF Tear, Undos, Labels
<1>5. ASSUME NEW r \in Refs, Removed(p, r) PROVE TypeOK'
  <2>1. undo[p] \in Undos /\ undo[p].present \ {r} \in SUBSET Refs
    BY DEF Undos
  <2>2. undo' \in [Procs -> Undos]
    BY <1>5, <2>1 DEF Removed, Undos
  <2>3. QED
    BY <1>5, <2>2 DEF Removed, Labels
<1>6. CASE List(p)
  BY <1>6 DEF List, Children, Sweeps, Labels
<1>7. ASSUME NEW n, Unlink(p, n) PROVE TypeOK'
  BY <1>7, FreshType DEF Unlink, Sweeps, Journals
<1>8. CASE Rmdir(p)
  BY <1>1, <1>8 DEF Rmdir, Directories
<1>9. CASE IOError(p)
  BY <1>1, <1>9 DEF IOError
<1>10. CASE Crash(p)
  BY <1>10, ForgetType DEF Crash, Labels
<1>11. QED
  BY <1>2, <1>3, <1>4, <1>5, <1>6, <1>7, <1>8, <1>9, <1>10, <1>12 DEF Rollback, RemovePending

\* No step of Recover leaves the types.
LEMMA RecoveryType ==
  ASSUME TypeOK, NEW r \in Recoverers, Open(r) \/ Recovery(r)
  PROVE  TypeOK'
<1> USE DEF TypeOK, Goto, files, lease, batch
<1>0. r \in Procs
  BY DEF Procs
<1>1. CASE Open(r)
  BY <1>0, <1>1 DEF Open, Probes, Labels
<1>2. CASE Claim(r)
  BY <1>0, <1>2 DEF Claim, Labels
<1>3. CASE ClaimRefused(r)
  BY <1>0, <1>3, FreshType DEF ClaimRefused, Labels
<1>4. CASE ReadJournal(r)
  BY <1>0, <1>4 DEF ReadJournal, Journals, Probes, Labels
<1>5. CASE Probe(r)
  BY <1>0, <1>5 DEF Probe, Labels
<1>6. CASE ReadCommitted(r)
  <2>1. undo[r] \in Undos /\ Uncommitted(r) \in SUBSET Refs
    BY <1>0 DEF Uncommitted
  <2>2. [undo[r] EXCEPT !.refs = Uncommitted(r), !.present = {}] \in Undos
    BY <2>1 DEF Undos
  <2>4. undo' = [undo EXCEPT ![r] = [undo[r] EXCEPT !.refs = Uncommitted(r), !.present = {}]]
    BY <1>6 DEF ReadCommitted
  <2>3. QED
    BY <1>0, <1>6, <2>2, <2>4 DEF ReadCommitted, Labels
<1>7. CASE Release(r)
  BY <1>0, <1>7, ForgetType DEF Release, Labels
<1>8. QED
  BY <1>1, <1>2, <1>3, <1>4, <1>5, <1>6, <1>7 DEF Recovery

LEMMA NextType == TypeOK /\ [Next]_vars => TypeOK'
<1> SUFFICES ASSUME TypeOK, [Next]_vars PROVE TypeOK'
  OBVIOUS
<1>1. ASSUME NEW r \in Refs, NEW bytes \in {Edited, Absent}, Touch(r, bytes) PROVE TypeOK'
  BY <1>1 DEF Touch, TypeOK, lease, batch
<1>2. CASE UNCHANGED vars
  BY <1>2 DEF vars, files, lease, batch, TypeOK
<1>3. QED
  BY <1>1, <1>2, InstallType, CleanupType, RecoveryType DEF Next, Operator, Terminating

\* Every variable keeps the type it was declared with; in particular vendorGraph
\* never goes deeper than maxDepth levels.
THEOREM TypeCorrect == Spec => []TypeOK
<1>1. QED
  BY InitType, NextType, PTL DEF Spec

-----------------------------------------------------------------------------
(* The lease, the recovery and the lock                                    *)

\* What the theorems below ask of the environment: one recovery at a time, and
\* no writer that ends between a recovery's read of the journal and its probe.
Attended == {"steady_writer", "one_recovery"} \subseteq Discipline

LEMMA InitInv == Init => IInv
BY DEF Init, IInv, WritersOwnPending, PendingContents, RecoverersOwnDead, LabelsFit, OldIsLock,
       Alive, At, Active, PastProbe, Procs, Regrown, None, NoJournal

\* A live writer is the only one, it owns the pending directory, and no
\* recovery is past its probe.
LEMMA OneWriter ==
  ASSUME IInv, NEW i \in Installers, Alive(i)
  PROVE  /\ pending = i
         /\ \A j \in Installers : Alive(j) => j = i
         /\ \A r \in Recoverers : ~PastProbe(r)
BY DEF IInv, WritersOwnPending, RecoverersOwnDead

\* The steps of a live writer that keep it alive and the lock as it is.
LEMMA WriterKeeps ==
  ASSUME TypeOK, IInv, NEW i \in Installers, Alive(i), NEW l, Goto(i, l),
         l \notin {"idle", "exited", "crashed", "claim", "read", "probe", "readlock", "release"},
         pending' = pending, UNCHANGED <<lock, probe>>,
         journal' = journal \/ journal'.pid = i,
         \A j \in Installers \ {i} : old'[j] = old[j] /\ walk'[j] = walk[j],
         l \in {"begin", "walk", "inplace", "commit"} => old'[i] = lock,
         l = "commit" => Compatible(i)'
  PROVE  IInv'
<1> USE DEF TypeOK, Goto, Alive, At, Active, PastProbe, Procs
<1>1. \A p \in Procs : pc'[p] = IF p = i THEN l ELSE pc[p]
  OBVIOUS
<1>2. WritersOwnPending'
  BY OneWriter DEF WritersOwnPending
<1>3. PendingContents'
  BY OneWriter, ProcsAssumption DEF PendingContents, IInv, Procs
<1>4. RecoverersOwnDead'
  BY <1>1, OneWriter, ProcsAssumption DEF IInv, RecoverersOwnDead, Linked
<1>5. LabelsFit'
  BY <1>1, ProcsAssumption DEF IInv, LabelsFit
<1>6. OldIsLock'
  BY <1>1, OneWriter DEF IInv, OldIsLock
<1>7. QED
  BY <1>2, <1>3, <1>4, <1>5, <1>6 DEF IInv

\* Every step of a writer from its lease to its lock keeps the invariant.
LEMMA InstallInv ==
  ASSUME TypeOK, IInv, NEW i \in Installers, Lease(i) \/ LeaseRefused(i) \/ Install(i)
  PROVE  IInv'
<1> USE DEF Goto, At, files, lease, batch
<1>0. i \in Procs /\ i # None
  BY ProcsAssumption DEF Procs
<1>1. CASE Lease(i)
  <2> USE <1>0, <1>1 DEF Lease, LeaseFree, TypeOK, Procs
  <2>1. \A p \in Procs : pc'[p] = IF p = i THEN "leased" ELSE pc[p]
    OBVIOUS
  <2>2. \A j \in Installers : ~Alive(j)
    BY <1>0, ProcsAssumption DEF IInv, WritersOwnPending
  <2>3. \A r \in Recoverers : ~At(r, "probe") /\ ~PastProbe(r)
    BY ProcsAssumption DEF IInv, RecoverersOwnDead, Linked, Active, PastProbe, Procs
  <2>4. WritersOwnPending'
    BY <2>1, <2>2 DEF WritersOwnPending, Alive
  <2>5. PendingContents'
    BY ProcsAssumption DEF IInv, PendingContents
  <2>6. RecoverersOwnDead'
    <3>1. \A r \in Recoverers : pc'[r] = pc[r]
      BY <2>1, ProcsAssumption
    <3>2. /\ \A r, q \in Recoverers : Active(r)' /\ Active(q)' => r = q
          /\ \A r \in Recoverers : Active(r)' => probe'[r].handle \in Installers
      BY <3>1 DEF IInv, RecoverersOwnDead, Active
    <3>3. \A r \in Recoverers : ~At(r, "probe")' /\ ~PastProbe(r)'
      BY <2>3, <3>1 DEF PastProbe
    <3>4. QED
      BY <3>2, <3>3 DEF RecoverersOwnDead, Linked
  <2>7. LabelsFit'
    BY <2>1, ProcsAssumption DEF IInv, LabelsFit, PastProbe
  <2>8. OldIsLock'
    BY <2>1, <2>2 DEF OldIsLock, Alive
  <2>9. QED
    BY <2>4, <2>5, <2>6, <2>7, <2>8 DEF IInv
<1>2. CASE LeaseRefused(i)
  <2> USE <1>0, <1>2 DEF LeaseRefused, TypeOK, Procs
  <2>1. \A p \in Procs : pc'[p] = IF p = i THEN "exited" ELSE pc[p]
    OBVIOUS
  <2>2. WritersOwnPending' /\ PendingContents'
    BY <2>1 DEF IInv, WritersOwnPending, PendingContents, Alive
  <2>3. RecoverersOwnDead'
    BY <2>1, ProcsAssumption DEF IInv, RecoverersOwnDead, Linked, PastProbe, Active, Alive
  <2>4. LabelsFit' /\ OldIsLock'
    BY <2>1, ProcsAssumption DEF IInv, LabelsFit, OldIsLock, PastProbe, Compatible, Landed
  <2>5. QED
    BY <2>2, <2>3, <2>4 DEF IInv
<1>3. pc \in [Procs -> Labels]
  BY DEF TypeOK
<1>4. CASE ReadLock(i)
  <2>1. Alive(i)
    BY <1>4 DEF ReadLock, Alive
  <2>2. old' = [old EXCEPT ![i] = lock]
    BY <1>4 DEF ReadLock
  <2>3. QED
    BY <1>4, <2>1, <2>2, WriterKeeps DEF ReadLock, TypeOK
<1>5. CASE Begin(i)
  <2>1. Alive(i) /\ old[i] = lock
    BY <1>5 DEF Begin, Alive, IInv, OldIsLock
  <2>2. QED
    BY <1>5, <2>1, WriterKeeps DEF Begin, WriteJournal
<1>6. ASSUME NEW r \in Refs, Stage(i, r) PROVE IInv'
  <2>1. Alive(i) /\ old[i] = lock /\ pc' = [pc EXCEPT ![i] = "walk"]
    BY <1>0, <1>3, <1>6 DEF Stage, Alive, IInv, OldIsLock
  <2>2. pending' = pending
    BY <1>0, <1>6, <2>1, OneWriter DEF Stage
  <2>3. \A j \in Installers \ {i} : walk'[j] = walk[j]
    BY <1>6 DEF Stage, Seen, TypeOK
  <2>4. QED
    BY <1>6, <2>1, <2>2, <2>3, WriterKeeps DEF Stage
<1>7. ASSUME NEW r \in Refs, FoundInPlace(i, r) PROVE IInv'
  <2>1. Alive(i) /\ old[i] = lock
    BY <1>7 DEF FoundInPlace, Alive, IInv, OldIsLock
  <2>2. QED
    BY <1>7, <2>1, WriterKeeps DEF FoundInPlace
<1>8. ASSUME NEW r \in Refs, InPlace(i, r) PROVE IInv'
  <2>1. Alive(i) /\ old[i] = lock
    BY <1>8 DEF InPlace, Alive, IInv, OldIsLock
  <2>2. \A j \in Installers \ {i} : walk'[j] = walk[j]
    BY <1>8 DEF InPlace, Seen, TypeOK
  <2>3. QED
    BY <1>8, <2>1, <2>2, WriterKeeps DEF InPlace
<1>9. CASE NextLevel(i)
  <2>1. Alive(i) /\ old[i] = lock /\ pc' = [pc EXCEPT ![i] = "walk"]
    BY <1>0, <1>3, <1>9 DEF NextLevel, LevelDone, Alive, IInv, OldIsLock
  <2>2. \A j \in Installers \ {i} : walk'[j] = walk[j]
    BY <1>9 DEF NextLevel, TypeOK
  <2>3. QED
    BY <1>9, <2>1, <2>2, WriterKeeps DEF NextLevel
<1>10. CASE Merge(i)
  <2>1. Alive(i) /\ old[i] = lock
    BY <1>10 DEF Merge, WalkDone, LevelDone, Alive, IInv, OldIsLock
  <2>2. Compatible(i)'
    BY <1>10 DEF Merge, Compatible, Landed
  <2>3. QED
    BY <1>10, <2>1, <2>2, WriterKeeps DEF Merge, WriteJournal
<1>11. ASSUME NEW r \in Refs, Move(i, r) PROVE IInv'
  <2>1. /\ Alive(i) /\ old[i] = lock /\ pc' = [pc EXCEPT ![i] = "commit"]
        /\ Compatible(i)
    BY <1>0, <1>3, <1>11 DEF Move, Alive, IInv, OldIsLock
  <2>2. Compatible(i)'
    BY <1>11, <2>1 DEF Move, Compatible, Landed
  <2>3. QED
    BY <1>11, <2>1, <2>2, WriterKeeps DEF Move
<1>12. CASE CommitLock(i)
  <2> USE <1>0, <1>12 DEF CommitLock
  <2>1. Alive(i) /\ \A p \in Procs : pc'[p] = IF p = i THEN "list" ELSE pc[p]
    BY DEF Alive, TypeOK
  <2>2. WritersOwnPending' /\ PendingContents'
    BY <2>1 DEF IInv, WritersOwnPending, PendingContents, Alive, Procs
  <2>3. RecoverersOwnDead'
    BY <2>1, OneWriter, ProcsAssumption
       DEF IInv, RecoverersOwnDead, Linked, PastProbe, Active, Alive, Procs
  <2>4. LabelsFit'
    BY <2>1, ProcsAssumption DEF IInv, LabelsFit, PastProbe, Procs
  <2>5. OldIsLock'
    BY <2>1, OneWriter DEF OldIsLock, Alive, Procs
  <2>6. QED
    BY <2>2, <2>3, <2>4, <2>5 DEF IInv
<1>13. CASE CommitError(i)
  <2>1. Alive(i)
    BY <1>13 DEF CommitError, Alive
  <2>2. QED
    BY <1>13, <2>1, WriterKeeps DEF CommitError
<1>14. CASE Abort(i)
  <2>1. Alive(i)
    BY <1>14 DEF Abort, Alive
  <2>2. QED
    BY <1>14, <2>1, WriterKeeps DEF Abort
<1>15. QED
  BY <1>1, <1>2, <1>4, <1>5, <1>6, <1>7, <1>8, <1>9, <1>10, <1>11, <1>12, <1>13, <1>14
     DEF Install

\* A step inside rollback or the cleanup.
LEMMA CleanupKeeps ==
  ASSUME TypeOK, IInv, NEW p \in Procs, NEW l, Goto(p, l),
         pc[p] \in {"verify", "remove", "tear", "list", "unlink"},
         l \in {"verify", "remove", "tear", "list", "unlink"},
         pending' = pending, UNCHANGED <<lock, old, walk, probe>>,
         journal' = journal \/ journal' = NoJournal,
         pending = None => journal' = NoJournal /\ ~recovering' /\ staged' = Empty
  PROVE  IInv'
<1> USE DEF TypeOK, Goto, At, Active, PastProbe, Alive
<1>1. \A q \in Procs : pc'[q] = IF q = p THEN l ELSE pc[q]
  OBVIOUS
<1>2. \A q \in Procs : (Alive(q)' <=> Alive(q)) /\ (PastProbe(q)' <=> PastProbe(q))
                       /\ (Active(q)' <=> Active(q)) /\ (At(q, "probe")' <=> At(q, "probe"))
  BY <1>1
<1>3. WritersOwnPending'
  BY <1>2 DEF IInv, WritersOwnPending, Procs
<1>4. PendingContents'
  BY DEF IInv, PendingContents
<1>5. pending \in Installers => (Alive(pending)' <=> Alive(pending))
  BY <1>2 DEF Procs
<1>6. RecoverersOwnDead'
  BY <1>2, <1>5 DEF IInv, RecoverersOwnDead, Linked, Procs
<1>7. LabelsFit'
  BY <1>1 DEF IInv, LabelsFit, Procs
<1>8. OldIsLock'
  BY <1>1 DEF IInv, OldIsLock, Compatible, Landed, Procs
<1>9. QED
  BY <1>3, <1>4, <1>6, <1>7, <1>8 DEF IInv

\* A step with which a process ends, or a recovery gives up or lets go.
LEMMA EndKeeps ==
  ASSUME TypeOK, IInv, Attended, NEW p \in Procs, NEW l, Goto(p, l),
         \/ p \in Installers /\ Alive(p) /\ Steady(p) /\ l \in {"exited", "crashed"}
         \/ p \in Recoverers /\ Active(p) /\ l \in {"release", "idle"},
         \/ pending' = pending
         \/ pending' = None /\ (p \in Recoverers => PastProbe(p)),
         journal' = journal \/ journal' = NoJournal,
         pending' = None => journal' = NoJournal /\ ~recovering' /\ staged' = Empty,
         lock' = lock,
         \A j \in Installers \ {p} : old'[j] = old[j] /\ walk'[j] = walk[j],
         \A r \in Recoverers : probe'[r] = probe[r] \/ (r = p /\ l = "idle")
  PROVE  IInv'
<1> USE DEF TypeOK, Goto, At, Active, PastProbe, Alive
<1>1. \A q \in Procs : pc'[q] = IF q = p THEN l ELSE pc[q]
  OBVIOUS
<1>2. \A j \in Installers : Alive(j)' => Alive(j) /\ j # p
  BY <1>1, ProcsAssumption DEF Procs
<1>3. WritersOwnPending'
  BY <1>2, OneWriter, ProcsAssumption DEF WritersOwnPending, IInv, Procs
<1>4. PendingContents'
  BY ProcsAssumption DEF IInv, PendingContents, Procs, None, Regrown
<1>5. \A r \in Recoverers : ~At(r, "probe")' /\ ~PastProbe(r)'
  <2>1. CASE p \in Installers
    <3>1. \A r \in Recoverers : ~At(r, "probe") /\ ~PastProbe(r)
      BY <2>1, OneWriter, ProcsAssumption DEF IInv, RecoverersOwnDead, Steady, Attended
    <3>2. QED
      BY <1>1, <2>1, <3>1, ProcsAssumption DEF Procs
  <2>2. CASE p \in Recoverers
    <3>1. \A r \in Recoverers \ {p} : At(r, "idle")
      BY <2>2, ProcsAssumption DEF IInv, RecoverersOwnDead
    <3>2. QED
      BY <1>1, <2>2, <3>1, ProcsAssumption DEF Procs
  <2>3. QED
    BY <2>1, <2>2 DEF Procs
<1>6. \A r \in Recoverers : Active(r)' => Active(r) /\ probe'[r] = probe[r]
  BY <1>1, ProcsAssumption DEF Procs
<1>7. RecoverersOwnDead'
  BY <1>5, <1>6 DEF IInv, RecoverersOwnDead
<1>8. LabelsFit'
  BY <1>1, ProcsAssumption DEF IInv, LabelsFit, Procs
<1>9. OldIsLock'
  BY <1>1, <1>2 DEF IInv, OldIsLock, Compatible, Landed, Procs
<1>10. QED
  BY <1>3, <1>4, <1>7, <1>8, <1>9 DEF IInv

\* Rollback, the removal of the pending directory and every fault keep it.
LEMMA CleanupInv ==
  ASSUME TypeOK, IInv, Attended, NEW p \in Procs,
         Rollback(p) \/ RemovePending(p) \/ IOError(p) \/ Crash(p)
  PROVE  IInv'
<1> USE DEF At, files, lease, batch
<1>1. PendingContents
  BY DEF IInv
<1>2. p \in Recoverers => pc[p] # "exited" /\ pc[p] # "crashed"
  BY DEF IInv, LabelsFit, PastProbe
<1>3. ASSUME NEW l, Forget(p)
      PROVE  /\ \A j \in Installers \ {p} : old'[j] = old[j] /\ walk'[j] = walk[j]
             /\ p \in Installers => UNCHANGED probe
             /\ \A r \in Recoverers \ {p} : probe'[r] = probe[r]
  BY <1>3, ProcsAssumption DEF Forget, TypeOK
<1>4. ASSUME Leave(p), pc[p] \notin {"idle", "exited", "crashed"},
             UNCHANGED <<files, journal, recovering, staged>>,
             \/ pending' = pending
             \/ pending' = None /\ Children = {} /\ (p \in Recoverers => PastProbe(p))
      PROVE  IInv'
  <2>1. Children = {} => journal = NoJournal /\ ~recovering /\ staged = Empty
    BY DEF Children
  <2>2. pending' = None => journal' = NoJournal /\ ~recovering' /\ staged' = Empty
    BY <1>1, <1>4, <2>1 DEF PendingContents
  <2>3. CASE p \in Installers
    BY <1>3, <1>4, <2>2, <2>3, EndKeeps DEF Leave, Alive
  <2>4. CASE p \in Recoverers
    BY <1>4, <2>2, <2>4, EndKeeps, ProcsAssumption DEF Leave, Active
  <2>5. QED
    BY <2>3, <2>4 DEF Procs
<1>5. ASSUME NEW r \in Refs, Verify(p, r) PROVE IInv'
  <2>1. Goto(p, "verify") /\ pc[p] = "verify"
    BY <1>5 DEF Verify, Goto, TypeOK
  <2>2. QED
    BY <1>1, <1>5, <2>1, CleanupKeeps DEF Verify, PendingContents
<1>6. ASSUME NEW r \in Refs, VerifyFails(p, r) PROVE IInv'
  BY <1>4, <1>6 DEF VerifyFails
<1>15. CASE Verified(p)
  BY <1>1, <1>15, CleanupKeeps DEF Verified, PendingContents
<1>7. ASSUME NEW r \in Refs, Tear(p, r) PROVE IInv'
  BY <1>1, <1>7, CleanupKeeps DEF Tear, PendingContents
<1>8. ASSUME NEW r \in Refs, Removed(p, r) PROVE IInv'
  BY <1>1, <1>8, CleanupKeeps DEF Removed, PendingContents
<1>9. CASE List(p)
  BY <1>1, <1>9, CleanupKeeps DEF List, PendingContents
<1>10. ASSUME NEW n, Unlink(p, n) PROVE IInv'
  <2>1. pc' = [pc EXCEPT ![p] = "unlink"] /\ pc[p] = "unlink"
    BY <1>10 DEF Unlink, TypeOK
  <2>2. /\ journal' = journal \/ journal' = NoJournal
        /\ pending = None => journal' = NoJournal /\ ~recovering' /\ staged' = Empty
    BY <1>1, <1>10 DEF Unlink, PendingContents
  <2>3. QED
    BY <1>10, <2>1, <2>2, CleanupKeeps DEF Unlink, Goto
<1>11. CASE Rmdir(p)
  BY <1>4, <1>11 DEF Rmdir, PastProbe
<1>12. CASE IOError(p)
  BY <1>4, <1>12 DEF IOError
<1>13. CASE Crash(p)
  <2>1. CASE p \in Installers
    BY <1>1, <1>3, <1>13, <2>1, EndKeeps DEF Crash, Alive, PendingContents
  <2>2. CASE p \in Recoverers
    BY <1>1, <1>3, <1>13, <2>2, EndKeeps, ProcsAssumption DEF Crash, Active, PendingContents
  <2>3. QED
    BY <2>1, <2>2 DEF Procs
<1>14. QED
  BY <1>5, <1>6, <1>7, <1>8, <1>9, <1>10, <1>11, <1>12, <1>13, <1>15 DEF Rollback, RemovePending

\* A recovery that goes on, with nothing but its own memory and its mark changed.
LEMMA RecoveryKeeps ==
  ASSUME TypeOK, IInv, NEW r \in Recoverers, NEW l, Goto(r, l),
         l \in {"claim", "read", "probe", "readlock", "verify"},
         UNCHANGED <<pending, journal, staged, lock, old, walk>>,
         \A q \in Recoverers \ {r} : At(q, "idle") /\ probe'[q] = probe[q],
         probe'[r].handle \in Installers,
         pending = None => recovering' = recovering,
         l \notin {"claim", "read"} => pending = probe'[r].handle,
         l = "probe" => probe'[r].pid = pending,
         l \in {"readlock", "verify"} => ~Alive(pending)
  PROVE  IInv'
<1> USE DEF TypeOK, Goto, At, Active, PastProbe, Alive
<1>1. \A q \in Procs : pc'[q] = IF q = r THEN l ELSE pc[q]
  BY DEF Procs
<1>2. \A i \in Installers : pc'[i] = pc[i]
  BY <1>1, ProcsAssumption DEF Procs
<1>3. WritersOwnPending' /\ PendingContents'
  BY <1>2 DEF IInv, WritersOwnPending, PendingContents
<1>4. RecoverersOwnDead'
  BY <1>1, <1>2 DEF RecoverersOwnDead, Linked, Procs
<1>5. LabelsFit'
  BY <1>1, <1>2 DEF IInv, LabelsFit, Procs
<1>6. OldIsLock'
  BY <1>2 DEF IInv, OldIsLock, Compatible, Landed
<1>7. QED
  BY <1>3, <1>4, <1>5, <1>6 DEF IInv

\* Every step of Recover keeps it.
LEMMA RecoveryInv ==
  ASSUME TypeOK, IInv, Attended, NEW r \in Recoverers, Open(r) \/ Recovery(r)
  PROVE  IInv'
<1> USE DEF At, files, lease, batch, Active
<1>0. r \in Procs /\ r \notin Installers
  BY ProcsAssumption DEF Procs
<1>1. PendingContents
  BY DEF IInv
<1>2. Active(r) => /\ \A q \in Recoverers \ {r} : At(q, "idle")
                   /\ probe[r].handle \in Installers
  BY DEF IInv, RecoverersOwnDead
<1>3. CASE Open(r)
  <2>1. \A q \in Recoverers : At(q, "idle")
    BY <1>3 DEF Open, Permitted, Attended
  <2>2. pending \in Installers
    BY <1>1, <1>3 DEF Open, PendingContents, TypeOK, Directories
  <2>3. /\ probe'[r].handle = pending
        /\ \A q \in Recoverers \ {r} : probe'[q] = probe[q]
    BY <1>3 DEF Open, TypeOK, Probes
  <2>4. QED
    BY <1>3, <2>1, <2>2, <2>3, RecoveryKeeps DEF Open
<1>4. CASE Claim(r)
  <2>1. pending # None
    BY <1>2, <1>4, ProcsAssumption DEF Claim, Linked, Procs
  <2>2. QED
    BY <1>2, <1>4, <2>1, RecoveryKeeps DEF Claim
<1>5. CASE ClaimRefused(r)
  <2>1. \A q \in Recoverers : probe'[q] = probe[q] \/ q = r
    BY <1>5 DEF ClaimRefused, TypeOK
  <2>2. QED
    BY <1>0, <1>1, <1>5, <2>1, EndKeeps DEF ClaimRefused, PendingContents
<1>6. CASE ReadJournal(r)
  <2>1. CASE Linked(r) /\ journal # NoJournal
    <3>1. /\ probe'[r].handle = probe[r].handle /\ probe'[r].pid = pending
          /\ \A q \in Recoverers \ {r} : probe'[q] = probe[q]
      BY <1>1, <1>6, <2>1 DEF ReadJournal, PendingContents, TypeOK, Probes
    <3>2. QED
      BY <1>2, <1>6, <2>1, <3>1, RecoveryKeeps DEF ReadJournal, Linked
  <2>2. CASE ~(Linked(r) /\ journal # NoJournal)
    BY <1>0, <1>1, <1>6, <2>2, EndKeeps DEF ReadJournal, PendingContents
  <2>3. QED
    BY <2>1, <2>2
<1>7. CASE Probe(r)
  <2>1. pending = probe[r].handle /\ pending = probe[r].pid
    BY <1>7 DEF Probe, IInv, RecoverersOwnDead, Linked
  <2>2. CASE WriterAlive(r)
    BY <1>0, <1>1, <1>7, <2>2, EndKeeps DEF Probe, PendingContents
  <2>3. CASE ~WriterAlive(r)
    BY <1>2, <1>7, <2>1, <2>3, RecoveryKeeps DEF Probe, WriterAlive
  <2>4. QED
    BY <2>2, <2>3
<1>8. CASE ReadCommitted(r)
  <2>1. pending = probe[r].handle /\ ~Alive(pending)
    BY <1>8 DEF ReadCommitted, IInv, RecoverersOwnDead, Linked, PastProbe
  <2>2. QED
    BY <1>2, <1>8, <2>1, RecoveryKeeps DEF ReadCommitted
<1>9. CASE Release(r)
  <2>1. \A q \in Recoverers : probe'[q] = probe[q] \/ q = r
    BY <1>0, <1>9 DEF Release, Forget, TypeOK
  <2>2. UNCHANGED <<walk, old>>
    BY <1>0, <1>9 DEF Release, Forget
  <2>3. QED
    BY <1>0, <1>1, <1>9, <2>1, <2>2, EndKeeps DEF Release, PendingContents
<1>10. QED
  BY <1>3, <1>4, <1>5, <1>6, <1>7, <1>8, <1>9 DEF Recovery

LEMMA NextInv == TypeOK /\ IInv /\ Attended /\ [Next]_vars => IInv'
<1> SUFFICES ASSUME TypeOK, IInv, Attended, [Next]_vars PROVE IInv'
  OBVIOUS
<1>1. CASE UNCHANGED <<lock, pending, journal, recovering, staged, pc, old, walk, probe>>
  BY <1>1 DEF IInv, WritersOwnPending, PendingContents, RecoverersOwnDead, LabelsFit, OldIsLock,
              Alive, At, Active, PastProbe, Linked, Compatible, Landed
<1>2. ASSUME NEW r \in Refs, NEW bytes, Touch(r, bytes) PROVE IInv'
  BY <1>1, <1>2 DEF Touch, lease, batch
<1>3. CASE UNCHANGED vars
  BY <1>1, <1>3 DEF vars, files, lease, batch
<1>4. QED
  BY <1>2, <1>3, InstallInv, CleanupInv, RecoveryInv DEF Next, Operator, Terminating

\* The inductive invariant holds in every attended vendor root.
THEOREM Invariant == Attended => (Spec => []IInv)
<1> SUFFICES ASSUME Attended PROVE Spec => []IInv
  OBVIOUS
<1>1. TypeOK /\ IInv /\ [Next]_vars => IInv'
  BY NextInv
<1>2. QED
  BY <1>1, InitInv, TypeCorrect, PTL DEF Spec

\* "One directory lease owns an entire dependency batch": two processes are
\* never between their Mkdir and the end of their cleanup at the same time.
THEOREM LeaseIsExclusive == Attended => (Spec => []LeaseExclusive)
<1> SUFFICES ASSUME Attended PROVE Spec => []LeaseExclusive
  OBVIOUS
<1>1. IInv => LeaseExclusive
  BY DEF IInv, WritersOwnPending, LeaseExclusive
<1>2. QED
  BY <1>1, Invariant, PTL

\* "Recover refuses a live writer": once a recovery has passed its probe no
\* writer is alive until that recovery has let go of the directory.
THEOREM RecoveryIsAlone == Attended => (Spec => []RecoveryExcludesWriters)
<1> SUFFICES ASSUME Attended PROVE Spec => []RecoveryExcludesWriters
  OBVIOUS
<1>1. IInv => RecoveryExcludesWriters
  BY DEF IInv, WritersOwnPending, RecoverersOwnDead, RecoveryExcludesWriters, Active, At, PastProbe
<1>2. QED
  BY <1>1, Invariant, PTL

\* The only step that writes the lock is a commit.
LEMMA OnlyCommitWritesLock ==
  ASSUME [Next]_vars, lock' # lock
  PROVE  \E i \in Installers : CommitLock(i)
<1> USE DEF files, lease, batch
<1>1. ~UNCHANGED vars
  BY DEF vars
<1>2. ASSUME NEW i \in Installers, Lease(i) \/ LeaseRefused(i) \/ Install(i) PROVE CommitLock(i)
  BY <1>2 DEF Install, Lease, LeaseRefused, ReadLock, Begin, Stage, FoundInPlace, InPlace, NextLevel,
              Merge, Move, CommitError, Abort
<1>3. ASSUME NEW p \in Procs, Rollback(p) \/ RemovePending(p) \/ IOError(p) \/ Crash(p) PROVE FALSE
  BY <1>3 DEF Rollback, RemovePending, IOError, Crash, Verify, Verified, VerifyFails, Tear,
              Removed, List, Unlink, Rmdir
<1>4. ASSUME NEW r \in Recoverers, Open(r) \/ Recovery(r) PROVE FALSE
  BY <1>4 DEF Open, Recovery, Claim, ClaimRefused, ReadJournal, Probe, ReadCommitted, Release
<1>5. ASSUME Operator PROVE FALSE
  BY <1>5 DEF Operator, Touch
<1>6. QED
  BY <1>1, <1>2, <1>3, <1>4, <1>5 DEF Next, Terminating

\* No lost update: no writer, recovery, crash or error ever takes an entry out
\* of the lock or changes its digest.
THEOREM LockOnlyGrows == Attended => (Spec => LockMonotone)
<1> SUFFICES ASSUME Attended PROVE Spec => LockMonotone
  OBVIOUS
<1>1. ASSUME TypeOK, IInv, [Next]_vars
      PROVE  [\A r \in Refs : lock[r] # Absent => lock'[r] = lock[r]]_vars
  <2>1. CASE lock' = lock
    BY <2>1
  <2>2. CASE lock' # lock
    <3>1. PICK i \in Installers : CommitLock(i)
      BY <1>1, <2>2, OnlyCommitWritesLock
    <3>2. old[i] = lock /\ Compatible(i)
      BY <1>1, <3>1 DEF CommitLock, At, IInv, OldIsLock
    <3>3. lock' = Merged(i)
      BY <3>1 DEF CommitLock
    <3>4. ASSUME NEW r \in Refs, lock[r] # Absent PROVE lock'[r] = lock[r]
      BY <3>2, <3>3, <3>4 DEF Merged, Compatible
    <3>5. QED
      BY <3>4
  <2>3. QED
    BY <2>1, <2>2
<1>2. QED
  BY <1>1, Invariant, TypeCorrect, PTL DEF Spec, LockMonotone

-----------------------------------------------------------------------------
(* Edited packages                                                         *)

\* What a rollback has hashed, and is going to remove, holds no edited bytes.
RemovalsSafe ==
  \A p \in Procs :
    /\ RollingBack(p) => \A r \in undo[p].present : disk[r] # Edited
    /\ At(p, "tear") => undo[p].cur \in undo[p].present

Paused == "edits_pause" \in Discipline

\* A step that is not a person's never makes bytes edited.  If it touches no
\* rollback, what rollbacks are about to remove stays safe.
LEMMA OthersSafe ==
  ASSUME TypeOK, RemovalsSafe, NEW p \in Procs,
         \A r \in Refs : disk'[r] = Edited => disk[r] = Edited,
         \A q \in Procs \ {p} : pc'[q] = pc[q] /\ undo'[q] = undo[q],
         RollingBack(p)' => \A r \in undo'[p].present : disk'[r] # Edited,
         At(p, "tear")' => undo'[p].cur \in undo'[p].present
  PROVE  RemovalsSafe'
BY DEF RemovalsSafe, RollingBack, At, TypeOK, Undos

\* What every installer step does to the tree: it makes nothing edited, takes
\* nothing edited away, and its process is not in a rollback.
LEMMA InstallSafe ==
  ASSUME TypeOK, RemovalsSafe, NEW i \in Installers, Lease(i) \/ LeaseRefused(i) \/ Install(i)
  PROVE  RemovalsSafe' /\ \A r \in Refs : disk[r] = Edited <=> disk'[r] = Edited
<1> USE DEF Goto, At, files, lease, batch
<1>1. \A r \in Refs : walk[i].snap.digest[r] # Edited /\ staged[r] # Edited
  <2>1. walk[i].snap.digest \in Entries /\ staged \in Entries
    BY DEF TypeOK, Walks, Snapshot
  <2>2. Edited \notin Digests \cup {Absent}
    BY DataAssumption DEF Absent, Edited
  <2>3. QED
    BY <2>1, <2>2 DEF Entries
<1>2. \A r \in Refs : disk[r] = Edited <=> disk'[r] = Edited
  <2>1. ASSUME NEW r \in Refs, InPlace(i, r) \/ Move(i, r)
        PROVE  \A x \in Refs : disk[x] = Edited <=> disk'[x] = Edited
    <3>1. disk[r] # Edited
      BY <1>1, <2>1 DEF InPlace, Move, Absent, Edited
    <3>2. \E bytes : bytes # Edited /\ disk' = [disk EXCEPT ![r] = bytes]
      BY <1>1, <2>1 DEF InPlace, Move
    <3>3. QED
      BY <3>1, <3>2 DEF TypeOK
  <2>2. CASE disk' = disk
    BY <2>2
  <2>3. QED
    BY <2>1, <2>2 DEF Install, Lease, LeaseRefused, ReadLock, Begin, Stage, FoundInPlace, NextLevel,
                      Merge, CommitLock, CommitError, Abort
<1>3. pc'[i] \notin {"verify", "remove", "tear"} \/ (pc'[i] = "verify" /\ undo'[i].present = {})
  <2>1. CASE CommitError(i)
    BY <2>1 DEF CommitError, TypeOK, Procs, Undos
  <2>2. CASE ~CommitError(i)
    BY <2>2 DEF Install, Lease, LeaseRefused, ReadLock, Begin, Stage, FoundInPlace, InPlace, NextLevel,
                LevelDone, WalkDone, Merge, Move, CommitLock, Abort, TypeOK, Procs
  <2>3. QED
    BY <2>1, <2>2
<1>4. \A q \in Procs \ {i} : pc'[q] = pc[q] /\ undo'[q] = undo[q]
  BY DEF Install, Lease, LeaseRefused, ReadLock, Begin, Stage, FoundInPlace, InPlace, NextLevel,
         Merge, Move, CommitLock, CommitError, Abort, TypeOK
<1>5. RemovalsSafe'
  BY <1>2, <1>3, <1>4, OthersSafe DEF RollingBack, Procs
<1>6. QED
  BY <1>2, <1>5

\* Rollbacks remove only what they have verified, or what they were tearing.
LEMMA CleanupSafe ==
  ASSUME TypeOK, RemovalsSafe, NEW p \in Procs,
         Rollback(p) \/ RemovePending(p) \/ IOError(p) \/ Crash(p)
  PROVE  RemovalsSafe' /\ \A r \in Refs : disk[r] = Edited <=> disk'[r] = Edited
<1> USE DEF Goto, At, files, lease, batch, TypeOK
<1>1. ASSUME Leave(p), disk' = disk PROVE RemovalsSafe'
  <2>1. pc'[p] \notin {"verify", "remove", "tear"}
    BY <1>1 DEF Leave
  <2>2. \A q \in Procs \ {p} : pc'[q] = pc[q] /\ undo'[q] = undo[q]
    BY <1>1 DEF Leave, Forget
  <2>3. QED
    BY <1>1, <2>1, <2>2, OthersSafe DEF RollingBack
<1>2. ASSUME NEW r \in Refs, Verify(p, r) PROVE RemovalsSafe' /\ disk' = disk
  <2>1. disk[r] # Edited /\ \A x \in undo[p].present : disk[x] # Edited
    BY <1>2, DataAssumption DEF Verify, Unchanged, Entries, RemovalsSafe, RollingBack, Absent, Edited
  <2>2. /\ undo'[p].present \subseteq undo[p].present \cup {r} /\ pc' = pc /\ pc[p] = "verify"
        /\ \A q \in Procs \ {p} : undo'[q] = undo[q]
    BY <1>2 DEF Verify, Undos
  <2>3. QED
    BY <1>2, <2>1, <2>2, OthersSafe DEF Verify
<1>3. ASSUME NEW r \in Refs, VerifyFails(p, r) PROVE RemovalsSafe' /\ disk' = disk
  BY <1>1, <1>3 DEF VerifyFails
<1>12. CASE Verified(p)
  BY <1>12, OthersSafe DEF Verified, RemovalsSafe, RollingBack
<1>4. ASSUME NEW r \in Refs, Tear(p, r)
      PROVE  RemovalsSafe' /\ \A x \in Refs : disk[x] = Edited <=> disk'[x] = Edited
  <2>1. /\ r \in undo[p].present /\ pc[p] = "remove" /\ pc'[p] = "tear"
        /\ disk[r] # Edited /\ \A x \in undo[p].present : disk[x] # Edited
    BY <1>4 DEF Tear, RemovalsSafe, RollingBack
  <2>2. \A x \in Refs : disk[x] = Edited <=> disk'[x] = Edited
    BY <1>4, <2>1 DEF Tear, Edited, Absent, Torn
  <2>3. /\ undo'[p].present = undo[p].present /\ undo'[p].cur = r
        /\ \A q \in Procs \ {p} : pc'[q] = pc[q] /\ undo'[q] = undo[q]
    BY <1>4 DEF Tear, Undos
  <2>4. undo[p].present \subseteq Refs
    BY DEF Undos
  <2>5. QED
    BY <2>1, <2>2, <2>3, <2>4, OthersSafe
<1>5. ASSUME NEW r \in Refs, Removed(p, r)
      PROVE  RemovalsSafe' /\ \A x \in Refs : disk[x] = Edited <=> disk'[x] = Edited
  <2>1. disk[r] # Edited /\ \A x \in undo[p].present : disk[x] # Edited
    BY <1>5 DEF Removed, RemovalsSafe, RollingBack
  <2>2. \A x \in Refs : disk[x] = Edited <=> disk'[x] = Edited
    BY <1>5, <2>1 DEF Removed, Edited, Absent
  <2>3. /\ undo'[p].present \subseteq undo[p].present /\ pc'[p] = "remove"
        /\ \A q \in Procs \ {p} : pc'[q] = pc[q] /\ undo'[q] = undo[q]
    BY <1>5 DEF Removed, Undos
  <2>4. undo[p].present \subseteq Refs
    BY DEF Undos
  <2>5. QED
    BY <2>1, <2>2, <2>3, <2>4, OthersSafe
<1>6. CASE List(p)
  BY <1>6, OthersSafe DEF List, RollingBack
<1>7. ASSUME NEW n, Unlink(p, n) PROVE RemovalsSafe' /\ disk' = disk
  BY <1>7 DEF Unlink, RemovalsSafe, RollingBack
<1>8. CASE Rmdir(p)
  BY <1>1, <1>8 DEF Rmdir
<1>9. CASE IOError(p)
  BY <1>1, <1>9 DEF IOError
<1>10. CASE Crash(p)
  BY <1>10, OthersSafe DEF Crash, Forget, RollingBack
<1>11. QED
  BY <1>2, <1>3, <1>4, <1>5, <1>6, <1>7, <1>8, <1>9, <1>10, <1>12
     DEF Rollback, RemovePending, Verified, List, Rmdir, IOError, Crash

LEMMA RecoverySafe ==
  ASSUME TypeOK, RemovalsSafe, NEW r \in Recoverers, Open(r) \/ Recovery(r)
  PROVE  RemovalsSafe' /\ disk' = disk
<1> USE DEF Goto, At, files, lease, batch, TypeOK
<1>1. disk' = disk /\ r \in Procs
  BY DEF Open, Recovery, Claim, ClaimRefused, ReadJournal, Probe, ReadCommitted, Release, Procs
<1>2. \A q \in Procs \ {r} : pc'[q] = pc[q] /\ undo'[q] = undo[q]
  BY DEF Open, Recovery, Claim, ClaimRefused, ReadJournal, Probe, ReadCommitted, Release, Forget
<1>3. pc'[r] \notin {"verify", "remove", "tear"} \/ (pc'[r] = "verify" /\ undo'[r].present = {})
  BY <1>1 DEF Open, Recovery, Claim, ClaimRefused, ReadJournal, Probe, ReadCommitted, Release, Undos
<1>4. QED
  BY <1>1, <1>2, <1>3, OthersSafe DEF RollingBack

\* "Changed package bytes are preserved": no installer and no recovery ever
\* takes away what a person has edited, as long as nobody edits a package that a rollback
\* has already hashed.  Edits of the packages it has not come to, and of those it did not
\* find when it looked, are kept at any moment.
THEOREM EditsArePreserved == Paused => (Spec => EditsPreserved)
<1> SUFFICES ASSUME Paused PROVE Spec => EditsPreserved
  OBVIOUS
<1> DEFINE Kept == \A r \in Refs : disk[r] = Edited /\ disk'[r] # Edited =>
       touched' = touched \cup {r} /\ UNCHANGED <<lease, pc, batch, new, undo, sweep, probe>>
<1>1. Init => RemovalsSafe
  BY DEF Init, RemovalsSafe, RollingBack, At
<1>2. ASSUME TypeOK, RemovalsSafe, [Next]_vars PROVE RemovalsSafe' /\ [Kept]_vars
  <2>1. ASSUME NEW r \in Refs, NEW bytes, Touch(r, bytes) PROVE RemovalsSafe' /\ Kept
    <3>1. \A p \in Procs : RollingBack(p) => r \notin undo[p].present
      BY <2>1 DEF Touch, EditPermitted, Paused
    <3>2. RemovalsSafe'
      BY <1>2, <2>1, <3>1 DEF Touch, RemovalsSafe, RollingBack, At, TypeOK
    <3>3. Kept
      BY <2>1 DEF Touch, TypeOK
    <3>4. QED
      BY <3>2, <3>3
  <2>2. CASE UNCHANGED vars
    BY <1>2, <2>2 DEF vars, files, RemovalsSafe, RollingBack, At
  <2>3. QED
    BY <1>2, <2>1, <2>2, InstallSafe, CleanupSafe, RecoverySafe DEF Next, Operator, Terminating
<1>3. QED
  BY <1>1, <1>2, TypeCorrect, PTL DEF Spec, EditsPreserved
=============================================================================
