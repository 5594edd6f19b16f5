------------------------- MODULE VendorTransaction -------------------------
(***************************************************************************)
(* One vendor root (vendor/swarmidx) shared by "gsp vendor" processes      *)
(* (Installers: installBatch), "gsp vendor --recover" processes            *)
(* (Recoverers: Recover) and the person who edits the tree.  An installer  *)
(* is one operating-system process: it runs once, and its name is its      *)
(* process id.  A recoverer stands for one terminal in which the operator  *)
(* may run the recovery again and again.                                   *)
(*                                                                         *)
(* Every filesystem call that another process can observe is a step of its *)
(* own; a run of calls that only reads, or only touches files no other     *)
(* process looks at, is one step.  A package is its digest.                *)
(***************************************************************************)
EXTENDS Naturals, FiniteSets

CONSTANTS
  Installers,    \* processes that run installBatch
  Recoverers,    \* processes that run Recover
  Refs,          \* package references; refPath maps them to directories one to one
  Digests,       \* package contents
  Snapshots,     \* verified answers of the log: digest and deps of each reference
  Requests,      \* sets of references a user asks for
  OperatorRefs,  \* references whose directories a person may edit or delete
  MaxDepth,      \* maxDepth of vendorGraph
  Crashes,       \* <<process, label>>: where a process may be killed
  IOErrors,      \* <<process, label>>: where reading or removing files may fail
  Discipline     \* what the environment is careful about: Permitted, Steady, EditPermitted

Absent == "absent"        \* no directory at the path, or no entry
Edited == "edited"        \* bytes that hash to no digest of the log
Torn == "torn"            \* a removal stopped half way
None == "none"            \* no directory, no process
Regrown == "regrown"      \* a pending directory made by MkdirAll, not by a lease

Procs == Installers \cup Recoverers
Entries == [Refs -> Digests \cup {Absent}]      \* lock files, journals, stages
Empty == [r \in Refs |-> Absent]
Snapshot == [digest : Entries, deps : [Refs -> SUBSET Refs]]
Labels == {"idle", "leased", "begin", "walk", "inplace", "commit", "claim", "read",
           "probe", "readlock", "verify", "remove", "tear", "list", "unlink", "release",
           "exited", "crashed"}
Disciplines == {"writer_exited", "steady_writer", "one_recovery", "edits_pause"}

ASSUME ProcsAssumption ==
  /\ Installers \cap Recoverers = {}
  /\ {None, Regrown} \cap Procs = {}
ASSUME DataAssumption ==
  /\ Digests \cap {Absent, Edited, Torn} = {}
  /\ Snapshots \subseteq Snapshot
  /\ Requests \subseteq SUBSET Refs
  /\ OperatorRefs \subseteq Refs
  /\ MaxDepth \in Nat
ASSUME FaultAssumption ==
  /\ Crashes \subseteq Procs \X Labels
  /\ IOErrors \subseteq Procs \X Labels
  /\ Discipline \subseteq Disciplines

VARIABLES
  disk,        \* package directories of the vendor root
  lock,        \* vendor-lock.json
  pending,     \* who made the .gsp-installing directory now linked there
  journal,     \* journal.json in it
  recovering,  \* is there a directory "recovering" in it
  staged,      \* package directories in it
  pc,
  walk,        \* vendorGraph's resolver and loop variables
  old,         \* the lock as installBatch read it
  new,         \* j.New: of the batch, or as read from the journal
  undo,        \* rollback's arguments and progress
  sweep,       \* RemoveAll(pendingDir): the opened directory and its names
  probe,       \* Recover's handle on the pending directory and the journal's pid
  outcome,     \* history: what installBatch returned
  touched      \* history: references whose directory a person has changed

files == <<disk, lock, touched>>
lease == <<pending, journal, recovering, staged>>
batch == <<walk, old, outcome>>
vars == <<files, lease, pc, batch, new, undo, sweep, probe>>

NoJournal == [pid |-> None, new |-> Empty]
NoWalk == [snap |-> [digest |-> Empty, deps |-> [r \in Refs |-> {}]],
           queue |-> {}, next |-> {}, seen |-> {}, depth |-> 0]
NoUndo == [refs |-> {}, present |-> {}, cur |-> None]
NoSweep == [dir |-> None, names |-> {}]
NoProbe == [handle |-> None, pid |-> None]

Directories == Installers \cup {None, Regrown}
Journals == [pid : Installers, new : Entries] \cup {NoJournal}
Walks == [snap : Snapshot, queue : SUBSET Refs, next : SUBSET Refs, seen : SUBSET Refs,
          depth : 0..MaxDepth]
Undos == [refs : SUBSET Refs, present : SUBSET Refs, cur : Refs \cup {None}]
Sweeps == [dir : Directories, names : SUBSET {"journal", "recovering", "staged"}]
Probes == [handle : Directories, pid : Installers \cup {None}]

Goto(p, l) == pc' = [pc EXCEPT ![p] = l]
At(p, l) == pc[p] = l
Alive(i) == pc[i] \notin {"idle", "exited", "crashed"}

\* What vendorGraph has landed so far, as lock entries.
Landed(i) == [r \in Refs |-> IF r \in walk[i].seen THEN walk[i].snap.digest[r] ELSE Absent]

MergedAnew(i) == Landed(i)    \* a mutant: the entries already locked are dropped

\* The lock that installBatch writes: the lock it read, overlaid with the batch.
Merged(i) == [r \in Refs |-> IF Landed(i)[r] # Absent THEN Landed(i)[r] ELSE old[i][r]]

-----------------------------------------------------------------------------
Init ==
  /\ disk = Empty /\ lock = Empty /\ touched = {}
  /\ pending = None /\ journal = NoJournal /\ recovering = FALSE /\ staged = Empty
  /\ pc = [p \in Procs |-> "idle"]
  /\ walk = [i \in Installers |-> NoWalk]
  /\ old = [i \in Installers |-> Empty]
  /\ outcome = [i \in Installers |-> None]
  /\ new = [p \in Procs |-> Empty]
  /\ undo = [p \in Procs |-> NoUndo]
  /\ sweep = [p \in Procs |-> NoSweep]
  /\ probe = [r \in Recoverers |-> NoProbe]

-----------------------------------------------------------------------------
(* installBatch: take the lease, read the lock, write the first journal.   *)

LeaseFreeByJournal == journal = NoJournal    \* a mutant: a journal, not the directory, is the lease
LeaseFree == pending = None

\* root.Mkdir(pendingDir): the resolver's snapshot was fetched before it.
Lease(i) ==
  /\ At(i, "idle")
  /\ LeaseFree
  /\ pending' = i
  /\ \E snap \in Snapshots, roots \in Requests :
       walk' = [walk EXCEPT ![i] = [NoWalk EXCEPT !.snap = snap, !.queue = roots]]
  /\ Goto(i, "leased")
  /\ UNCHANGED <<files, journal, recovering, staged, old, outcome, new, undo, sweep, probe>>

\* "vendor writer active or interrupted": nothing was created, nothing is removed.
LeaseRefused(i) ==
  /\ At(i, "idle")
  /\ ~LeaseFree
  /\ outcome' = [outcome EXCEPT ![i] = "err"]
  /\ Goto(i, "exited")
  /\ UNCHANGED <<files, lease, walk, old, new, undo, sweep, probe>>

ReadLock(i) ==
  /\ At(i, "leased")
  /\ old' = [old EXCEPT ![i] = lock]
  /\ Goto(i, "begin")
  /\ UNCHANGED <<files, lease, walk, outcome, new, undo, sweep, probe>>

\* writeJournal goes by path, so the directory must still be there; the
\* rename of journal.tmp makes it atomic.
WriteJournal(i) ==
  /\ pending # None
  /\ journal' = [pid |-> i, new |-> new[i]]
  /\ UNCHANGED <<pending, recovering, staged>>

Begin(i) ==
  /\ At(i, "begin")
  /\ WriteJournal(i)
  /\ Goto(i, "walk")
  /\ UNCHANGED <<files, batch, new, undo, sweep, probe>>

-----------------------------------------------------------------------------
(* vendorGraph: breadth first over the dependencies, landing each package. *)

\* A package has been landed: mark it seen, queue its dependencies.
Seen(i, r) ==
  walk' = [walk EXCEPT ![i].seen = @ \cup {r}, ![i].next = @ \cup walk[i].snap.deps[r]]

Todo(i, r) == r \in walk[i].queue \ walk[i].seen /\ walk[i].snap.digest[r] # Absent

\* vendorResolved(stagePath, ...): fetched, hashed and renamed inside the
\* pending directory, by path (openVendorRoot makes the directory if it is gone).
Stage(i, r) ==
  /\ At(i, "walk")
  /\ Todo(i, r)
  /\ disk[r] = Absent
  /\ staged[r] \in {Absent, walk[i].snap.digest[r]}
  /\ staged' = [staged EXCEPT ![r] = walk[i].snap.digest[r]]
  /\ pending' = IF pending = None THEN Regrown ELSE pending
  /\ new' = [new EXCEPT ![i][r] = walk[i].snap.digest[r]]
  /\ Seen(i, r)
  /\ UNCHANGED <<files, journal, recovering, pc, old, outcome, undo, sweep, probe>>

\* Lstat saw a directory at the destination: vendorResolved(path, ...) is called.
FoundAnywhere(i, r) ==    \* a mutant: it is called wherever the destination is
  /\ At(i, "walk")
  /\ Todo(i, r)
  /\ undo' = [undo EXCEPT ![i].cur = r]
  /\ Goto(i, "inplace")
  /\ UNCHANGED <<files, lease, batch, new, sweep, probe>>
FoundInPlace(i, r) ==
  /\ At(i, "walk")
  /\ Todo(i, r)
  /\ disk[r] # Absent
  /\ undo' = [undo EXCEPT ![i].cur = r]
  /\ Goto(i, "inplace")
  /\ UNCHANGED <<files, lease, batch, new, sweep, probe>>

\* It looks again: the bytes found must match; if the directory has gone in
\* between, the package is fetched and renamed straight into the vendor root.
InPlace(i, r) ==
  /\ At(i, "inplace")
  /\ undo[i].cur = r
  /\ disk[r] \in {Absent, walk[i].snap.digest[r]}
  /\ disk' = [disk EXCEPT ![r] = walk[i].snap.digest[r]]
  /\ Seen(i, r)
  /\ undo' = [undo EXCEPT ![i].cur = None]
  /\ Goto(i, "walk")
  /\ UNCHANGED <<lock, touched, lease, old, outcome, new, sweep, probe>>

LevelDone(i) == At(i, "walk") /\ walk[i].queue \subseteq walk[i].seen

DepthUnchecked(i) == TRUE    \* a mutant: a circle of dependencies is walked for ever
DepthLeft(i) == walk[i].depth < MaxDepth

NextLevel(i) ==
  /\ LevelDone(i)
  /\ walk[i].next # {}
  /\ DepthLeft(i)
  /\ walk' = [walk EXCEPT ![i].queue = walk[i].next, ![i].next = {}, ![i].depth = @ + 1]
  /\ UNCHANGED <<files, lease, pc, old, outcome, new, undo, sweep, probe>>

WalkDoneAtRoots(i) == LevelDone(i)    \* a mutant: the dependencies are not walked
WalkDone(i) == LevelDone(i) /\ walk[i].next = {}

-----------------------------------------------------------------------------
(* The commit: second journal, the moves, the lock.                        *)

Compatible(i) ==
  \A r \in Refs : old[i][r] # Absent /\ Landed(i)[r] # Absent => old[i][r] = Landed(i)[r]

Merge(i) ==
  /\ WalkDone(i)
  /\ Compatible(i)
  /\ WriteJournal(i)
  /\ Goto(i, "commit")
  /\ UNCHANGED <<files, batch, new, undo, sweep, probe>>

ToMove(i) == {r \in Refs : new[i][r] # Absent} \ undo[i].refs

Move(i, r) ==
  /\ At(i, "commit")
  /\ r \in ToMove(i)
  /\ disk[r] = Absent
  /\ staged[r] # Absent
  /\ disk' = [disk EXCEPT ![r] = staged[r]]
  /\ staged' = [staged EXCEPT ![r] = Absent]
  /\ undo' = [undo EXCEPT ![i].refs = @ \cup {r}]
  /\ UNCHANGED <<lock, touched, pending, journal, recovering, pc, batch, new, sweep, probe>>

\* WriteLock: written aside and renamed over vendor-lock.json.
CommitLock(i) ==
  /\ At(i, "commit")
  /\ ToMove(i) = {}
  /\ lock' = Merged(i)
  /\ outcome' = [outcome EXCEPT ![i] = "ok"]
  /\ Goto(i, "list")
  /\ UNCHANGED <<disk, touched, lease, walk, old, new, undo, sweep, probe>>

\* A destination that appeared, a failed rename or a failed WriteLock.
CommitError(i) ==
  /\ At(i, "commit")
  /\ outcome' = [outcome EXCEPT ![i] = "err"]
  /\ undo' = [undo EXCEPT ![i].present = {}]
  /\ Goto(i, "verify")
  /\ UNCHANGED <<files, lease, walk, old, new, sweep, probe>>

\* Any error before the commit: a reference the log does not resolve, a failed or
\* timed-out fetch, other bytes than the signed ones, a chain deeper than MaxDepth,
\* a conflict with the lock; an unreadable lock, a journal that cannot be written.
Abort(i) ==
  /\ \/ pc[i] \in {"walk", "inplace"}
     \/ pc[i] \in {"leased", "begin"} /\ <<i, pc[i]>> \in IOErrors
     \/ At(i, "begin") /\ pending = None
  /\ outcome' = [outcome EXCEPT ![i] = "err"]
  /\ undo' = [undo EXCEPT ![i].cur = None]
  /\ Goto(i, "list")
  /\ UNCHANGED <<files, lease, walk, old, new, sweep, probe>>

-----------------------------------------------------------------------------
(* rollback and RemoveAll(pendingDir), run by installers and recoverers.   *)

\* With "steady_writer" no writer exits, or is killed, between a recovery's read of
\* its journal and the probe of its process.
Steady(p) ==
  "steady_writer" \in Discipline =>
    \A r \in Recoverers : At(r, "probe") => probe[r].pid # p

\* The process's memory is gone.
Forget(p) ==
  /\ new' = [new EXCEPT ![p] = Empty]
  /\ undo' = [undo EXCEPT ![p] = NoUndo]
  /\ sweep' = [sweep EXCEPT ![p] = NoSweep]
  /\ IF p \in Installers
     THEN /\ walk' = [walk EXCEPT ![p] = NoWalk]
          /\ old' = [old EXCEPT ![p] = Empty]
          /\ UNCHANGED probe
     ELSE /\ probe' = [probe EXCEPT ![p] = NoProbe]
          /\ UNCHANGED <<walk, old>>

\* An installer is done, or a recoverer runs its deferred Remove("recovering").
Leave(p) ==
  /\ Steady(p)
  /\ IF p \in Installers
     THEN Goto(p, "exited") /\ Forget(p)
     ELSE Goto(p, "release") /\ UNCHANGED <<walk, old, new, undo, sweep, probe>>

\* A candidate that is there still has the bytes the entry promises.
UnchangedSkipped(p, r) == TRUE    \* a mutant: nothing is hashed before the removal
Unchanged(p, r) == disk[r] \in {Absent, new[p][r]}

\* rollback looks at the candidates one after another and hashes those that are there.
\* Until the last one is hashed, none is removed.
Verify(p, r) ==
  /\ At(p, "verify")
  /\ r \in undo[p].refs
  /\ Unchanged(p, r)
  /\ undo' = [undo EXCEPT ![p].refs = @ \ {r},
                          ![p].present = IF disk[r] = Absent THEN @ ELSE @ \cup {r}]
  /\ UNCHANGED <<files, lease, pc, batch, new, sweep, probe>>

Verified(p) ==
  /\ At(p, "verify")
  /\ undo[p].refs = {}
  /\ Goto(p, "remove")
  /\ UNCHANGED <<files, lease, batch, new, undo, sweep, probe>>

\* The first changed one ends it.  An installer keeps its journal (retainJournal).
VerifyFails(p, r) ==
  /\ At(p, "verify")
  /\ r \in undo[p].refs
  /\ ~Unchanged(p, r)
  /\ Leave(p)
  /\ UNCHANGED <<files, lease, outcome>>

\* root.RemoveAll(rel) deletes the package's files, whatever they are by now ...
Tear(p, r) ==
  /\ At(p, "remove")
  /\ r \in undo[p].present
  /\ disk' = [disk EXCEPT ![r] = IF @ = Absent THEN Absent ELSE Torn]
  /\ undo' = [undo EXCEPT ![p].cur = r]
  /\ Goto(p, "tear")
  /\ UNCHANGED <<lock, touched, lease, batch, new, sweep, probe>>

\* ... and then the directory itself.
Removed(p, r) ==
  /\ At(p, "tear")
  /\ undo[p].cur = r
  /\ disk' = [disk EXCEPT ![r] = Absent]
  /\ undo' = [undo EXCEPT ![p].cur = None, ![p].present = @ \ {r}]
  /\ Goto(p, "remove")
  /\ UNCHANGED <<lock, touched, lease, batch, new, sweep, probe>>

Children ==
  (IF journal = NoJournal THEN {} ELSE {"journal"}) \cup
  (IF recovering THEN {"recovering"} ELSE {}) \cup
  (IF staged = Empty THEN {} ELSE {"staged"})

\* RemoveAll opens the directory by its name and reads the names in it.
List(p) ==
  /\ At(p, "list") \/ (At(p, "remove") /\ undo[p].present = {})
  /\ sweep' = [sweep EXCEPT ![p] = [dir |-> pending, names |-> Children]]
  /\ Goto(p, "unlink")
  /\ UNCHANGED <<files, lease, batch, new, undo, probe>>

\* It removes them from the directory it opened, in directory order (any order).
Unlink(p, n) ==
  /\ At(p, "unlink")
  /\ n \in sweep[p].names
  /\ sweep' = [sweep EXCEPT ![p].names = @ \ {n}]
  /\ IF pending = sweep[p].dir
     THEN /\ journal' = IF n = "journal" THEN NoJournal ELSE journal
          /\ recovering' = (recovering /\ n # "recovering")
          /\ staged' = IF n = "staged" THEN Empty ELSE staged
     ELSE UNCHANGED <<journal, recovering, staged>>
  /\ UNCHANGED <<files, pending, pc, batch, new, undo, probe>>

\* Then it removes, by name, whatever empty directory is there now.
Rmdir(p) ==
  /\ At(p, "unlink")
  /\ sweep[p].names = {}
  /\ pending' = IF Children = {} THEN None ELSE pending
  /\ Leave(p)
  /\ UNCHANGED <<files, journal, recovering, staged, outcome>>

-----------------------------------------------------------------------------
(* Recover                                                                 *)

Active(r) == pc[r] # "idle"

\* How careful the operator is: to recover only after the writer exited, and
\* to run one recovery at a time.
Permitted ==
  /\ "writer_exited" \in Discipline => \A i \in Installers : ~Alive(i)
  /\ "one_recovery" \in Discipline => \A r \in Recoverers : ~Active(r)

\* Lstat and OpenRoot(pendingDir); without a pending directory it returns.
Open(r) ==
  /\ At(r, "idle")
  /\ pending # None
  /\ Permitted
  /\ probe' = [probe EXCEPT ![r].handle = pending]
  /\ Goto(r, "claim")
  /\ UNCHANGED <<files, lease, batch, new, undo, sweep>>

\* The opened directory is still the one linked at the path.
Linked(r) == pending = probe[r].handle

Claim(r) ==
  /\ At(r, "claim")
  /\ Linked(r) /\ ~recovering
  /\ recovering' = TRUE
  /\ Goto(r, "read")
  /\ UNCHANGED <<files, pending, journal, staged, batch, new, undo, sweep, probe>>

\* "another recovery is active": nothing was deferred yet.
ClaimRefused(r) ==
  /\ At(r, "claim")
  /\ ~Linked(r) \/ recovering
  /\ probe' = [probe EXCEPT ![r] = NoProbe]
  /\ Goto(r, "idle")
  /\ UNCHANGED <<files, lease, batch, new, undo, sweep>>

ReadJournal(r) ==
  /\ At(r, "read")
  /\ IF Linked(r) /\ journal # NoJournal
     THEN /\ new' = [new EXCEPT ![r] = journal.new]
          /\ probe' = [probe EXCEPT ![r].pid = journal.pid]
          /\ Goto(r, "probe")
     ELSE /\ Goto(r, "release")
          /\ UNCHANGED <<new, probe>>
  /\ UNCHANGED <<files, lease, batch, undo, sweep>>

NeverAlive(r) == FALSE                          \* a mutant: a journal is always recovered
NotExited(r) == ~At(probe[r].pid, "exited")    \* a mutant: a killed writer counts as alive

\* Signal 0 to the journal's process finds it.
WriterAlive(r) == Alive(probe[r].pid)

Probe(r) ==
  /\ At(r, "probe")
  /\ Goto(r, IF WriterAlive(r) THEN "release" ELSE "readlock")
  /\ UNCHANGED <<files, lease, batch, new, undo, sweep, probe>>

AnnouncedByJournal(r) == {x \in Refs : new[r][x] # Absent}    \* a mutant: the lock is ignored
\* What the journal announced and the lock does not hold is rolled back.
Uncommitted(r) == {x \in Refs : new[r][x] \notin {Absent, lock[x]}}

ReadCommitted(r) ==
  /\ At(r, "readlock")
  /\ undo' = [undo EXCEPT ![r].refs = Uncommitted(r), ![r].present = {}]
  /\ Goto(r, "verify")
  /\ UNCHANGED <<files, lease, batch, new, sweep, probe>>

Release(r) ==
  /\ At(r, "release")
  /\ recovering' = (recovering /\ ~Linked(r))
  /\ Forget(r)
  /\ Goto(r, "idle")
  /\ UNCHANGED <<files, pending, journal, staged, outcome>>

-----------------------------------------------------------------------------
(* Faults and the operator                                                 *)

\* A removal fails, or a recovery step does: the deferred calls still run.
IOError(p) ==
  /\ <<p, pc[p]>> \in IOErrors
  /\ \/ pc[p] \in {"verify", "remove", "tear", "list", "unlink"}
     \/ pc[p] \in {"read", "probe", "readlock"}
  /\ Leave(p)
  /\ UNCHANGED <<files, lease, outcome>>

\* The process is killed: no deferred call runs.
Crash(p) ==
  /\ <<p, pc[p]>> \in Crashes
  /\ pc[p] \notin {"idle", "exited", "crashed"}
  /\ Steady(p)
  /\ Goto(p, IF p \in Installers THEN "crashed" ELSE "idle")
  /\ Forget(p)
  /\ UNCHANGED <<files, lease, outcome>>

RollingBack(p) == pc[p] \in {"verify", "remove", "tear"}

\* With "edits_pause" nobody edits a package from when a rollback hashes it until the
\* rollback has removed it, or has given up.
EditPermitted(r) ==
  "edits_pause" \in Discipline => \A p \in Procs : RollingBack(p) => r \notin undo[p].present

\* A person changes, creates or deletes a package directory.
Touch(r, bytes) ==
  /\ r \in OperatorRefs
  /\ EditPermitted(r)
  /\ disk[r] \notin {Torn, bytes}
  /\ disk' = [disk EXCEPT ![r] = bytes]
  /\ touched' = touched \cup {r}
  /\ UNCHANGED <<lock, lease, pc, batch, new, undo, sweep, probe>>

-----------------------------------------------------------------------------
Install(i) ==
  \/ ReadLock(i) \/ Begin(i)
  \/ \E r \in Refs : Stage(i, r) \/ FoundInPlace(i, r) \/ InPlace(i, r) \/ Move(i, r)
  \/ NextLevel(i)
  \/ Merge(i) \/ CommitLock(i) \/ CommitError(i) \/ Abort(i)

Rollback(p) ==
  \/ Verified(p)
  \/ \E r \in Refs : Verify(p, r) \/ VerifyFails(p, r) \/ Tear(p, r) \/ Removed(p, r)

RemovePending(p) ==
  \/ List(p) \/ Rmdir(p)
  \/ \E n \in {"journal", "recovering", "staged"} : Unlink(p, n)

Recovery(r) ==
  \/ Claim(r) \/ ClaimRefused(r) \/ ReadJournal(r) \/ Probe(r)
  \/ ReadCommitted(r) \/ Release(r)

Operator == \E r \in Refs : Touch(r, Edited) \/ Touch(r, Absent)

Terminating ==
  /\ \A i \in Installers : ~Alive(i) /\ ~At(i, "idle")
  /\ \A r \in Recoverers : ~Active(r)
  /\ UNCHANGED vars

Next ==
  \/ \E i \in Installers : Lease(i) \/ LeaseRefused(i) \/ Install(i)
  \/ \E p \in Procs : Rollback(p) \/ RemovePending(p) \/ IOError(p) \/ Crash(p)
  \/ \E r \in Recoverers : Open(r) \/ Recovery(r)
  \/ Operator
  \/ Terminating

Spec == Init /\ [][Next]_vars

\* What keeps running does run: a live process is scheduled, and as long as
\* the vendor root is blocked the operator comes back to recover it.
Fairness ==
  /\ \A i \in Installers : WF_vars(Install(i))
  /\ \A p \in Procs : WF_vars(Rollback(p)) /\ WF_vars(RemovePending(p))
  /\ \A r \in Recoverers : WF_vars(Open(r)) /\ WF_vars(Recovery(r))

FairSpec == Spec /\ Fairness

-----------------------------------------------------------------------------
(* Properties                                                              *)

\* Every variable holds what its declaration says; in particular vendorGraph
\* never goes deeper than maxDepth levels, whatever the log answers.
TypeOK ==
  /\ disk \in [Refs -> Digests \cup {Absent, Edited, Torn}]
  /\ lock \in Entries /\ staged \in Entries /\ touched \in SUBSET Refs
  /\ pending \in Directories
  /\ journal \in Journals
  /\ recovering \in BOOLEAN
  /\ pc \in [Procs -> Labels]
  /\ walk \in [Installers -> Walks]
  /\ old \in [Installers -> Entries]
  /\ outcome \in [Installers -> {None, "ok", "err"}]
  /\ new \in [Procs -> Entries]
  /\ undo \in [Procs -> Undos]
  /\ sweep \in [Procs -> Sweeps]
  /\ probe \in [Recoverers -> Probes]

\* "One directory lease owns an entire dependency batch" (installBatch): there
\* are never two writers between their Mkdir and the end of their cleanup.
LeaseExclusive == \A i, j \in Installers : Alive(i) /\ Alive(j) => i = j

\* "Recover refuses a live writer": while a recovery that got past its probe
\* compares, removes and cleans up, no writer holds the lease.
PastProbe(r) == At(r, "readlock") \/ At(r, "verify") \/ At(r, "remove") \/ At(r, "tear")
                \/ At(r, "list") \/ At(r, "unlink")
RecoveryExcludesWriters ==
  \A r \in Recoverers : PastProbe(r) => \A i \in Installers : ~Alive(i)

\* The lock is the commit boundary: what it lists is on disk with these bytes,
\* and once no installation is pending nothing else is (rollback and Recover),
\* except where a person has ever changed the directory.
TreeMatchesLock ==
  \A r \in Refs \ touched :
    /\ lock[r] # Absent => disk[r] = lock[r]
    /\ pending = None /\ disk[r] # Absent => lock[r] = disk[r]

\* installBatch commits whole dependency batches: every locked package was
\* published, with these bytes, along with dependencies that are locked too.
ClosedLock ==
  \A r \in Refs : lock[r] # Absent =>
    \E snap \in Snapshots :
      /\ snap.digest[r] = lock[r]
      /\ \A d \in snap.deps[r] : lock[d] # Absent /\ lock[d] = snap.digest[d]

\* No lost update: no later writer, recovery or crash takes an entry out of the
\* lock or changes its digest.
LockMonotone == [][\A r \in Refs : lock[r] # Absent => lock'[r] = lock[r]]_vars

\* "changed package bytes preserved" (rollback), README: recovery "preserves edited files".
\* Only the person who edited a package takes the edited bytes away, never an installer
\* or a recovery, and be it that other packages were hashed before the edit.
EditsPreserved ==
  [][\A r \in Refs : disk[r] = Edited /\ disk'[r] # Edited =>
       touched' = touched \cup {r} /\ UNCHANGED <<lease, pc, batch, new, undo, sweep, probe>>]_vars

Store == INSTANCE VendorStore

\* README: "The CLI stages the complete dependency batch before installing new entries".
\* When a package appears in the tree, all of some closed batch is staged or in place, unless
\* a person changed directories: one that is deleted between two looks at it is installed at
\* once, from whatever part of the batch is there.
Ready(i, r) == walk[i].snap.digest[r] \in {staged[r], disk[r]}
StagedBeforeInstalled ==
  [][\A i \in Installers, r \in Refs \ touched' :
       Alive(i) /\ disk[r] = Absent /\ disk'[r] # Absent =>
         /\ r \in walk[i].seen
         /\ Store!ClosedUnder(walk[i].snap, walk[i].seen)
         /\ \A d \in walk[i].seen \ touched : Ready(i, d)]_vars

\* The lock and the answers implement the abstract store.
ImplementsStore == Store!Spec

\* README: a blocked vendor root does not stay blocked if the operator recovers it.
EventuallyUnblocked == (pending # None) ~> (pending = None)

\* README: "Interrupted writers leave a journal and block installation".
InterruptedLeavesJournal ==
  \A i \in Installers : At(i, "crashed") /\ pending = i => journal # NoJournal

-----------------------------------------------------------------------------
(* The inductive invariant behind the safety properties above.             *)

\* A live writer owns the directory it made.
WritersOwnPending == \A i \in Installers : Alive(i) => pending = i

\* Nothing is in a directory that is not there, and a journal names its maker.
PendingContents ==
  /\ pending # Regrown
  /\ pending = None => journal = NoJournal /\ ~recovering /\ staged = Empty
  /\ journal # NoJournal => journal.pid = pending

\* One recovery at a time; from its probe on, what it opened is still there
\* and, once it has passed it, the writer is gone.
RecoverersOwnDead ==
  \A r \in Recoverers :
    /\ \A q \in Recoverers : Active(r) /\ Active(q) => r = q
    /\ Active(r) => probe[r].handle \in Installers
    /\ At(r, "probe") \/ PastProbe(r) => Linked(r)
    /\ At(r, "probe") => probe[r].pid = pending
    /\ PastProbe(r) => ~Alive(pending)

\* Each process is where its own program can be.
LabelsFit ==
  /\ \A i \in Installers : pc[i] \notin {"claim", "read", "probe", "readlock", "release"}
  /\ \A r \in Recoverers : At(r, "idle") \/ At(r, "claim") \/ At(r, "read")
       \/ At(r, "probe") \/ At(r, "release") \/ PastProbe(r)

\* The lock a writer read is still the lock, and its batch agrees with it.
OldIsLock ==
  \A i \in Installers :
    /\ pc[i] \in {"begin", "walk", "inplace", "commit"} => old[i] = lock
    /\ At(i, "commit") => Compatible(i)

IInv ==
  /\ WritersOwnPending
  /\ PendingContents
  /\ RecoverersOwnDead
  /\ LabelsFit
  /\ OldIsLock
-----------------------------------------------------------------------------
(* What the lease then gives: how lock, tree and journal are related while *)
(* a batch is walked, committed, rolled back or recovered.                 *)

\* Packages that no lock lists, except where a person was.
Loose == {r \in Refs \ touched : disk[r] # Absent /\ lock[r] = Absent}

\* What is locked is there, what is there and not locked is announced by a journal,
\* and no journal announces other bytes than are locked.
TreeInv ==
  /\ \A r \in Refs \ touched : lock[r] # Absent => disk[r] = lock[r]
  /\ \A r \in Loose : journal.new[r] # Absent
  /\ \A r \in Refs \ touched : journal.new[r] # Absent => lock[r] \in {Absent, journal.new[r]}

\* A rollback removes all loose packages and nothing that is locked.
Doomed(p) == undo[p].refs \cup undo[p].present
RollbackInv ==
  \A p \in Procs :
    /\ RollingBack(p) => \A r \in Doomed(p) \ touched : lock[r] = Absent
    /\ RollingBack(p) => Loose \subseteq Doomed(p)
    /\ pc[p] \in {"remove", "tear"} => undo[p].refs = {}
    /\ At(p, "tear") => undo[p].cur \in undo[p].present
    /\ pc[p] \in {"list", "unlink"} => Loose = {}

Batching(i) == pc[i] \in {"leased", "begin", "walk", "inplace", "commit"}

\* What a writer has seen it has staged, moved, or found in its place.
StagedInv(i) ==
  /\ \A r \in Refs :
       /\ new[i][r] # Absent =>
            /\ r \in walk[i].seen /\ new[i][r] = walk[i].snap.digest[r]
            /\ r \notin touched => lock[r] = Absent
       /\ r \in walk[i].seen \ touched /\ new[i][r] = Absent => disk[r] = walk[i].snap.digest[r]
       /\ staged[r] \in {Absent, new[i][r]}
       /\ new[i][r] # Absent /\ r \notin undo[i].refs => staged[r] = new[i][r]
  /\ ~At(i, "commit") => Loose = {} /\ undo[i].refs = {}
  /\ pc[i] \in {"leased", "begin"} => new[i] = Empty
  /\ At(i, "inplace") => \A r \in Refs \ touched : undo[i].cur = r => disk[r] # Absent
  /\ At(i, "commit") =>
       /\ journal.new = new[i]
       /\ Loose \subseteq undo[i].refs
       /\ \A r \in undo[i].refs : new[i][r] # Absent /\ (r \notin touched => disk[r] = new[i][r])

\* The walk is on its way from what was asked for to its closure.
WalkInv(i) ==
  /\ walk[i].snap \in Snapshots
  /\ \A r \in walk[i].seen :
       /\ walk[i].snap.digest[r] # Absent
       /\ walk[i].snap.deps[r] \subseteq walk[i].seen \cup walk[i].queue \cup walk[i].next
  /\ \E roots \in Requests :
       /\ roots \subseteq walk[i].seen \cup walk[i].queue
       /\ \A T \in SUBSET Refs :
            roots \subseteq T /\ Store!ClosedUnder(walk[i].snap, T) =>
              walk[i].seen \cup walk[i].queue \cup walk[i].next \subseteq T
  /\ At(i, "inplace") => \A r \in Refs : undo[i].cur = r => Todo(i, r)
  /\ At(i, "commit") => walk[i].queue \subseteq walk[i].seen /\ walk[i].next = {}

BatchInv ==
  \A i \in Installers :
    /\ At(i, "idle") => new[i] = Empty /\ undo[i] = NoUndo
    /\ At(i, "idle") \/ Batching(i) => outcome[i] = None
    /\ Batching(i) => StagedInv(i) /\ WalkInv(i)

\* What a recovery read of a dead writer is what its journal still says.
RecordInv ==
  \A r \in Recoverers :
    (At(r, "probe") /\ ~Alive(pending)) \/ At(r, "readlock") => new[r] = journal.new

CommitInv ==
  /\ TreeInv
  /\ RollbackInv
  /\ BatchInv
  /\ RecordInv
  /\ ClosedLock
=============================================================================
