# Formal models of gsp

`gsp` is the command line of GenSwarms Packages: it reads a notary's
transparency log, publishes releases to it, resolves references to signed
releases, folds overlays into swarm states, and vendors packages into a directory
with a lock file. This directory holds TLA+ models of its five cores, the TLC runs
that check them on small instances, and TLAPS proofs of the properties that matter
most.

| core | code | modules |
| --- | --- | --- |
| the vendor root | `src/cli/internal/vendorer/{transaction,vendorer}.go` | `VendorTransaction`, `VendorStore` (abstract), `VendorTransactionProofs`, `VendorCommitProofs`, `MCVendorTransaction` |
| the log and its replay | `src/cli/internal/client/{client,resolver}.go` | `TransparencyLog`, `TransparencyLogProofs`, `MCTransparencyLog` |
| the fold of swarm states | `src/cli/internal/ir/fold.go`, `main.go` | `SwarmFold`, `SwarmRoles` (abstract), `SwarmFoldProofs`, `SwarmRolesProofs`, `MCSwarmFold` |
| the way of a package's bytes | `main.go` (`cmdPublish`), `client.go` (`Publish`, `do`), `src/cli/internal/{manifest,dirhash}`, `vendorer.go` (fetching) | `ReleasePipeline`, `ReleasePipelineProofs`, `MCReleasePipeline` |
| documents and commands | `src/cli/internal/ir/*.go`, `main.go` (`materialize`, `add`, `bump`, `vendor`) | `SwarmDocument` (no variables), `SwarmFiles`, `SwarmMemory` (abstract), `SwarmFilesProofs`, `SwarmKeptProofs`, `MCSwarmFiles` |

To check one run: `tlc -workers 2 -config MCSwarmFold.cfg MCSwarmFold`. To check
proofs: `tlapm SwarmFoldProofs.tla`.

## 1. Inventory

| component | state it keeps | operations | interacts with | what is hard | what makes it correct |
| --- | --- | --- | --- | --- | --- |
| vendor transaction (`transaction.go`, `vendorer.go`) | package directories, `vendor-lock.json`, `.gsp-installing` with journal, stage and the marker `recovering` | `installBatch`, `vendorGraph`, `WriteLock`, `rollback`, `Recover` | several processes on one filesystem; a person who edits the tree; the resolver's snapshot | interleavings at every system call, kills, failing calls, directories removed by name | one writer; the lock is closed, only grows and describes the tree; edits are kept; a blocked root can be unblocked |
| package fetch and hash (`checkout`, `packageRoot`, `copyDir`, `regularTree`, `dirhash.go`) | a clone, a stage, lists of files | clone, copy, hash | git, the filesystem, a person who edits the source | trees that change while they are read; three walks that must agree on what a package is; links and `.git` | what lands has the notarized digest, and what has not changed can be vendored |
| log client (`client.go`) | `since`, the entries received | `Log`, `FullLog`, `VerifyChain`, `Publish`, `PublicKey` | notary over HTTP, possibly through a mirror | pages taken at different times, changed, repeated or withheld entries, limits | what is accepted is one history the notary signed |
| resolver (`resolver.go`) | map of active releases | `VerifiedResolver`, `apply`, `Resolve` | log client, `materialize`, `vendor` | any order of publications and withdrawals | the map is what the history means, and the history obeyed the rules |
| IR fold (`fold.go`) | a swarm: agents, objects, edges, options | ten overlay operations | overlays in, states out and in again | operations on groups by name, long sequences | every state is one that `Validate` accepts; an event reaches only its own group |
| IR state, overlay, refs (`state.go`, `overlay.go`, `ref.go`, `encode.go`, `resolve.go`, `helpers.go`) | documents on disk and in memory | parse, validate, encode, list references | fold, commands | what is absent, null, empty or of a wrong type, through any number of files; numbers | parse of encode is the identity; nothing of a backend or configuration is lost; every package is authenticated |
| commands (`main.go`) | none between invocations | `log`, `resolve`, `materialize`, `vendor`, `publish`; `add` and `bump` write one-event overlays; `verify`, `manifest` and `dirhash` only print | all of the above | `publish` is a loop that can stop half way and whose answers can be lost; `materialize` and `vendor` fail at many points | pins are never replaced; what is printed is what was published; a command replaces the file with a whole result or leaves it |
| manifest (`manifest.go`) | none | parse, validate | `publish`, `manifest` | names given twice | `publish` works through valid manifests only |
| conformance harness, examples | none | scripts that run the program | other repositories | | test data |
| notary, git, the Elixir runtime | outside this repository | | | | modelled only as the environment |

Interactions: `VerifiedResolver` calls `FullLog`, `VerifyChain`, then `apply` for
each entry. `materialize --resolve` and `vendor` fill or compare digests with
the resulting map (`resolveState`); `vendor` gives the map to
`installBatch`, which reads it while it walks dependencies. What `materialize`
prints is the file that a later `materialize` or `vendor` parses. `publish` hashes
what the notary clones and hashes again, and `vendor` clones, copies and hashes once
more.

## 2. VendorTransaction

**State.** `disk`, `lock` and the four variables of the pending directory
(`pending`, `journal`, `recovering`, `staged`) are the vendor root. A package
directory is a digest, `Edited`, `Torn` (a removal stopped half way) or
`Absent`. `pending` names the process that made the directory now linked at
`.gsp-installing`, because Go's directory handles stay with the directory they
opened while removals go by name: both matter here. The other variables are the
programs' own: where a process is, `vendorGraph`'s loop variables, the lock it
read, the journal it wrote or read, the progress of `rollback` and of
`RemoveAll`, and `Recover`'s handle. `touched` and `outcome` are history.

**Actions.** One for each system call another process can observe.
`installBatch`: `Lease` (Mkdir) or `LeaseRefused`; `ReadLock`; `Begin` (journal);
`Stage`, `FoundInPlace`, `InPlace` and `NextLevel` (`vendorGraph`, breadth first);
`Merge`; `Move` per package; `CommitLock`. Failures: `CommitError`, `Abort`, then
`Verify`/`VerifyFails` (one package), `Verified`, `Tear`, `Removed` (`rollback`) and `List`, `Unlink`,
`Rmdir` (the deferred `RemoveAll`, which opens, lists and unlinks). `Recover`:
`Open`, `Claim`/`ClaimRefused`, `ReadJournal`, `Probe`, `ReadCommitted`, the same
`rollback` and removal, `Release`. `Crash` kills a process anywhere `Crashes`
allows, `IOError` fails a call where `IOErrors` allows, and `Touch` is a person who
edits or deletes a package directory.

**The environment's care.** Some properties hold only if the people at the
terminals are careful. What they are careful about is the constant
`Discipline`, so that each run and each theorem says what it needs:

- `one_recovery`: one recovery at a time;
- `steady_writer`: a writer does not end between a recovery's reading of its
  journal and the probe that follows;
- `edits_pause`: nobody edits a package from when a rollback begins to hash it until
  it is removed or the rollback gives up;
- `writer_exited`: a recovery starts when no writer runs, as the README asks.

**Abstract specification.** `VendorStore` has only the lock and the answers: a
request adds, in one step and to the lock of that moment, the dependency closure
of what was asked for, or changes nothing. `ImplementsStore` checks that the
directories, lease and journal bring that about.

| run | shows |
| --- | --- |
| `vendor_safety` | Two installers, one recovery, a person editing `b`; kills and failing calls everywhere; disciplines `steady_writer`, `one_recovery`, `edits_pause`. The lease excludes (`LeaseExclusive`), a recovery past its probe runs alone (`RecoveryExcludesWriters`), lock and tree agree (`TreeMatchesLock`), the lock is closed (`ClosedLock`) and grows only (`LockMonotone`), nothing appears in the tree before the whole batch is staged or in place (`StagedBeforeInstalled`), edits are kept (`EditsPreserved`), and `VendorStore` is implemented. `IInv` and `CommitInv` are the invariants the proofs use. |
| `vendor_recovery` | Under fairness, and with kills only where the journal describes what the writer did, a blocked root becomes free again (`EventuallyUnblocked`). |
| `vendor_no_journal` | Finding: a writer killed between Mkdir and its first journal, or in its cleanup, leaves a blocked root without a journal. |
| `vendor_live_writer` | Finding: without `steady_writer` and `writer_exited`, a recovery takes a new writer for the dead one whose journal it read. |

`rollback` hashes its candidates one after another and removes them afterwards, so
that a person may edit one while the next is hashed: `Verify` is a step for each
package. The files of one package are hashed in one step: an edit of a file that is
yet to be read is one before it, and an edit of a file that was read is one after it,
which `edits_pause` excludes.

Three things happen outside these assumptions, and the first two can be looked at with
TLC. With `Discipline <- NoPause` in `MCVendorSafety.cfg` an edit made after
`rollback` hashed a package is deleted (`EditsPreserved`), although the code's README says that
recovery preserves edited files. With `NotAlone`, three installers, two recoveries and
`LeaseExclusive` as the only property, the slower recovery of one journal removes, by
name, the directory that a new writer has just made, and two writers run. And a
directory that a person deletes between the two looks of `installBatch` and
`vendorResolved` is fetched straight into the vendor root while the batch is still being
walked; if the batch then fails, the package stays, listed by no lock and announced by
no journal. Directories that a person has ever changed are `touched`, and
`StagedBeforeInstalled` and `TreeMatchesLock` except them from then on.

A recovery that is killed leaves its marker and every later one is refused: the marker
then needs a hand, and `vendor_recovery` does not kill recoveries.

**Bounds.** Two packages, one depending on the other, are the least with a proper
batch, a shared dependency and a partial move. The log is seen in three states:
both published; one withdrawn and published again with other bytes; and a cycle,
which is committed when both packages are asked for and too deep otherwise.
Two installers are enough for one to be interrupted and one to follow. `MaxDepth` is 1 (32 in the
code), so that the depth check does bite. Installers are interchangeable, and
symmetry is used in `vendor_safety` only.

**Fairness.** `FairSpec` asks that a process that is running is scheduled, and
that the operator comes back to recover while the root is blocked. It asks
nothing of writers that have not begun.

**Idealised.** `Recover`'s test that the process is alive is exact and process
identifiers are not reused; `fsync` and power cuts are left out (the code's README says so of
its own tests); fetching and hashing are one step that lands the
signed bytes or fails, which `ReleasePipeline` takes apart (`LandedIsNotarized`); names
do not collide on the filesystem.

**Proved** (`VendorTransactionProofs`), for any processes, packages, snapshots,
crashes and failures:

- `TypeCorrect`: `Spec => []TypeOK`.
- `Invariant`: under `Attended` (`steady_writer` and `one_recovery`),
  `Spec => []IInv`. `IInv` is the conjunction of five parts: a live writer owns the
  pending directory (`WritersOwnPending`); nothing is in a directory that is not
  there, and a journal names its maker (`PendingContents`); a recovery past its
  probe still holds the directory linked there, and its writer is dead
  (`RecoverersOwnDead`); each process is where its program can be (`LabelsFit`); and
  the lock a writer read is still the lock (`OldIsLock`). `LeaseExclusive` alone is
  not inductive: a removal by name would break it if the remover could be
  looking at a directory that is no longer there, which is what
  `RecoverersOwnDead` excludes.
- `LeaseIsExclusive`, `RecoveryIsAlone`, `LockOnlyGrows`: consequences, under
  `Attended`.
- `EditsArePreserved`: under `edits_pause`, with the hashes of a batch taken at
  different times. The helper `RemovalsSafe` says that what was hashed and is not yet
  removed is not edited; only `Verify` adds to it and only a person could spoil it.

**Proved** (`VendorCommitProofs`), for the same and under `Attended`; `edits_pause` is
not needed:

- `CommitInvariant`: `Spec => []CommitInv`. `TreeMatchesLock` says nothing of the
  moments in which a process may be killed, and whatever is on disk then is what a
  later recovery finds. `CommitInv` says it, of the packages no person touched:
  what is on disk and not locked (`Loose`) is announced by a journal, and no journal
  announces bytes other than the lock's (`TreeInv`); a rollback is going to remove
  (`Doomed`: what it has hashed and what it has yet to hash) all of `Loose` and nothing
  that is locked (`RollbackInv`); what a writer has seen
  it has staged, moved or found in place, nothing is loose before it moves, and its
  walk is between what was asked for and its closure (`BatchInv`); what a recovery
  read of a dead writer is what the journal still says (`RecordInv`); and the lock
  is closed. All of it rests on the lease, hence on `Invariant`: with two
  writers one would replace the journal that announces the other's packages.
- `TreeIsLocked` and `LockIsClosed`: `TreeMatchesLock` and `ClosedLock`. The second
  needs that a walk which ends has nothing left in its queue, so that what it
  staged is closed, and that `Merged` neither drops nor changes an entry.
- `BatchesAreStaged`: `StagedBeforeInstalled`. Only `Move` makes an untouched package
  appear, since `InPlace` finds what `FoundInPlace` saw, and at the moves what is
  not moved yet is staged (`StagedInv`).
- `VendorIsStore`: `ImplementsStore`. `CommitLock` is `Succeed`: what the writer has
  seen is the least closed set around its request (`WalkInv`), what of it was not
  locked is what it adds, and the lock it merges with is the current one
  (`OldIsLock`). Every other step leaves the lock alone, and answers once or never.

## 3. TransparencyLog

**State.** The notary's log, the set of chains it ever signed and the number of
times its database was restored; and one reader: the command, `since`, the
entries received, the index of the loop it is in, and the map of releases.
SHA-256 is ideal: the hash of a chain is the sequence of payloads it was
computed from. Only the notary signs. The signature does not cover `seq`, as in
the code.

**Actions.** `Notarize` and `Restore` are the notary's. `FromNotary`, `FromMirror`
and `FromMirrorAltered` are one page each of `FullLog`: any order, repetition or
omission of genuine entries, and with `MaxAltered` some changed ones (renumbered, rewritten,
rehashed, unsigned). `Verify` is one entry of `VerifyChain`; `Apply` one entry of
`apply`; `FetchFails` is a failed request. The notary can go on between
any two pages.

| run | shows |
| --- | --- |
| `log_mirror` | Against a mirror, with the database restored once and an entry changed: what is verified is one history the notary signed (`VerifiedIsSigned`), and the snapshot holds exactly the releases that stand in it (`SnapshotIsActive`). |
| `log_notary` | The notary answers itself but signs anything. A history that breaks the rules is refused (`HistoryIsSound`), nothing that was there from the start is missed (`SeesAllFromStart`), and a sound log is resolved in the end (`EndsWell`, under fairness). |
| `log_cycle` | Finding: a package withdrawn and published again can depend on what depends on it, and a verified snapshot holds the cycle. |

**Bounds.** Three entries are the fewest for publish, withdraw and a
dependent in between; the cycle needs four. Pages of at most two make every log
of three span pages. `MaxEntries` is 3, so that a log meets the limit exactly
and a page passes it. `MaxInt` is above every sequence number of an unaltered log.

**Fairness.** Requests are answered or time out (15 seconds in `client.go`), and
one process that is running is scheduled. Nothing is asked of the notary.

**Proved** (`TransparencyLogProofs`), without conditions, for any packages,
payloads, mirror and notary: `TypeCorrect`; `Invariant` (`IInv`: the log is a
history that was signed and so are its beginnings; every signature that arrives
is the notary's or none; the hash that `VerifyChain` carries stands for all
payloads so far; the releases are the replay of the part of the history that was
read); and from it `VerifiedChainIsSigned`, `SnapshotMeansHistory` and
`SnapshotHistoryIsSound`. That each *beginning* of the log was signed is needed
because a mirror may serve only a beginning, and a restored notary may sign a
second history from there. `IInv` contains `VerifiedIsSigned`, and is broken by the same
mistakes, so that the run checks only the latter.

Under `Undisturbed` (the notary answers itself and no backup is restored),
`PagesContinue` is `FetchedSoFar`, the invariant that `NothingIsMissed`
(`SeesAllFromStart`) follows from: as long as the number of entries received is the sequence number asked for next, an empty
page means the end of the log, which was at least as long when the reader began. A
mirror that withholds entries, and a restored database, make it false.

## 4. SwarmFold

**State.** A swarm of agents, objects, edges and options; where the invocation is;
and how many events were folded. A name is a root and instance numbers
(`coder#2` is `[root |-> coder, nums |-> <<2>>]`), so that membership in a group is
what `groupMember` decides on strings: `coder#1#1` is in the group of `coder#1` and
not in that of `coder`. Lists are sets, except that an agent knows its place: the
first agent of a group is the template of its instances.

**Actions.** One for each operation of `applyEvent`; `Refuse` for any precondition
that fails; `Emit`, `Resolve` and `ResolveFails` for the end of `cmdMaterialize`
(`resolveState`); `ParseCheckpoint` for the next invocation, which runs `Validate`
on what was printed. Events come one at a time, so every grouping into overlays
is covered.

**Abstract specification.** `SwarmRoles` sees roots only: how many nodes each
role has, and which roles are linked. A resize with at least one node left keeps
all links; a removal takes only links of its own role; no role is linked that is
not there.

| run | shows |
| --- | --- |
| `fold_materialize` | Three events of any kind on two seeds, with checkpoints and resolutions against four logs in between. Every state passes `Validate` (`ValidInBetween`); scaling to n and then m is scaling to m (`ScaleAbsorbs`); an agent that is added to a group under an instance's name leaves nothing of itself when the group is scaled (`JoinersAbsorbed`); an event changes nodes of one group only, and edges that end in it (`GroupLocal`); however a materialization ends, no pin is replaced (`PinsKept`), and a resolved state asks for one digest of each package (`ResolvedAgree`); `SwarmRoles` is implemented. |
| `fold_collision` | Finding: an object named `coder#1` and a scaled group `coder`; the emitted state cannot be parsed. |

**Bounds.** One seed is as authored, with a link to an object and one to itself;
the other is a checkpoint with two instances, of which one was bumped, and links
between instances. Names include an instance's and an instance of an instance.
Counts 0, 1 and 3 shrink, keep and grow a group. Three events are enough for the
combinations that interact (scale, add a member by hand, scale again). The logs
hold other bytes, another kind and nothing.

**What the code does that no property judges.** A rescale gives all instances
the template's slots and configuration, so that a bump of one instance is undone;
an edge between two instances becomes an edge from each to itself; a group
scaled to zero cannot be scaled again; an object named exactly like a scaled base
has its edges moved to the instances (`fanOutEdges` compares names only).

**Proved** (`SwarmFoldProofs`), for any seeds, names, payloads and logs:

- `TypeCorrect`: states keep their shape, and agents their own places (without
  which the template would not be determined).
- `ValidThroughout`: under `Apart`, no object has the root of an agent's name,
  `Spec => []ValidInBetween`. The invariant is `Sound`: typed, valid, and every node's
  root among those its kind can be given. Unique names alone are not inductive, since
  `scale_agent_group` makes names without looking; the roots exclude objects, and
  the group's removal excludes agents. `AlwaysSound` is that part alone. `fold_collision` shows that `Apart` is needed.
- `EventsAreLocal`: `GroupLocal`. Every operation stays `Within` the group of some
  name, and that name is found among the nodes that changed or their stems.
- `NoPinReplaced` and `OneDigestPerPackage`: `PinsKept` and `ResolvedAgree`; a
  resolved swarm is pinned to one log.

**Proved** (`SwarmRolesProofs`), under `Apart` and for seeds with finitely many nodes
(`DataAssumption`):

- `ScalingForgets`: `ScaleAbsorbs`. A scaled group is copies of its template, and
  `ScaledGroup` says which: the template of the copies is the template they were
  made from, the stem of their names is the base, and edges to the group are edges
  to its stem, so that fanning them out twice is fanning them out once. The places
  of the agents are all that differs. It needs that nothing else has a name in the
  group, which is `Sound`'s.
- `JoiningLeavesNothing`: `JoinersAbsorbed`. A new agent takes the last place of the
  list and the template is the first of its group (`JoinedGroup`), and an instance's
  edges are collapsed with the others'.
- `FoldIsRoles`: `ImplementsRoles`. Each operation maps to one step of `SwarmRoles` or
  to none: `scale_agent_group` to `Resize` of the root when instances are left, to
  `Lose` or `Leave` at zero; a removal to `Lose` or `Leave`, according to whether a
  node of that root remains. A role's size is the number of names with its root, so
  that names being unique and finitely many is part of the invariant.

## 5. ReleasePipeline

**State.** The working tree, the hosted repository's branches and tags, the
notary's releases, and the two programs: each invocation of `publish` with its
manifest, its place in the loop, the files listed and not yet hashed, the digest so
far, its request at the notary and what it printed; each fetch of `vendor` with its
clone, the files listed and not yet copied, and the stage. `madeBy` is history.

**Actions.** `ReadManifest`, `ListFiles`, `HashFile` (one file), `Post`, `Receive`,
`GiveUp` and `Finish` are `cmdPublish` with `HashDir` and `client.do`; `Notarize` and
`Refuse` the notary; `Fetch`, `FetchFails`, `ListCopies`, `CopyFile` (one file) and
`Land` the part of `vendorResolved` between an absent destination and the renamed
stage; `Edit`, `Push` and `MakeTag` a person. `GiveUp` is the client's timeout of
15 seconds, a lost connection or an answer that cannot be read: the request stays at
the notary and may still be notarized, while another invocation is running.

| run | shows |
| --- | --- |
| `release_pipeline` | What an invocation printed is what it published, and nothing more (`ReportedIsNotarized`); at most one release of an invocation is not printed, and it is the current one (`OneInDoubt`); an invocation adds nothing to a manifest and version of which another made the first release, so a partial publication is final (`RerunAddsNothing`); what lands has the notarized bytes, although source and copy go file by file (`LandedIsNotarized`); and a release from a tag is never refused for its content, unless it has files that are not regular (`TagsVendor`): the publisher's walk, the clone and `copyDir`'s walk agree, also in a root with a `.git`. `IInv` is the proofs' invariant. |

That a partial publication is final is what the loop does and what the mapped lines
say; no document of the repository promises otherwise. Somebody who meets it
publishes what is left with another manifest or under another version.

**Bounds.** Two invocations, one fetch, two packages of which one depends on the
other, at the root and below it; four paths: code, a link, a file below `.git`, an
ignored file; one edit, which is enough for a tree to be read half before and half
after it; three sources: local, a branch, a tag. Manifests: in order; in the reverse
order, with a directory that `packageRoot` refuses; with a name given twice.
Invocations are interchangeable. The system may stop (a consumer may never begin),
so that deadlock is not checked.

**Idealised.** A digest is the function from paths to bytes that was hashed. Files
are hashed in any order, the code's is one of them; a file is read at once. The
notary is the environment and as its protocol has it: it hashes the source itself,
requires dependencies, does not replace a release, and may refuse at will.
Withdrawals are in `TransparencyLog`, and path confinement (`os.Root`) is only the
condition that a directory is clean.

**Proved** (`ReleasePipelineProofs`), for any publishers, consumers, names, trees,
manifests and edits: `TypeCorrect`, `Invariance`, `PublishTellsTruth`,
`OnlyOneInDoubt`, `PartialIsFinal`, `LandingIsSound`, `TagsAreVendorable`. `IInv` adds
what each property needs to be inductive: where the request of an invocation can be
(`PublisherInv`: an accepted request is the current package's, and its release has
the digest that was claimed); that every release is among those its maker is done
with, or is the accepted request (`OwnerInv`); that a release from a tag has the
digest of the tag's tree, which no push moves (`ReleaseInv`); and that the stage is
the part of the clone copied so far (`ConsumerInv`).

## 6. SwarmDocument and SwarmFiles

**Data.** `SwarmDocument` has no variables. A JSON value is a pair of its type and
content; absent keys read as null, as Go's maps do. `GoodState`, `GoodRef`,
`GoodEvent` and so on are the parsers' refusals; `StateOf`, `RefOf`, ... what they
return; `StateToMap`, `RefToMap`, ... what `encode.go` writes; `Results` is
`applyEvent` for documents, `Pinned` is `resolveState`, and `SwarmidxRefs` lists what
`vendor` fetches. `Float` is what a `float64` makes of an integer.

**State and actions** (`SwarmFiles`). A `swarm.state` and a `swarm.overlay` on disk,
and what the running command has in memory. `AddAgent`, `AddObject` and `Bump` are
`add` and `bump`, with the self-check of `emitOverlay`; `WriteOverlay` a person;
`ReadState`, `ReadOverlay`, `FoldEvent`, `Resolve` and `Emit` are `cmdMaterialize`;
`ReadForVendor`, `Authenticate` and `HandOver` are `cmdVendor` up to `VendorAll`;
`Fail` is every error of both. `verify` and `manifest` parse and print.

**Abstract specification.** `SwarmMemory` has no files: a current state, and a copy of
it that is worked on event by event and then replaces it or is abandoned.
`ImplementsMemory` says that a state that went through any number of files and
commands is one that never left memory.

| run | shows |
| --- | --- |
| `document` | On three whole swarms and 44 damaged ones, with 22 overlays written by hand and those of `add` and `bump`: what would be written is parsed to the very state in memory (`CheckpointExact`); a backend keeps its reference, host, image, client and options, null and empty ones too, whatever is folded or pinned (`BackendKept`); configurations and options arrive as they were written or merged (`ConfigKept`); after authentication every package in any slot is in the list that is fetched and has its digest (`PackagesAuthenticated`); `SwarmMemory` is implemented. `IInv` is the proofs' invariant. |
| `document_numbers` | Finding: an odd integer above 2^53 is written as its neighbour. |

**Bounds.** The documents give every slot each form that the parser tells apart:
present, absent, null, empty, of a wrong type, with and without a scheme. Two
overlays are enough for one event to prepare another, in the same or in another
file. Three logs: as published; a body published again with other bytes; a handler
withdrawn and a policy become a handler. `Exact` stands for 2^53: it is 8, above the
numbers of `document` and below some of `document_numbers`.

**Idealised.** A string is an atom, with `Split` for the two halves at its colon.
Arrays of nodes and edges are sets, and the order of agents is left to `SwarmFold`.
`scale_agent_group` is parsed and validated here and folded in `SwarmFold` only
(`FileAssumption`). Values inside a configuration are kept as decoded and not looked
into, except numbers at the first level. One state file is given to `vendor`, and an
overlay is used once.

**What the code does that no property judges.** A digest or host that is no string is
dropped, where a kind or image is refused; so are options or a configuration that are
no object. `add` with the backend `ssh`, `tmux` or a content-addressable one is always
refused by its own self-check, because it gives no host, client or kind.

**Proved** (`SwarmFilesProofs`), for any documents, overlays, arguments and logs:
`RefRoundTrip`, `AgentRoundTrip`, `ObjectRoundTrip` and `StateRoundTrip` (what is sound is
parsed from what is written of it), `Invariance`, `TypeCorrect`, `CheckpointsAreExact`,
`PackagesAreAuthenticated` and `FilesAreMemory`. `IInv` says that a state in memory
satisfies all that the parser asked of the documents it came from (`SoundState`), which
every event and every pinning preserves; the round trip of a sound state then gives
the rest, and the refinement follows step by step: `Emit` is `Replace` because what
was written is parsed to what was in memory.

**Proved** (`SwarmKeptProofs`): `BackendsAreKept` (`BackendKept`) under
`ExactBackends(Documents)` and `ConfigsAreKept` (`ConfigKept`) under
`ExactConfigs(Documents)`. These say that documents and events are JSON values with
integers that float64 holds in backends, in configurations and in options;
`document_numbers` shows that the second is needed, and `NumbersAssumption` that the
documents of `document` satisfy both. The round trip is not enough for either, since a
parser could drop a key each time in the same way: the proofs compare what a
document states with what the reference read from it holds (`RefKeeps`), and show
that every file that was written is exact again (`BackendsIn`, `ConfigsIn`). Between
documents `Keeps` follows a node through one event or one pinning: it has the name, the
backend and the configuration of exactly one node before, or of the one that the
event adds; and `OptionsFollow` says the same of the swarm's options. `HandOver` needs `Vendored`: while `vendor` runs, its state is the file's,
pinned, so that it shows the file again and loses digests only.

## 7. Findings

Each is a violation run, listed in `PROJECT.json` with the line and the sentence
it contradicts: two of the vendor root (section 2), the dependency cycle
(section 3), the name collision (section 4) and the rounded numbers (section 6). They
are about robustness under interleaving, crashes and unusual data; the disciplines of
section 2 avoid `vendor_live_writer`, and `vendor_no_journal` needs a hand at the
pending directory.

## 8. Only model-checked

Liveness (`EventuallyUnblocked`, `EndsWell`) is out of the prover's reach: both need
fairness, hence `ENABLED`. Every other property of a passing run is stated by a
theorem. What a theorem assumes is part of its statement:

| hypothesis | of | without it |
| --- | --- | --- |
| `Attended` | the theorems about the vendor root, except `TypeCorrect` and `EditsArePreserved` | `vendor_live_writer`, and two recoveries of one journal (`NotAlone`, section 2) |
| `edits_pause` | `EditsArePreserved` | `NoPause` (section 2) |
| `Undisturbed` | `PagesContinue`, `NothingIsMissed` | a mirror may withhold the end of the log |
| `Apart` | `ValidThroughout`, `ScalingForgets`, `JoiningLeavesNothing`, `FoldIsRoles` | `fold_collision` |
| `ExactBackends`, `ExactConfigs` | `BackendsAreKept`, `ConfigsAreKept` | `document_numbers`; the options of a backend are decoded in the same way |

## 9. Not modelled

The canonical encoding of payloads and the JSON and SHA-256 computations; path
confinement (`os.Root`); git itself; power-cut durability; reuse of process
identifiers; case-folding filesystems; the 64 MiB limit of a log page; the commands
that change nothing and print (`log`, `resolve`, `verify`, `manifest`, `dirhash`) and flag
parsing; what only a live actuator does with the overlay fields `on_inflight`,
`migration` and `apply`, of which the parser's side is modelled. Liveness of `publish`:
the client's timeout ends every request, and the loop has as many turns as the
manifest has packages.

## 10. Plan

Done, in this order because the vendor root is where concurrency and crashes are:
VendorTransaction, TransparencyLog, SwarmFold, ReleasePipeline, SwarmDocument with
SwarmFiles, each with its runs and theorems. Left:

1. Composition of the log's snapshot with the vendor root: locks written by
   invocations that read the log at different times, with withdrawals between.
   `VendorTransaction` has the snapshots as a constant; the composition would
   draw them from a `TransparencyLog`.
2. Proofs about that composition: the snapshots that a `TransparencyLog` ends with
   are ones that `VendorTransaction` may be given, so that its theorems hold of it.
3. A weaker condition than `Attended` for `TreeIsLocked`: which of its two parts each
   step needs is visible in the proofs (`OneWriter` and `RecordInv`).
