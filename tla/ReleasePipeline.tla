-------------------------- MODULE ReleasePipeline --------------------------
(***************************************************************************)
(* The way of a package's bytes from a publisher's working tree through    *)
(* the notary into a consumer's vendor directory: "gsp publish"            *)
(* (Publishers: one invocation each), the notary, git, and the fetching    *)
(* half of "gsp vendor" (Consumers: one package each).  Meanwhile a person *)
(* edits the working tree, pushes and tags.                                *)
(*                                                                         *)
(* Everything is published as one version, so that a release is a package  *)
(* name.  A digest is ideal: it is the function from paths to bytes that   *)
(* was hashed.  The hashes of publishers and the copies of consumers go    *)
(* file by file, because the tree they read may change under them.         *)
(***************************************************************************)
EXTENDS Naturals, Sequences, FiniteSets

CONSTANTS
  Publishers,   \* invocations of cmdPublish
  Consumers,    \* calls of vendorResolved that find nothing at their destination
  Names,        \* package names
  Dirs,         \* directories of the source
  Roots,        \* those with a .git directory in them: the source's root, "."
  Paths,        \* paths in a package directory
  VcsPaths,     \* those below a directory named .git
  Untracked,    \* those git does not carry: ignored files, a worktree's .git file
  Bytes,        \* contents of a file
  VcsBytes,     \* what a fresh clone has in its .git
  Manifests,    \* what swarmidx.json may hold when it is read
  Branches,     \* names github://owner/repo@name of refs that move
  Tags,         \* and of refs that do not
  Trees,        \* working trees to begin with
  Changes,      \* <<directory, path, node>>: edits a person may make
  MaxChanges    \* bound on their number

Nothing == "nothing"      \* no bytes: a missing file, a dangling link
NoOne == "no one"         \* whose request made what is no release
Local == "local"          \* a local: source, the working tree itself
GitRefs == Branches \cup Tags
Sources == GitRefs \cup {Local}

(***************************************************************************)
(* A node of a tree.  "link" stands for all that is neither a regular file *)
(* nor a directory; its bytes are what opening it reads.                   *)
(***************************************************************************)
Node == [kind : {"gone", "file", "link"}, bytes : Bytes \cup {Nothing}]
Gone == [kind |-> "gone", bytes |-> Nothing]
Tree == [Paths -> Node]
Digests == [Paths -> Bytes \cup {Nothing}]
NoDigest == [p \in Paths |-> Nothing]
EmptyTree == [p \in Paths |-> Gone]

\* The paths both WalkDirs collect: all but those below a .git directory.
Listed(t) == {p \in Paths \ VcsPaths : t[p].kind # "gone"}
Regular(t) == \A p \in Listed(t) : t[p].kind = "file"
Digest(t) == [p \in Paths |-> IF p \in Listed(t) THEN t[p].bytes ELSE Nothing]

(***************************************************************************)
(* A package of a manifest.  Its "dir" is clean if packageRoot takes it: a *)
(* path as fs.ValidPath has it, without .git and symbolic links in it.     *)
(* HashDir opens the others too ("./a", "../b").                           *)
(***************************************************************************)
ValidKinds == {"body", "policy", "handler", "swarm"}
Package == [name : Names \cup {""}, dir : Dirs \cup {""}, clean : BOOLEAN,
            kind : ValidKinds \cup {"other"}, deps : SUBSET Names]
Manifest == [scope : BOOLEAN, packages : Seq(Package)]

ASSUME PathsAssumption ==
  /\ VcsPaths \subseteq Paths
  /\ Untracked \subseteq Paths
  /\ VcsBytes \in Bytes
  /\ Nothing \notin Bytes
  /\ Roots \subseteq Dirs
ASSUME RefsAssumption == Local \notin GitRefs /\ Branches \cap Tags = {}
ASSUME NamesAssumption == "" \notin Names \cup Dirs /\ NoOne \notin Publishers
ASSUME ManifestsAssumption == Manifests \subseteq Manifest
ASSUME TreesAssumption ==
  /\ Trees \subseteq [Dirs -> Tree]
  /\ Changes \subseteq Dirs \X Paths \X Node
  /\ MaxChanges \in Nat

VARIABLES
  work,      \* the working tree
  repo,      \* the refs of the hosted repository
  tagged,    \* the tags it has
  changes,   \* how many edits were made
  log,       \* the notary's releases
  madeBy,    \* history: the invocation whose request made a release
  pc,        \* of a publisher
  manifest,  \* of a publisher: m
  source,    \* of a publisher: --source
  at,        \* of a publisher: how many of its packages it has done with
  unread,    \* of a publisher: files listed and not yet hashed
  claim,     \* of a publisher: the digest
  request,   \* of a publisher: its last request, at the notary
  reported,  \* of a publisher: the releases it printed
  vpc,       \* of a consumer
  wanted,    \* of a consumer: the release it resolved
  clone,  \* of a consumer: the clone; a local source is read where it is
  uncopied,  \* of a consumer: files listed and not yet copied
  stage      \* of a consumer: .gsp-stage-*, and the package once it has landed

sourceVars == <<work, repo, tagged, changes>>
notaryVars == <<log, madeBy>>
publisherVars == <<pc, manifest, source, at, unread, claim, request, reported>>
consumerVars == <<vpc, wanted, clone, uncopied, stage>>
vars == <<sourceVars, notaryVars, publisherVars, consumerVars>>

Unpublished == [digest |-> NoDigest, source |-> Local, dir |-> "", clean |-> FALSE]
Release == [digest : Digests, source : Sources, dir : Dirs \cup {""}, clean : BOOLEAN]
Notarized == {n \in Names : madeBy[n] # NoOne}
NoManifest == [scope |-> FALSE, packages |-> <<>>]

\* What a commit of the working tree holds, and what a clone of it does.
Committed(w) ==
  [d \in Dirs |-> [p \in Paths |-> IF p \in VcsPaths \cup Untracked THEN Gone ELSE w[d][p]]]
Cloned(d, t) ==
  IF d \notin Roots THEN t
  ELSE [p \in Paths |-> IF p \in VcsPaths THEN [kind |-> "file", bytes |-> VcsBytes] ELSE t[p]]

Init ==
  /\ work \in Trees
  /\ repo = [r \in GitRefs |-> Committed(work)]
  /\ tagged = {}
  /\ changes = 0
  /\ log = [n \in Names |-> Unpublished]
  /\ madeBy = [n \in Names |-> NoOne]
  /\ pc = [p \in Publishers |-> "idle"]
  /\ manifest = [p \in Publishers |-> NoManifest]
  /\ source = [p \in Publishers |-> Local]
  /\ at = [p \in Publishers |-> 0]
  /\ unread = [p \in Publishers |-> {}]
  /\ claim = [p \in Publishers |-> NoDigest]
  /\ request = [p \in Publishers |-> "none"]
  /\ reported = [p \in Publishers |-> {}]
  /\ vpc = [c \in Consumers |-> "idle"]
  /\ wanted = [c \in Consumers |-> ""]
  /\ clone = [c \in Consumers |-> EmptyTree]
  /\ uncopied = [c \in Consumers |-> {}]
  /\ stage = [c \in Consumers |-> EmptyTree]

-----------------------------------------------------------------------------
(***************************************************************************)
(* The person at the working tree, and the hosted repository.              *)
(***************************************************************************)
Edit(d, p, node) ==
  /\ changes < MaxChanges
  /\ work[d][p] # node
  /\ work' = [work EXCEPT ![d] = [@ EXCEPT ![p] = node]]
  /\ changes' = changes + 1
  /\ UNCHANGED <<repo, tagged, notaryVars, publisherVars, consumerVars>>

Push(b) ==
  /\ repo[b] # Committed(work)
  /\ repo' = [repo EXCEPT ![b] = Committed(work)]
  /\ UNCHANGED <<work, tagged, changes, notaryVars, publisherVars, consumerVars>>

MakeTag(t) ==
  /\ t \notin tagged
  /\ repo' = [repo EXCEPT ![t] = Committed(work)]
  /\ tagged' = tagged \cup {t}
  /\ UNCHANGED <<work, changes, notaryVars, publisherVars, consumerVars>>

-----------------------------------------------------------------------------
(***************************************************************************)
(* cmdPublish.                                                             *)
(***************************************************************************)
Packages(p) == manifest[p].packages
Current(p) == Packages(p)[at[p] + 1]
Outstanding(p) == at[p] < Len(Packages(p))

\* manifest.Validate, package by package and all together.
ValidEach(m) ==
  /\ m.scope
  /\ \A i \in DOMAIN m.packages :
       /\ m.packages[i].name # ""
       /\ m.packages[i].dir # ""
       /\ m.packages[i].kind \in ValidKinds
Valid(m) ==
  /\ ValidEach(m)
  /\ \A i, j \in DOMAIN m.packages : m.packages[i].name = m.packages[j].name => i = j

ReadManifest(p, m, s) ==
  /\ pc[p] = "idle"
  /\ \/ /\ Valid(m)
        /\ manifest' = [manifest EXCEPT ![p] = m]
        /\ source' = [source EXCEPT ![p] = s]
        /\ pc' = [pc EXCEPT ![p] = "list"]
     \/ /\ ~Valid(m)
        /\ pc' = [pc EXCEPT ![p] = "failed"]
        /\ UNCHANGED <<manifest, source>>
  /\ UNCHANGED <<sourceVars, notaryVars, consumerVars, at, unread, claim, request, reported>>

\* The loop's head, and HashDir's WalkDir over the package's directory.
ListFiles(p) ==
  /\ pc[p] = "list"
  /\ Outstanding(p)
  /\ unread' = [unread EXCEPT ![p] = Listed(work[Current(p).dir])]
  /\ claim' = [claim EXCEPT ![p] = NoDigest]
  /\ pc' = [pc EXCEPT ![p] = "hash"]
  /\ UNCHANGED <<sourceVars, notaryVars, consumerVars, manifest, source, at, request, reported>>

\* Hash1 opens and reads the listed files one after the other (in the order of
\* their names; here in any).  A file that went away or a link to nothing is an
\* error, a link to a file is read through.
HashFile(p, f) ==
  LET node == work[Current(p).dir][f]
  IN /\ pc[p] = "hash"
     /\ f \in unread[p]
     /\ unread' = [unread EXCEPT ![p] = @ \ {f}]
     /\ claim' = [claim EXCEPT ![p] = [@ EXCEPT ![f] = node.bytes]]
     /\ pc' = [pc EXCEPT ![p] = IF node.bytes = Nothing THEN "failed" ELSE "hash"]
     /\ UNCHANGED <<sourceVars, notaryVars, consumerVars,
                    manifest, source, at, request, reported>>

\* client.Publish: the request is on its way.
Post(p) ==
  /\ pc[p] = "hash"
  /\ unread[p] = {}
  /\ request' = [request EXCEPT ![p] = "sent"]
  /\ pc' = [pc EXCEPT ![p] = "wait"]
  /\ UNCHANGED <<sourceVars, notaryVars, consumerVars,
                 manifest, source, at, unread, claim, reported>>

\* An answer with a status of 200 and above, below 300.
Answered(p) == request[p] # "sent"
Succeeded(p) == request[p] = "accepted"

\* What cmdPublish does after an error: it returns it and publishes no more.
NextPackage(p) ==
  /\ at' = [at EXCEPT ![p] = @ + 1]
  /\ request' = [request EXCEPT ![p] = "none"]
  /\ pc' = [pc EXCEPT ![p] = "list"]
Abort(p) ==
  /\ pc' = [pc EXCEPT ![p] = "failed"]
  /\ UNCHANGED <<at, request>>

\* do returns an error for every answer that is no success; cmdPublish prints
\* what a successful one says and goes on.
Receive(p) ==
  /\ pc[p] = "wait"
  /\ request[p] \in {"accepted", "refused"}
  /\ \/ /\ Succeeded(p)
        /\ reported' = [reported EXCEPT ![p] = @ \cup {<<Current(p).name, claim[p]>>}]
        /\ NextPackage(p)
     \/ /\ ~Succeeded(p)
        /\ Abort(p)
        /\ UNCHANGED reported
  /\ UNCHANGED <<sourceVars, notaryVars, consumerVars, manifest, source, unread, claim>>

\* http.Client's Timeout, a lost connection, an answer that cannot be read: the
\* notary may have processed the request, or may do so later.
GiveUp(p) ==
  /\ pc[p] = "wait"
  /\ Abort(p)
  /\ UNCHANGED <<sourceVars, notaryVars, consumerVars,
                 manifest, source, unread, claim, reported>>

Finish(p) ==
  /\ pc[p] = "list"
  /\ ~Outstanding(p)
  /\ pc' = [pc EXCEPT ![p] = "done"]
  /\ UNCHANGED <<sourceVars, notaryVars, consumerVars,
                 manifest, source, at, unread, claim, request, reported>>

-----------------------------------------------------------------------------
(***************************************************************************)
(* The notary.  It hashes the source itself, requires the dependencies,    *)
(* never replaces a release, and may refuse for reasons of its own.        *)
(***************************************************************************)
Available(s) == s \in Tags => s \in tagged
SourceTree(s, d) == IF s = Local THEN work[d] ELSE Cloned(d, repo[s][d])

Notarize(p) ==
  LET n == Current(p).name
      tree == SourceTree(source[p], Current(p).dir)
  IN /\ request[p] = "sent"
     /\ n \notin Notarized
     /\ Current(p).deps \subseteq Notarized
     /\ Available(source[p])
     /\ Digest(tree) = claim[p]
     /\ log' = [log EXCEPT ![n] = [digest |-> claim[p], source |-> source[p],
                                   dir |-> Current(p).dir, clean |-> Current(p).clean]]
     /\ madeBy' = [madeBy EXCEPT ![n] = p]
     /\ request' = [request EXCEPT ![p] = "accepted"]
     /\ UNCHANGED <<sourceVars, consumerVars,
                    pc, manifest, source, at, unread, claim, reported>>

Refuse(p) ==
  /\ request[p] = "sent"
  /\ request' = [request EXCEPT ![p] = "refused"]
  /\ UNCHANGED <<sourceVars, notaryVars, consumerVars,
                 pc, manifest, source, at, unread, claim, reported>>

-----------------------------------------------------------------------------
(***************************************************************************)
(* vendorResolved, from the resolved release to the renamed stage.         *)
(***************************************************************************)
Resolved(c) == log[wanted[c]]
Handle(c) == IF Resolved(c).source = Local THEN work[Resolved(c).dir] ELSE clone[c]

\* "git clone --branch": the named ref, not the one the repository opens with.
CheckoutHead(s, d) == Cloned(d, repo[CHOOSE b \in Branches : TRUE][d])
Checkout(s, d) == Cloned(d, repo[s][d])

\* checkout and packageRoot: a clone, or a handle on the local directory.
Fetch(c, n) ==
  /\ vpc[c] = "idle"
  /\ n \in Notarized
  /\ wanted' = [wanted EXCEPT ![c] = n]
  /\ clone' = [clone EXCEPT ![c] =
       IF log[n].source = Local \/ ~log[n].clean THEN EmptyTree
       ELSE Checkout(log[n].source, log[n].dir)]
  /\ vpc' = [vpc EXCEPT ![c] = IF log[n].clean THEN "list" ELSE "unsafe"]
  /\ UNCHANGED <<sourceVars, notaryVars, publisherVars, uncopied, stage>>

\* git fails, or local sources are not allowed.
FetchFails(c) ==
  /\ vpc[c] = "idle"
  /\ Notarized # {}
  /\ vpc' = [vpc EXCEPT ![c] = "unfetched"]
  /\ UNCHANGED <<sourceVars, notaryVars, publisherVars, wanted, clone, uncopied, stage>>

\* copyDir's WalkDir reads the directory ...
ListCopies(c) ==
  /\ vpc[c] = "list"
  /\ uncopied' = [uncopied EXCEPT ![c] = Listed(Handle(c))]
  /\ vpc' = [vpc EXCEPT ![c] = "copy"]
  /\ UNCHANGED <<sourceVars, notaryVars, publisherVars, wanted, clone, stage>>

\* ... and copies one file after the other, if it is a regular one (Lstat, and
\* Stat once it is open).
Openable(node) == node.bytes # Nothing
Copyable(node) == node.kind = "file"
CopyFile(c, f) ==
  LET node == Handle(c)[f]
  IN /\ vpc[c] = "copy"
     /\ f \in uncopied[c]
     /\ uncopied' = [uncopied EXCEPT ![c] = @ \ {f}]
     /\ \/ /\ Copyable(node)
           /\ stage' = [stage EXCEPT ![c] = [@ EXCEPT ![f] = node]]
           /\ UNCHANGED <<vpc, clone>>
        \/ /\ ~Copyable(node)
           /\ stage' = [stage EXCEPT ![c] = EmptyTree]
           /\ clone' = [clone EXCEPT ![c] = EmptyTree]
           /\ vpc' = [vpc EXCEPT ![c] = "irregular"]
     /\ UNCHANGED <<sourceVars, notaryVars, publisherVars, wanted>>

Unchecked(c) == Resolved(c).digest
HashOfCopy(c) == Digest(stage[c])

\* HashFS over the stage, which nobody else writes, the comparison, and Rename.
\* A failure removes the stage, and every end the clone.
Land(c) ==
  /\ vpc[c] = "copy"
  /\ uncopied[c] = {}
  /\ \/ /\ HashOfCopy(c) = Resolved(c).digest
        /\ vpc' = [vpc EXCEPT ![c] = "landed"]
        /\ UNCHANGED stage
     \/ /\ HashOfCopy(c) # Resolved(c).digest
        /\ vpc' = [vpc EXCEPT ![c] = "mismatch"]
        /\ stage' = [stage EXCEPT ![c] = EmptyTree]
  /\ clone' = [clone EXCEPT ![c] = EmptyTree]
  /\ UNCHANGED <<sourceVars, notaryVars, publisherVars, wanted, uncopied>>

-----------------------------------------------------------------------------
Person ==
  \/ \E change \in Changes : Edit(change[1], change[2], change[3])
  \/ \E b \in Branches : Push(b)
  \/ \E t \in Tags : MakeTag(t)

Publish(p) ==
  \/ ListFiles(p)
  \/ \E f \in Paths : HashFile(p, f)
  \/ Post(p)
  \/ Receive(p)
  \/ GiveUp(p)
  \/ Finish(p)

Notary(p) == Notarize(p) \/ Refuse(p)

Vendor(c) ==
  \/ ListCopies(c)
  \/ \E f \in Paths : CopyFile(c, f)
  \/ Land(c)

Next ==
  \/ Person
  \/ \E p \in Publishers :
       \/ \E m \in Manifests, s \in Sources : ReadManifest(p, m, s)
       \/ Publish(p)
       \/ Notary(p)
  \/ \E c \in Consumers :
       \/ \E n \in Names : Fetch(c, n)
       \/ FetchFails(c)
       \/ Vendor(c)

Spec == Init /\ [][Next]_vars

-----------------------------------------------------------------------------
(***************************************************************************)
(* Properties.                                                             *)
(***************************************************************************)

\* What an invocation works through has a name and a directory for each package,
\* and no name twice.
Publishable(m) ==
  /\ \A i \in DOMAIN m.packages : m.packages[i].name \in Names /\ m.packages[i].dir \in Dirs
  /\ \A i, j \in DOMAIN m.packages : m.packages[i].name = m.packages[j].name => i = j

\* Every variable has its type; the manifest of an invocation is a valid one
\* (manifest.go, Validate).
TypeOK ==
  /\ work \in [Dirs -> Tree]
  /\ repo \in [GitRefs -> [Dirs -> Tree]]
  /\ tagged \subseteq Tags
  /\ changes \in 0..MaxChanges
  /\ log \in [Names -> Release]
  /\ madeBy \in [Names -> Publishers \cup {NoOne}]
  /\ pc \in [Publishers -> {"idle", "list", "hash", "wait", "done", "failed"}]
  /\ manifest \in [Publishers -> {m \in Manifests \cup {NoManifest} : Publishable(m)}]
  /\ source \in [Publishers -> Sources]
  /\ at \in [Publishers -> Nat]
  /\ unread \in [Publishers -> SUBSET Paths]
  /\ claim \in [Publishers -> Digests]
  /\ request \in [Publishers -> {"none", "sent", "accepted", "refused"}]
  /\ reported \in [Publishers -> SUBSET (Names \X Digests)]
  /\ vpc \in [Consumers -> {"idle", "unfetched", "unsafe", "list", "copy",
                            "irregular", "mismatch", "landed"}]
  /\ wanted \in [Consumers -> Names \cup {""}]
  /\ clone \in [Consumers -> Tree]
  /\ uncopied \in [Consumers -> SUBSET Paths]
  /\ stage \in [Consumers -> Tree]

NameAt(p, i) == Packages(p)[i].name

ReportedBy(p) ==
  /\ reported[p] = {<<NameAt(p, i), log[NameAt(p, i)].digest>> : i \in 1..at[p]}
  /\ \A i \in 1..at[p] : madeBy[NameAt(p, i)] = p

\* What publish printed is what it published: for each package it is done with,
\* the release it made and that release's digest, and nothing else, whatever
\* answers were lost (main.go, the loop of cmdPublish; client.go, do).
ReportedIsNotarized == \A p \in Publishers : ReportedBy(p)

\* Of what an invocation put into the log at most one release is not printed: the
\* one whose request it gave up on, or waits for (client.go, the Timeout).
OneInDoubt ==
  \A n \in Notarized :
    LET p == madeBy[n]
    IN \/ <<n, log[n].digest>> \in reported[p]
       \/ /\ pc[p] \in {"wait", "failed"}
          /\ Outstanding(p)
          /\ n = Current(p).name

\* An invocation adds to the log only if its first package is its own release or
\* not yet one.  So the releases of one manifest and version all come from one
\* invocation, and a partial publication cannot be completed by another
\* (main.go, the loop of cmdPublish returns the first error).
RerunAddsNothing ==
  [][\A n \in Names : madeBy'[n] # madeBy[n] =>
       madeBy[NameAt(madeBy'[n], 1)] \in {NoOne, madeBy'[n]}]_vars

\* What lands are the notarized bytes in regular files and nothing from .git,
\* although the source may change while it is copied (vendorer.go, the hash is
\* that of the stage).
LandedIsNotarized ==
  \A c \in Consumers : vpc[c] = "landed" =>
    /\ wanted[c] \in Notarized
    /\ Digest(stage[c]) = Resolved(c).digest
    /\ \A f \in Paths : stage[c][f].kind = "file" => f \notin VcsPaths
    /\ \A f \in Paths : stage[c][f].kind \in {"gone", "file"}

TagVends(c) ==
  vpc[c] \in {"irregular", "mismatch"} /\ Resolved(c).source \in Tags =>
    ~Regular(repo[Resolved(c).source][Resolved(c).dir])

\* A release made from a tag can be vendored, however the working tree and the
\* branches have changed, unless it has files that are not regular: HashDir, the
\* notary and copyDir with HashFS agree on what a package's content is.
TagsVendor == \A c \in Consumers : TagVends(c)

-----------------------------------------------------------------------------
(***************************************************************************)
(* What an induction over the steps needs: where a publisher is, what the  *)
(* log owes to whom, what the releases say of the repository, and how far  *)
(* a copy has got.                                                         *)
(***************************************************************************)
PublisherInv(p) ==
  /\ pc[p] = "idle" => manifest[p] = NoManifest /\ at[p] = 0
  /\ at[p] <= Len(Packages(p))
  /\ pc[p] = "hash" => Outstanding(p)
  /\ request[p] # "none" => pc[p] \in {"wait", "failed"} /\ Outstanding(p)
  /\ pc[p] = "wait" => request[p] # "none"
  /\ request[p] = "accepted" =>
       /\ madeBy[NameAt(p, at[p] + 1)] = p
       /\ log[NameAt(p, at[p] + 1)].digest = claim[p]

OwnerInv(n) ==
  n \in Notarized =>
    \/ \E i \in 1..at[madeBy[n]] : n = NameAt(madeBy[n], i)
    \/ /\ request[madeBy[n]] = "accepted"
       /\ n = NameAt(madeBy[n], at[madeBy[n]] + 1)

TagTree(n) == Cloned(log[n].dir, repo[log[n].source][log[n].dir])
ReleaseInv(n) ==
  n \in Notarized =>
    /\ log[n].dir \in Dirs
    /\ log[n].source \in Tags => log[n].source \in tagged /\ log[n].digest = Digest(TagTree(n))

Copied(c, f) == f \in Listed(clone[c]) \ uncopied[c]
ConsumerInv(c) ==
  /\ vpc[c] \notin {"idle", "unfetched"} => wanted[c] \in Notarized
  /\ uncopied[c] \cap VcsPaths = {}
  /\ \A f \in Paths :
       /\ stage[c][f].kind \in {"gone", "file"}
       /\ stage[c][f].kind = "file" => f \notin VcsPaths
  /\ vpc[c] \in {"idle", "list"} => stage[c] = EmptyTree
  /\ vpc[c] = "landed" => Digest(stage[c]) = Resolved(c).digest
  /\ vpc[c] \in {"list", "copy"} /\ Resolved(c).source \in Tags => clone[c] = TagTree(wanted[c])
  /\ vpc[c] = "copy" /\ Resolved(c).source \in Tags =>
       /\ uncopied[c] \subseteq Listed(clone[c])
       /\ \A f \in Paths : stage[c][f] = IF Copied(c, f) THEN clone[c][f] ELSE Gone

IInv ==
  /\ TypeOK
  /\ \A p \in Publishers : PublisherInv(p)
  /\ \A n \in Names : OwnerInv(n) /\ ReleaseInv(n)
  /\ ReportedIsNotarized
  /\ \A c \in Consumers : ConsumerInv(c)
  /\ TagsVendor

=============================================================================
