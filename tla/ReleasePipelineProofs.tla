----------------------- MODULE ReleasePipelineProofs -----------------------
(***************************************************************************)
(* What holds of ReleasePipeline for any manifests, any number of          *)
(* invocations and of calls, any edits, and whatever the notary refuses.   *)
(***************************************************************************)
EXTENDS ReleasePipeline, TLAPS

-----------------------------------------------------------------------------
(* Types                                                                   *)

\* An invocation that has read no valid manifest has no packages.
LEMMA ManifestType ==
  ASSUME TypeOK, NEW p \in Publishers
  PROVE  /\ Packages(p) \in Seq(Package)
         /\ Len(Packages(p)) \in Nat
         /\ DOMAIN Packages(p) = 1..Len(Packages(p))
         /\ Publishable(manifest[p])
<1>0. manifest[p] \in Manifests \cup {NoManifest} /\ Publishable(manifest[p])
  BY DEF TypeOK
<1>1. CASE manifest[p] = NoManifest
  <2>1. Packages(p) = <<>>
    BY <1>1 DEF Packages, NoManifest
  <2>2. QED
    BY <1>0, <2>1
<1>2. CASE manifest[p] \in Manifests
  <2>1. manifest[p] \in Manifest
    BY <1>2, ManifestsAssumption
  <2>2. manifest[p].packages \in Seq(Package)
    BY <2>1 DEF Manifest
  <2>3. Packages(p) \in Seq(Package)
    BY <2>2 DEF Packages
  <2>4. QED
    BY <1>0, <1>2, <2>3
<1>3. QED
  BY <1>0, <1>1, <1>2

\* A package that an invocation is at or has done with has a name and a
\* directory, because the manifest is valid.
LEMMA PackageType ==
  ASSUME TypeOK, NEW p \in Publishers, NEW i \in 1..Len(Packages(p))
  PROVE  /\ Packages(p)[i] \in Package
         /\ NameAt(p, i) \in Names
         /\ Packages(p)[i].dir \in Dirs
         /\ Packages(p)[i].clean \in BOOLEAN
         /\ Packages(p)[i].deps \subseteq Names
         /\ \A j \in 1..Len(Packages(p)) : NameAt(p, i) = NameAt(p, j) => i = j
<1>1. Publishable(manifest[p])
  BY ManifestType
<1>2. Packages(p) \in Seq(Package) /\ DOMAIN Packages(p) = 1..Len(Packages(p))
  BY ManifestType
<1>3. Packages(p)[i] \in Package
  BY <1>2
<1>4. /\ \A j \in DOMAIN Packages(p) : Packages(p)[j].name \in Names /\ Packages(p)[j].dir \in Dirs
      /\ \A j, k \in DOMAIN Packages(p) : Packages(p)[j].name = Packages(p)[k].name => j = k
  BY <1>1 DEF Publishable, Packages
<1>5. /\ Packages(p)[i].name \in Names /\ Packages(p)[i].dir \in Dirs
      /\ \A j \in 1..Len(Packages(p)) : NameAt(p, i) = NameAt(p, j) => i = j
  BY <1>2, <1>4 DEF NameAt
<1>6. QED
  BY <1>3, <1>5 DEF Package, NameAt

\* The package an invocation is at.
LEMMA CurrentType ==
  ASSUME TypeOK, NEW p \in Publishers, Outstanding(p)
  PROVE  /\ at[p] + 1 \in 1..Len(Packages(p))
         /\ Len(Packages(p)) \in Nat
         /\ Current(p) \in Package
         /\ Current(p).name = NameAt(p, at[p] + 1)
         /\ Current(p).name \in Names
         /\ Current(p).dir \in Dirs
         /\ Current(p).clean \in BOOLEAN
         /\ Current(p).deps \subseteq Names
<1>1. at[p] \in Nat /\ Len(Packages(p)) \in Nat
  BY ManifestType DEF TypeOK
<1>2. at[p] + 1 \in 1..Len(Packages(p))
  BY <1>1 DEF Outstanding
<1>3. QED
  BY <1>1, <1>2, PackageType DEF Current, NameAt

LEMMA DigestType ==
  ASSUME NEW t \in Tree
  PROVE  Digest(t) \in Digests
<1>1. \A p \in Paths : t[p].bytes \in Bytes \cup {Nothing}
  BY DEF Tree, Node
<1>2. QED
  BY <1>1 DEF Digest, Digests

LEMMA TreeTypes ==
  /\ Gone \in Node
  /\ EmptyTree \in Tree
  /\ NoDigest \in Digests
BY DEF Gone, Node, EmptyTree, Tree, NoDigest, Digests

LEMMA ClonedType ==
  ASSUME NEW t \in Tree, NEW d
  PROVE  Cloned(d, t) \in Tree
<1>1. [kind |-> "file", bytes |-> VcsBytes] \in Node
  BY PathsAssumption DEF Node
<1>2. QED
  BY <1>1 DEF Cloned, Tree

LEMMA CommittedType ==
  ASSUME NEW w \in [Dirs -> Tree]
  PROVE  Committed(w) \in [Dirs -> Tree]
<1>1. \A d \in Dirs, p \in Paths : w[d][p] \in Node
  BY DEF Tree
<1>2. QED
  BY <1>1, TreeTypes DEF Committed, Tree

\* A clone's listing is that of the commit it was made from.
LEMMA ClonedListing ==
  ASSUME NEW t \in Tree, NEW d
  PROVE  /\ Listed(Cloned(d, t)) = Listed(t)
         /\ Regular(Cloned(d, t)) <=> Regular(t)
<1>1. \A p \in Paths \ VcsPaths : Cloned(d, t)[p] = t[p]
  BY DEF Cloned, Tree
<1>2. QED
  BY <1>1 DEF Listed, Regular

-----------------------------------------------------------------------------
(* Type correctness                                                        *)

THEOREM InitInv == Init => IInv
<1> SUFFICES ASSUME Init PROVE IInv
  OBVIOUS
<1>1. Committed(work) \in [Dirs -> Tree]
  BY TreesAssumption, CommittedType DEF Init
<1>2. /\ work \in [Dirs -> Tree]
      /\ repo \in [GitRefs -> [Dirs -> Tree]]
      /\ tagged \subseteq Tags
      /\ changes \in 0..MaxChanges
  <2>1. /\ work \in [Dirs -> Tree]
        /\ repo \in [GitRefs -> [Dirs -> Tree]]
        /\ tagged = {} /\ changes = 0
    BY <1>1, TreesAssumption DEF Init
  <2>2. 0 \in 0..MaxChanges
    BY TreesAssumption
  <2>3. QED
    BY <2>1, <2>2
<1>3. /\ log \in [Names -> Release]
      /\ madeBy \in [Names -> Publishers \cup {NoOne}]
  BY TreeTypes DEF Init, Unpublished, Release, Sources
<1>0. Publishable(NoManifest)
  BY DEF Publishable, NoManifest
<1>4. /\ pc \in [Publishers -> {"idle", "list", "hash", "wait", "done", "failed"}]
      /\ manifest \in [Publishers -> {m \in Manifests \cup {NoManifest} : Publishable(m)}]
      /\ source \in [Publishers -> Sources]
      /\ at \in [Publishers -> Nat]
      /\ unread \in [Publishers -> SUBSET Paths]
      /\ claim \in [Publishers -> Digests]
      /\ request \in [Publishers -> {"none", "sent", "accepted", "refused"}]
      /\ reported \in [Publishers -> SUBSET (Names \X Digests)]
  BY <1>0, TreeTypes DEF Init, Sources
<1>5. /\ vpc \in [Consumers -> {"idle", "unfetched", "unsafe", "list", "copy",
                                "irregular", "mismatch", "landed"}]
      /\ wanted \in [Consumers -> Names \cup {""}]
      /\ clone \in [Consumers -> Tree]
      /\ uncopied \in [Consumers -> SUBSET Paths]
      /\ stage \in [Consumers -> Tree]
  BY TreeTypes DEF Init
<1>6. TypeOK
  BY <1>2, <1>3, <1>4, <1>5 DEF TypeOK
<1>7. \A p \in Publishers : at[p] = 0 /\ request[p] = "none" /\ pc[p] = "idle"
                            /\ manifest[p] = NoManifest /\ reported[p] = {}
  BY DEF Init
<1>8. \A p \in Publishers : PublisherInv(p)
  BY <1>6, <1>7, ManifestType DEF PublisherInv
<1>9. Notarized = {}
  BY DEF Init, Notarized
<1>10. ReportedIsNotarized
  BY <1>7 DEF ReportedIsNotarized, ReportedBy
<1>11. \A c \in Consumers : vpc[c] = "idle" /\ uncopied[c] = {} /\ stage[c] = EmptyTree
  BY DEF Init
<1>12. TagsVendor
  BY <1>11 DEF TagsVendor, TagVends
<1>13. \A c \in Consumers : \A f \in Paths : stage[c][f].kind = "gone"
  BY <1>11 DEF EmptyTree, Gone
<1>14. \A c \in Consumers : ConsumerInv(c)
  BY <1>11, <1>13 DEF ConsumerInv
<1>15. \A n \in Names : OwnerInv(n) /\ ReleaseInv(n)
  BY <1>9 DEF OwnerInv, ReleaseInv
<1>16. QED
  BY <1>6, <1>8, <1>10, <1>12, <1>14, <1>15 DEF IInv

\* The variables that the steps of one side leave alone.
LEMMA PersonTypes ==
  ASSUME TypeOK, Person
  PROVE  TypeOK'
<1>1. CASE \E change \in Changes : Edit(change[1], change[2], change[3])
  <2>1. PICK change \in Changes : Edit(change[1], change[2], change[3])
    BY <1>1
  <2>2. change \in Dirs \X Paths \X Node
    BY TreesAssumption
  <2>3. work' \in [Dirs -> Tree]
    BY <2>1, <2>2 DEF Edit, TypeOK, Tree
  <2>4. changes' \in 0..MaxChanges
    <3>1. /\ MaxChanges \in Nat /\ changes \in 0..MaxChanges
          /\ changes < MaxChanges /\ changes' = changes + 1
      BY <2>1, TreesAssumption DEF Edit, TypeOK
    <3>2. QED
      BY <3>1
  <2>5. QED
    BY <2>1, <2>3, <2>4 DEF Edit, TypeOK, notaryVars, publisherVars, consumerVars
<1>2. CASE \E b \in Branches : Push(b)
  BY <1>2, CommittedType
    DEF Push, TypeOK, GitRefs, notaryVars, publisherVars, consumerVars
<1>3. CASE \E t \in Tags : MakeTag(t)
  BY <1>3, CommittedType
    DEF MakeTag, TypeOK, GitRefs, notaryVars, publisherVars, consumerVars
<1>4. QED
  BY <1>1, <1>2, <1>3 DEF Person

LEMMA PublishTypes ==
  ASSUME TypeOK, NEW p \in Publishers, PublisherInv(p), Publish(p)
  PROVE  TypeOK'
<1> USE DEF sourceVars, notaryVars, consumerVars
<1>1. CASE ListFiles(p)
  <2>1. Listed(work[Current(p).dir]) \subseteq Paths
    BY DEF Listed
  <2>2. QED
    BY <1>1, <2>1, TreeTypes DEF ListFiles, TypeOK
<1>2. ASSUME NEW f \in Paths, HashFile(p, f)
      PROVE  TypeOK'
  <2>1. work[Current(p).dir][f].bytes \in Bytes \cup {Nothing}
    <3>1. Current(p).dir \in Dirs
      BY <1>2, CurrentType DEF HashFile, PublisherInv
    <3>2. work[Current(p).dir] \in Tree
      BY <3>1 DEF TypeOK
    <3>3. QED
      BY <3>2 DEF Tree, Node
  <2>2. claim' \in [Publishers -> Digests]
    BY <1>2, <2>1 DEF HashFile, TypeOK, Digests
  <2>3. unread' \in [Publishers -> SUBSET Paths]
    BY <1>2 DEF HashFile, TypeOK
  <2>4. pc' \in [Publishers -> {"idle", "list", "hash", "wait", "done", "failed"}]
    BY <1>2 DEF HashFile, TypeOK
  <2>5. QED
    BY <1>2, <2>2, <2>3, <2>4 DEF HashFile, TypeOK
<1>3. CASE Post(p)
  BY <1>3 DEF Post, TypeOK
<1>4. CASE Receive(p)
  <2>1. <<Current(p).name, claim[p]>> \in Names \X Digests
    BY <1>4, CurrentType DEF Receive, Succeeded, NextPackage, Abort, PublisherInv, TypeOK
  <2>2. UNCHANGED <<sourceVars, notaryVars, consumerVars, manifest, source, unread, claim>>
    BY <1>4 DEF Receive, Succeeded, NextPackage, Abort
  <2>3. CASE request[p] = "accepted"
    <3>1. /\ reported' = [reported EXCEPT ![p] = @ \cup {<<Current(p).name, claim[p]>>}]
          /\ at' = [at EXCEPT ![p] = @ + 1]
          /\ request' = [request EXCEPT ![p] = "none"]
          /\ pc' = [pc EXCEPT ![p] = "list"]
      BY <1>4, <2>3 DEF Receive, Succeeded, NextPackage, Abort
    <3>2. reported' \in [Publishers -> SUBSET (Names \X Digests)]
      BY <3>1, <2>1 DEF TypeOK
    <3>3. at' \in [Publishers -> Nat]
      <4>1. at \in [Publishers -> Nat]
        BY DEF TypeOK
      <4>2. at[p] + 1 \in Nat
        BY <4>1
      <4>3. QED
        BY <3>1, <4>1, <4>2
    <3>4. QED
      BY <2>2, <3>1, <3>2, <3>3 DEF TypeOK
  <2>4. CASE request[p] = "refused"
    BY <1>4, <2>2, <2>4 DEF Receive, Succeeded, NextPackage, Abort, TypeOK
  <2>5. QED
    BY <1>4, <2>3, <2>4 DEF Receive, Succeeded, NextPackage, Abort
<1>5. CASE GiveUp(p)
  BY <1>5 DEF GiveUp, Abort, TypeOK
<1>6. CASE Finish(p)
  BY <1>6 DEF Finish, TypeOK
<1>7. QED
  BY <1>1, <1>2, <1>3, <1>4, <1>5, <1>6 DEF Publish

LEMMA NotaryTypes ==
  ASSUME TypeOK, NEW p \in Publishers, PublisherInv(p), Notary(p)
  PROVE  TypeOK'
<1>1. CASE Notarize(p)
  <2>1. Outstanding(p)
    BY <1>1 DEF Notarize, PublisherInv
  <2>2. /\ Current(p).name \in Names /\ Current(p).dir \in Dirs
        /\ Current(p).clean \in BOOLEAN
        /\ claim[p] \in Digests /\ source[p] \in Sources
    BY <2>1, CurrentType DEF TypeOK
  <2>3. [digest |-> claim[p], source |-> source[p],
         dir |-> Current(p).dir, clean |-> Current(p).clean] \in Release
    BY <2>2 DEF Release
  <2>4. log' \in [Names -> Release]
    BY <1>1, <2>2, <2>3 DEF Notarize, TypeOK
  <2>5. /\ madeBy' \in [Names -> Publishers \cup {NoOne}]
        /\ request' \in [Publishers -> {"none", "sent", "accepted", "refused"}]
    BY <1>1, <2>2 DEF Notarize, TypeOK
  <2>6. QED
    BY <1>1, <2>4, <2>5 DEF Notarize, TypeOK, sourceVars, consumerVars
<1>2. CASE Refuse(p)
  BY <1>2 DEF Refuse, TypeOK, sourceVars, notaryVars, consumerVars
<1>3. QED
  BY <1>1, <1>2 DEF Notary

\* What Validate accepts can be worked through.
LEMMA ValidPublishable ==
  ASSUME NEW m \in Manifests, Valid(m)
  PROVE  Publishable(m)
<1>1. m \in Manifest
  BY ManifestsAssumption
<1>2. m.packages \in Seq(Package)
  BY <1>1 DEF Manifest
<1>3. \A i \in DOMAIN m.packages : m.packages[i] \in Package
  BY <1>2
<1>4. QED
  BY <1>3 DEF Valid, ValidEach, Publishable, Package

LEMMA ReadTypes ==
  ASSUME TypeOK, NEW p \in Publishers, NEW m \in Manifests, NEW s \in Sources,
         ReadManifest(p, m, s)
  PROVE  TypeOK'
<1>1. UNCHANGED <<sourceVars, notaryVars, consumerVars, at, unread, claim, request, reported>>
  BY DEF ReadManifest
<1>2. CASE Valid(m)
  <2>1. manifest' \in [Publishers -> {x \in Manifests \cup {NoManifest} : Publishable(x)}]
    <3>1. manifest' = [manifest EXCEPT ![p] = m]
      BY <1>2 DEF ReadManifest
    <3>2. Publishable(m)
      BY <1>2, ValidPublishable
    <3>3. QED
      BY <3>1, <3>2 DEF TypeOK
  <2>2. source' \in [Publishers -> Sources]
    BY <1>2 DEF ReadManifest, TypeOK
  <2>3. pc' \in [Publishers -> {"idle", "list", "hash", "wait", "done", "failed"}]
    <3>1. pc' = [pc EXCEPT ![p] = "list"]
      BY <1>2 DEF ReadManifest
    <3>2. QED
      BY <3>1 DEF TypeOK
  <2>4. QED
    BY <1>1, <2>1, <2>2, <2>3 DEF TypeOK, sourceVars, notaryVars, consumerVars
<1>3. CASE ~Valid(m)
  BY <1>1, <1>3 DEF ReadManifest, TypeOK, sourceVars, notaryVars, consumerVars
<1>4. QED
  BY <1>2, <1>3

\* What a release says of its source.
LEMMA SourceType ==
  ASSUME TypeOK, NEW d \in Dirs, NEW s \in Sources
  PROVE  SourceTree(s, d) \in Tree
<1>1. CASE s = Local
  BY <1>1 DEF SourceTree, TypeOK
<1>2. CASE s \in GitRefs
  <2>1. repo[s][d] \in Tree
    BY <1>2 DEF TypeOK
  <2>2. QED
    BY <1>2, <2>1, ClonedType, RefsAssumption DEF SourceTree
<1>3. QED
  BY <1>1, <1>2 DEF Sources

LEMMA FetchTypes ==
  ASSUME TypeOK, NEW c \in Consumers, NEW n \in Names, ReleaseInv(n), Fetch(c, n)
  PROVE  TypeOK'
<1>1. log[n].dir \in Dirs /\ log[n].source \in Sources
  BY DEF ReleaseInv, Fetch, Checkout, TypeOK, Release
<1>2. clone' \in [Consumers -> Tree]
  <2>1. log[n].source # Local => Checkout(log[n].source, log[n].dir) \in Tree
    BY <1>1, SourceType DEF Checkout, SourceTree
  <2>2. QED
    BY <2>1, TreeTypes DEF Fetch, TypeOK
<1>3. wanted' \in [Consumers -> Names \cup {""}]
  BY DEF Fetch, Checkout, TypeOK
<1>4. QED
  BY <1>2, <1>3 DEF Fetch, Checkout, TypeOK, sourceVars, notaryVars, publisherVars

\* A consumer reads a tree.
LEMMA HandleType ==
  ASSUME TypeOK, NEW c \in Consumers, vpc[c] \in {"list", "copy"},
         ConsumerInv(c), \A n \in Names : ReleaseInv(n)
  PROVE  Handle(c) \in Tree /\ wanted[c] \in Notarized /\ Resolved(c) = log[wanted[c]]
<1>1. wanted[c] \in Notarized
  BY DEF ConsumerInv
<1>2. log[wanted[c]].dir \in Dirs
  BY <1>1 DEF ReleaseInv, Notarized
<1>3. QED
  BY <1>1, <1>2 DEF Handle, Resolved, TypeOK

LEMMA VendorTypes ==
  ASSUME TypeOK, NEW c \in Consumers, ConsumerInv(c), \A n \in Names : ReleaseInv(n), Vendor(c)
  PROVE  TypeOK'
<1> USE DEF sourceVars, notaryVars, publisherVars
<1>1. CASE ListCopies(c)
  <2>1. Listed(Handle(c)) \subseteq Paths
    BY DEF Listed
  <2>2. QED
    BY <1>1, <2>1 DEF ListCopies, TypeOK
<1>2. ASSUME NEW f \in Paths, CopyFile(c, f)
      PROVE  TypeOK'
  <2>1. Handle(c)[f] \in Node
    BY <1>2, HandleType DEF CopyFile, Copyable, Tree
  <2>2. stage' \in [Consumers -> Tree]
    <3>1. [stage[c] EXCEPT ![f] = Handle(c)[f]] \in Tree
      BY <2>1 DEF TypeOK, Tree
    <3>2. QED
      BY <1>2, <3>1, TreeTypes DEF CopyFile, Copyable, TypeOK
  <2>3. clone' \in [Consumers -> Tree] /\ uncopied' \in [Consumers -> SUBSET Paths]
    BY <1>2, TreeTypes DEF CopyFile, Copyable, TypeOK
  <2>4. vpc' \in [Consumers -> {"idle", "unfetched", "unsafe", "list", "copy",
                               "irregular", "mismatch", "landed"}]
    <3>1. vpc' = vpc \/ vpc' = [vpc EXCEPT ![c] = "irregular"]
      BY <1>2 DEF CopyFile, Copyable
    <3>2. QED
      BY <3>1 DEF TypeOK
  <2>5. QED
    BY <1>2, <2>2, <2>3, <2>4 DEF CopyFile, Copyable, TypeOK
<1>3. CASE Land(c)
  BY <1>3, TreeTypes DEF Land, HashOfCopy, TypeOK
<1>4. QED
  BY <1>1, <1>2, <1>3 DEF Vendor

LEMMA FetchFailsTypes ==
  ASSUME TypeOK, NEW c \in Consumers, FetchFails(c)
  PROVE  TypeOK'
BY DEF FetchFails, TypeOK, sourceVars, notaryVars, publisherVars

LEMMA TypeStep ==
  ASSUME IInv, [Next]_vars
  PROVE  TypeOK'
<1>1. CASE UNCHANGED vars
  BY <1>1 DEF IInv, TypeOK, vars, sourceVars, notaryVars, publisherVars, consumerVars
<1>2. CASE Next
  BY <1>2, PersonTypes, PublishTypes, NotaryTypes, ReadTypes, FetchTypes, FetchFailsTypes,
     VendorTypes DEF IInv, Next
<1>3. QED
  BY <1>1, <1>2

-----------------------------------------------------------------------------
(* What a publisher says                                                   *)

\* The log only grows.
LEMMA LogFixed ==
  ASSUME TypeOK, [Next]_vars, NEW n \in Notarized
  PROVE  n \in Notarized' /\ log'[n] = log[n] /\ madeBy'[n] = madeBy[n]
<1> USE DEF sourceVars, notaryVars, publisherVars, consumerVars
<1>1. CASE UNCHANGED notaryVars
  BY <1>1 DEF Notarized
<1>2. ASSUME NEW p \in Publishers, Notarize(p)
      PROVE  n \in Notarized' /\ log'[n] = log[n] /\ madeBy'[n] = madeBy[n]
  <2>1. n # Current(p).name /\ n \in Names
    BY <1>2 DEF Notarize, Notarized
  <2>2. log'[n] = log[n] /\ madeBy'[n] = madeBy[n]
    BY <1>2, <2>1 DEF Notarize, TypeOK
  <2>3. QED
    BY <2>1, <2>2 DEF Notarized
<1>3. CASE Next
  <2>1. Person => UNCHANGED notaryVars
    BY DEF Person, Edit, Push, MakeTag
  <2>2. ASSUME NEW p \in Publishers, Publish(p)
        PROVE  UNCHANGED notaryVars
    BY <2>2 DEF Publish, ListFiles, HashFile, Post, Receive, Succeeded, NextPackage, Abort, GiveUp, Finish
  <2>3. ASSUME NEW p \in Publishers, NEW m \in Manifests, NEW s \in Sources, ReadManifest(p, m, s)
        PROVE  UNCHANGED notaryVars
    BY <2>3 DEF ReadManifest
  <2>4. ASSUME NEW p \in Publishers, Refuse(p)
        PROVE  UNCHANGED notaryVars
    BY <2>4 DEF Refuse
  <2>5. ASSUME NEW c \in Consumers, Vendor(c)
        PROVE  UNCHANGED notaryVars
    BY <2>5 DEF Vendor, ListCopies, CopyFile, Copyable, Land, HashOfCopy
  <2>6. ASSUME NEW c \in Consumers, FetchFails(c) \/ \E x \in Names : Fetch(c, x)
        PROVE  UNCHANGED notaryVars
    BY <2>6 DEF Fetch, Checkout, FetchFails
  <2>7. QED
    BY <1>1, <1>2, <1>3, <2>1, <2>2, <2>3, <2>4, <2>5, <2>6 DEF Next, Notary
<1>4. QED
  BY <1>1, <1>3 DEF vars

\* A publisher that does nothing in a step.
LEMMA PublisherFrame ==
  ASSUME IInv, [Next]_vars, NEW p \in Publishers,
         pc'[p] = pc[p], manifest'[p] = manifest[p], at'[p] = at[p],
         request'[p] = request[p], claim'[p] = claim[p], reported'[p] = reported[p]
  PROVE  PublisherInv(p)' /\ ReportedBy(p)'
<1>1. TypeOK /\ PublisherInv(p) /\ ReportedBy(p) /\ p # NoOne
  BY NamesAssumption DEF IInv, ReportedIsNotarized
<1>2. \A n \in Names : madeBy[n] = p => log'[n] = log[n] /\ madeBy'[n] = madeBy[n]
  BY <1>1, LogFixed DEF Notarized
<1>3. /\ Packages(p)' = Packages(p)
      /\ Outstanding(p)' <=> Outstanding(p)
      /\ \A i : NameAt(p, i)' = NameAt(p, i)
  BY DEF Packages, Outstanding, NameAt
<1>4. at[p] \in Nat /\ Len(Packages(p)) \in Nat /\ at[p] <= Len(Packages(p))
  BY <1>1, ManifestType DEF PublisherInv, TypeOK
<1>5. \A i \in 1..at[p] : NameAt(p, i) \in Names
  BY <1>1, <1>4, PackageType
<1>6. PublisherInv(p)'
  BY <1>1, <1>2, <1>3, CurrentType DEF PublisherInv
<1>7. \A i \in 1..at[p] :
        madeBy'[NameAt(p, i)] = p /\ log'[NameAt(p, i)] = log[NameAt(p, i)]
  BY <1>1, <1>2, <1>5 DEF ReportedBy
<1>8. ReportedBy(p)'
  BY <1>1, <1>3, <1>7 DEF ReportedBy
<1>9. QED
  BY <1>6, <1>8

\* Who made a release does not change, nor why it is theirs.
LEMMA OwnerFrame ==
  ASSUME IInv, [Next]_vars, NEW n \in Notarized,
         \A p \in Publishers : manifest'[p] = manifest[p] /\ at'[p] = at[p],
         request'[madeBy[n]] = request[madeBy[n]]
  PROVE  OwnerInv(n)'
<1>1. n \in Names /\ madeBy[n] \in Publishers
  BY DEF Notarized, IInv, TypeOK
<1>2. madeBy'[n] = madeBy[n]
  BY LogFixed DEF IInv
<1>3. OwnerInv(n)
  BY <1>1 DEF IInv
<1>4. \A i : NameAt(madeBy[n], i)' = NameAt(madeBy[n], i)
  BY <1>1, <1>2 DEF NameAt, Packages
<1>5. QED
  BY <1>1, <1>2, <1>3, <1>4 DEF OwnerInv, NameAt, Packages

\* The steps of one publisher between reading the manifest and the last answer.
LEMMA PublishStep ==
  ASSUME IInv, [Next]_vars, NEW p \in Publishers, Publish(p), TypeOK'
  PROVE  /\ \A q \in Publishers : PublisherInv(q)' /\ ReportedBy(q)'
         /\ \A n \in Names : OwnerInv(n)'
<1> USE DEF sourceVars, notaryVars, consumerVars
<1>1. TypeOK /\ PublisherInv(p) /\ ReportedBy(p)
  BY DEF IInv, ReportedIsNotarized
<1>2. /\ manifest' = manifest /\ UNCHANGED notaryVars
      /\ Packages(p)' = Packages(p)
      /\ \A i : NameAt(p, i)' = NameAt(p, i)
  BY DEF Publish, ListFiles, HashFile, Post, Receive, Succeeded, NextPackage, Abort, GiveUp, Finish, Packages, NameAt
<1>3. at[p] \in Nat /\ Len(Packages(p)) \in Nat
  BY <1>1, ManifestType DEF TypeOK
<1>4. /\ DOMAIN pc = Publishers /\ DOMAIN at = Publishers /\ DOMAIN request = Publishers
      /\ DOMAIN claim = Publishers /\ DOMAIN reported = Publishers
  BY <1>1 DEF TypeOK
<1>9. ASSUME NEW q \in Publishers, q # p
      PROVE  PublisherInv(q)' /\ ReportedBy(q)'
  <2>1. /\ pc'[q] = pc[q] /\ at'[q] = at[q] /\ request'[q] = request[q]
        /\ claim'[q] = claim[q] /\ reported'[q] = reported[q]
    <3>1. CASE ListFiles(p) \/ Post(p) \/ GiveUp(p) \/ Finish(p)
      BY <1>4, <1>9, <3>1 DEF ListFiles, Post, GiveUp, Abort, Finish
    <3>2. CASE Receive(p)
      BY <1>4, <1>9, <3>2 DEF Receive, Succeeded, NextPackage, Abort
    <3>3. CASE \E f \in Paths : HashFile(p, f)
      BY <1>4, <1>9, <3>3 DEF HashFile
    <3>4. QED
      BY <3>1, <3>2, <3>3 DEF Publish
  <2>2. QED
    BY <1>2, <2>1, PublisherFrame
<1>5. CASE UNCHANGED <<at, request>>
  <2>1. \A n \in Names : OwnerInv(n)'
    BY <1>2, <1>5, OwnerFrame DEF OwnerInv, Notarized
  <2>2. at[p] # at[p] + 1
    BY <1>3
  <2>7. /\ reported' = reported
        /\ pc'[p] \in {"list", "hash", "failed", "done"}
        /\ pc'[p] = "hash" => Outstanding(p)
        /\ request[p] # "none" => pc'[p] = "failed" /\ UNCHANGED claim
    <3>1. CASE ListFiles(p) \/ GiveUp(p) \/ Finish(p)
      BY <1>1, <1>4, <3>1 DEF ListFiles, GiveUp, Abort, Finish, PublisherInv
    <3>2. CASE Receive(p)
      BY <1>4, <1>5, <2>2, <3>2 DEF Receive, Succeeded, NextPackage, Abort
    <3>3. CASE \E f \in Paths : HashFile(p, f)
      BY <1>1, <1>4, <3>3 DEF HashFile, PublisherInv
    <3>4. CASE Post(p)
      BY <1>1, <1>4, <1>5, <3>4 DEF Post, PublisherInv
    <3>5. QED
      BY <3>1, <3>2, <3>3, <3>4 DEF Publish
  <2>3. ReportedBy(p)'
    BY <1>1, <1>2, <1>5, <2>7 DEF ReportedBy
  <2>5. PublisherInv(p)'
    BY <1>1, <1>2, <1>5, <2>7 DEF PublisherInv, Outstanding
  <2>6. QED
    BY <1>9, <2>1, <2>3, <2>5
<1>6. CASE Post(p)
  <2>1. /\ request[p] = "none" /\ request' = [request EXCEPT ![p] = "sent"]
        /\ pc' = [pc EXCEPT ![p] = "wait"] /\ UNCHANGED <<at, reported>> /\ Outstanding(p)
    BY <1>1, <1>6 DEF Post, PublisherInv
  <2>2. PublisherInv(p)'
    BY <1>1, <1>2, <2>1 DEF PublisherInv, Outstanding, TypeOK
  <2>3. ReportedBy(p)'
    BY <1>1, <1>2, <2>1 DEF ReportedBy
  <2>4. ASSUME NEW n \in Names, n \in Notarized'
        PROVE  OwnerInv(n)'
    <3>1. n \in Notarized /\ OwnerInv(n) /\ madeBy' = madeBy /\ madeBy[n] \in Publishers
      BY <1>1, <1>2, <2>4 DEF IInv, Notarized, TypeOK
    <3>2. request'[madeBy[n]] = request[madeBy[n]] \/ request[madeBy[n]] # "accepted"
      BY <1>4, <2>1, <3>1
    <3>3. \A i : NameAt(madeBy[n], i)' = NameAt(madeBy[n], i)
      BY <1>2, <3>1 DEF NameAt, Packages
    <3>4. CASE \E i \in 1..at[madeBy[n]] : n = NameAt(madeBy[n], i)
      BY <1>2, <2>1, <3>1, <3>3, <3>4 DEF OwnerInv, NameAt, Packages
    <3>5. CASE ~\E i \in 1..at[madeBy[n]] : n = NameAt(madeBy[n], i)
      BY <1>2, <2>1, <3>1, <3>2, <3>3, <3>5, <1>4 DEF OwnerInv, NameAt, Packages
    <3>6. QED
      BY <3>4, <3>5
  <2>5. QED
    BY <1>9, <2>2, <2>3, <2>4 DEF OwnerInv
<1>7. CASE Receive(p) /\ request[p] = "accepted"
  <2>1. /\ reported' = [reported EXCEPT ![p] = @ \cup {<<Current(p).name, claim[p]>>}]
        /\ at' = [at EXCEPT ![p] = @ + 1]
        /\ request' = [request EXCEPT ![p] = "none"]
        /\ pc' = [pc EXCEPT ![p] = "list"]
        /\ Outstanding(p)
    BY <1>1, <1>7 DEF Receive, Succeeded, NextPackage, Abort, PublisherInv
  <2>2. at'[p] = at[p] + 1 /\ at'[p] \in Nat /\ at'[p] <= Len(Packages(p))
    BY <1>3, <1>4, <2>1 DEF Outstanding
  <2>3. PublisherInv(p)'
    BY <1>1, <1>2, <2>1, <2>2 DEF PublisherInv, TypeOK
  <2>4. /\ Current(p).name = NameAt(p, at[p] + 1)
        /\ madeBy[NameAt(p, at[p] + 1)] = p /\ log[NameAt(p, at[p] + 1)].digest = claim[p]
    BY <1>1, <1>7, <2>1, CurrentType DEF PublisherInv
  <2>5. ReportedBy(p)'
    <3>1. reported'[p] = reported[p] \cup {<<NameAt(p, at[p] + 1), log[NameAt(p, at[p] + 1)].digest>>}
      BY <1>4, <2>1, <2>4
    <3>2. 1..at'[p] = 1..at[p] \cup {at[p] + 1}
      BY <1>3, <2>2
    <3>3. reported'[p] = {<<NameAt(p, i), log[NameAt(p, i)].digest>> : i \in 1..at'[p]}
      BY <1>1, <3>1, <3>2 DEF ReportedBy
    <3>4. \A i \in 1..at'[p] : madeBy[NameAt(p, i)] = p
      BY <1>1, <2>4, <3>2 DEF ReportedBy
    <3>5. QED
      BY <1>2, <3>3, <3>4 DEF ReportedBy
  <2>6. ASSUME NEW n \in Names, n \in Notarized'
        PROVE  OwnerInv(n)'
    <3>1. n \in Notarized /\ OwnerInv(n) /\ madeBy' = madeBy /\ madeBy[n] \in Publishers
      BY <1>1, <1>2, <2>6 DEF IInv, Notarized, TypeOK
    <3>2. CASE madeBy[n] # p
      BY <1>1, <1>2, <2>1, <3>1, <3>2 DEF OwnerInv, NameAt, Packages, TypeOK
    <3>3. CASE madeBy[n] = p
      <4>1. \E i \in 1..at'[p] : n = NameAt(p, i)
        BY <1>3, <2>2, <3>1, <3>3 DEF OwnerInv
      <4>2. QED
        BY <1>2, <3>1, <3>3, <4>1 DEF OwnerInv
    <3>4. QED
      BY <3>2, <3>3
  <2>7. QED
    BY <1>9, <2>3, <2>5, <2>6 DEF OwnerInv
<1>8. QED
  <2>1. Receive(p) /\ request[p] # "accepted" => UNCHANGED <<at, request>>
    BY DEF Receive, Succeeded, NextPackage, Abort
  <2>2. ~Receive(p) /\ ~Post(p) => UNCHANGED <<at, request>>
    BY DEF Publish, ListFiles, HashFile, Abort, GiveUp, Finish
  <2>3. QED
    BY <1>5, <1>6, <1>7, <2>1, <2>2

\* The notary makes a release of the package its publisher is at.
LEMMA NotarizeStep ==
  ASSUME IInv, [Next]_vars, NEW p \in Publishers, Notarize(p), TypeOK'
  PROVE  /\ \A q \in Publishers : PublisherInv(q)' /\ ReportedBy(q)'
         /\ \A n \in Names : OwnerInv(n)'
<1> DEFINE name == Current(p).name
<1>1. TypeOK /\ PublisherInv(p) /\ ReportedBy(p) /\ p # NoOne
  BY NamesAssumption DEF IInv, ReportedIsNotarized
<1>2. /\ Outstanding(p) /\ name \in Names /\ name = NameAt(p, at[p] + 1) /\ name \notin Notarized
      /\ pc[p] \in {"wait", "failed"}
  BY <1>1, CurrentType DEF Notarize, PublisherInv
<1>3. /\ madeBy' = [madeBy EXCEPT ![name] = p] /\ madeBy'[name] = p
      /\ log'[name].digest = claim[p]
      /\ request' = [request EXCEPT ![p] = "accepted"]
      /\ request[p] = "sent" /\ request'[p] = "accepted"
      /\ UNCHANGED <<pc, manifest, source, at, unread, claim, reported>>
  <2>1. DOMAIN madeBy = Names /\ DOMAIN log = Names /\ DOMAIN request = Publishers
    BY <1>1 DEF TypeOK
  <2>2. /\ madeBy' = [madeBy EXCEPT ![name] = p]
        /\ log' = [log EXCEPT ![name] =
                     [digest |-> claim[p], source |-> source[p],
                      dir |-> Current(p).dir, clean |-> Current(p).clean]]
        /\ request' = [request EXCEPT ![p] = "accepted"]
        /\ request[p] = "sent"
        /\ UNCHANGED <<pc, manifest, source, at, unread, claim, reported>>
    BY DEF Notarize
  <2>3. QED
    BY <1>2, <2>1, <2>2
<1>4. /\ Packages(p)' = Packages(p)
      /\ \A i : NameAt(p, i)' = NameAt(p, i)
  BY <1>3 DEF Packages, NameAt
<1>5. ASSUME NEW q \in Publishers, q # p
      PROVE  PublisherInv(q)' /\ ReportedBy(q)'
  <2>1. request'[q] = request[q]
    BY <1>1, <1>3, <1>5 DEF TypeOK
  <2>2. QED
    BY <1>3, <2>1, PublisherFrame
<1>6. PublisherInv(p)'
  BY <1>1, <1>2, <1>3, <1>4 DEF PublisherInv, Outstanding
<1>7. ReportedBy(p)'
  <2>1. at[p] \in Nat /\ Len(Packages(p)) \in Nat /\ at[p] <= Len(Packages(p))
    BY <1>1, ManifestType DEF PublisherInv, TypeOK
  <2>2. ASSUME NEW i \in 1..at[p]
        PROVE  /\ madeBy'[NameAt(p, i)] = p
               /\ log'[NameAt(p, i)] = log[NameAt(p, i)]
    <3>1. i \in 1..Len(Packages(p))
      BY <2>1
    <3>2. NameAt(p, i) \in Names
      BY <1>1, <3>1, PackageType
    <3>3. NameAt(p, i) \in Notarized
      BY <1>1, <3>2 DEF ReportedBy, Notarized
    <3>4. QED
      BY <1>1, <3>3, LogFixed DEF ReportedBy
  <2>3. QED
    BY <1>1, <1>3, <1>4, <2>2 DEF ReportedBy
<1>8. ASSUME NEW n \in Names, n \in Notarized'
      PROVE  OwnerInv(n)'
  <2>1. CASE n = name
    BY <1>2, <1>3, <1>4, <2>1 DEF OwnerInv
  <2>2. CASE n # name
    <3>1. n \in Notarized
      BY <1>1, <1>3, <1>8, <2>2 DEF Notarized, TypeOK
    <3>2. OwnerInv(n) /\ madeBy[n] \in Publishers /\ madeBy'[n] = madeBy[n]
      BY <3>1, LogFixed DEF IInv, Notarized, TypeOK
    <3>3. request'[madeBy[n]] = request[madeBy[n]] \/ request[madeBy[n]] = "sent"
      BY <1>1, <1>3, <3>2 DEF TypeOK
    <3>4. \A i : NameAt(madeBy[n], i)' = NameAt(madeBy[n], i)
      BY <1>3, <3>2 DEF NameAt, Packages
    <3>5. \/ \E i \in 1..at[madeBy[n]] : n = NameAt(madeBy[n], i)
          \/ /\ request'[madeBy[n]] = "accepted"
             /\ n = NameAt(madeBy[n], at[madeBy[n]] + 1)
      BY <3>1, <3>2, <3>3 DEF OwnerInv
    <3>6. QED
      BY <1>3, <3>2, <3>4, <3>5 DEF OwnerInv, NameAt, Packages
  <2>3. QED
    BY <2>1, <2>2
<1>9. QED
  BY <1>5, <1>6, <1>7, <1>8 DEF OwnerInv

LEMMA RefuseStep ==
  ASSUME IInv, [Next]_vars, NEW p \in Publishers, Refuse(p), TypeOK'
  PROVE  /\ \A q \in Publishers : PublisherInv(q)' /\ ReportedBy(q)'
         /\ \A n \in Names : OwnerInv(n)'
<1>1. TypeOK /\ PublisherInv(p) /\ ReportedBy(p)
  BY DEF IInv, ReportedIsNotarized
<1>2. /\ UNCHANGED notaryVars /\ request' = [request EXCEPT ![p] = "refused"]
      /\ request[p] = "sent" /\ request'[p] = "refused"
      /\ UNCHANGED <<pc, manifest, source, at, unread, claim, reported>>
  BY <1>1 DEF Refuse, TypeOK
<1>3. ASSUME NEW q \in Publishers, q # p
      PROVE  PublisherInv(q)' /\ ReportedBy(q)'
  <2>1. request'[q] = request[q]
    BY <1>1, <1>2, <1>3 DEF TypeOK
  <2>2. QED
    BY <1>2, <2>1, PublisherFrame
<1>4. PublisherInv(p)' /\ ReportedBy(p)'
  BY <1>1, <1>2 DEF PublisherInv, ReportedBy, Outstanding, Packages, NameAt, notaryVars
<1>5. ASSUME NEW n \in Names, n \in Notarized'
      PROVE  OwnerInv(n)'
  <2>1. n \in Notarized /\ OwnerInv(n) /\ madeBy[n] \in Publishers
    BY <1>1, <1>2, <1>5 DEF IInv, Notarized, notaryVars, TypeOK
  <2>2. request'[madeBy[n]] = request[madeBy[n]] \/ request[madeBy[n]] = "sent"
    BY <1>1, <1>2, <2>1 DEF TypeOK
  <2>3. QED
    BY <1>2, <2>1, <2>2 DEF OwnerInv, NameAt, Packages, notaryVars
<1>6. QED
  BY <1>3, <1>4, <1>5 DEF OwnerInv

LEMMA ReadStep ==
  ASSUME IInv, [Next]_vars, NEW p \in Publishers, NEW m \in Manifests, NEW s \in Sources,
         ReadManifest(p, m, s), TypeOK'
  PROVE  /\ \A q \in Publishers : PublisherInv(q)' /\ ReportedBy(q)'
         /\ \A n \in Names : OwnerInv(n)'
<1>1. TypeOK /\ PublisherInv(p) /\ ReportedBy(p)
  BY DEF IInv, ReportedIsNotarized
<1>2. /\ UNCHANGED <<notaryVars, at, claim, request, reported>>
      /\ pc[p] = "idle" /\ pc'[p] \in {"list", "failed"} /\ at[p] = 0 /\ request[p] = "none"
  BY <1>1 DEF ReadManifest, TypeOK, PublisherInv
<1>3. ASSUME NEW q \in Publishers, q # p
      PROVE  /\ pc'[q] = pc[q] /\ manifest'[q] = manifest[q]
  <2>1. DOMAIN pc = Publishers /\ DOMAIN manifest = Publishers
    BY <1>1 DEF TypeOK
  <2>2. CASE Valid(m)
    BY <1>3, <2>1, <2>2 DEF ReadManifest
  <2>3. CASE ~Valid(m)
    BY <1>3, <2>1, <2>3 DEF ReadManifest
  <2>4. QED
    BY <2>2, <2>3
<1>4. \A q \in Publishers : q # p => PublisherInv(q)' /\ ReportedBy(q)'
  BY <1>2, <1>3, PublisherFrame
<1>5. Len(Packages(p))' \in Nat
  <2>1. manifest'[p] \in Manifests \/ manifest'[p] = NoManifest
    BY DEF TypeOK
  <2>2. CASE manifest'[p] \in Manifests
    <3>1. manifest'[p] \in Manifest
      BY <2>2, ManifestsAssumption
    <3>2. manifest'[p].packages \in Seq(Package)
      BY <3>1 DEF Manifest
    <3>3. QED
      BY <3>2 DEF Packages
  <2>3. CASE manifest'[p] = NoManifest
    BY <2>3 DEF Packages, NoManifest
  <2>4. QED
    BY <2>1, <2>2, <2>3
<1>6. PublisherInv(p)'
  BY <1>1, <1>2, <1>5 DEF PublisherInv
<1>7. ReportedBy(p)'
  BY <1>1, <1>2 DEF ReportedBy
<1>8. ASSUME NEW n \in Names, n \in Notarized'
      PROVE  OwnerInv(n)'
  <2>1. n \in Notarized /\ OwnerInv(n) /\ madeBy[n] \in Publishers
    BY <1>1, <1>2, <1>8 DEF IInv, Notarized, notaryVars, TypeOK
  <2>2. madeBy[n] # p
    BY <1>2, <2>1 DEF OwnerInv
  <2>3. QED
    BY <1>2, <1>3, <2>1, <2>2 DEF OwnerInv, NameAt, Packages, notaryVars
<1>9. QED
  BY <1>4, <1>6, <1>7, <1>8 DEF OwnerInv

\* The other steps do not touch publishers and log.
LEMMA OtherStep ==
  ASSUME IInv, UNCHANGED <<notaryVars, publisherVars>>
  PROVE  /\ \A q \in Publishers : PublisherInv(q)' /\ ReportedBy(q)'
         /\ \A n \in Names : OwnerInv(n)'
<1>1. \A q \in Publishers : PublisherInv(q) /\ ReportedBy(q)
  BY DEF IInv, ReportedIsNotarized
<1>2. \A n \in Names : OwnerInv(n)
  BY DEF IInv
<1>3. QED
  BY <1>1, <1>2 DEF PublisherInv, ReportedBy, OwnerInv, Notarized, Outstanding, NameAt, Packages,
     notaryVars, publisherVars

LEMMA PublisherStep ==
  ASSUME IInv, [Next]_vars
  PROVE  /\ \A q \in Publishers : PublisherInv(q)' /\ ReportedBy(q)'
         /\ \A n \in Names : OwnerInv(n)'
<1>1. TypeOK'
  BY TypeStep
<1>2. CASE UNCHANGED vars \/ Person
  <2>1. UNCHANGED <<notaryVars, publisherVars>>
    BY <1>2 DEF vars, Person, Edit, Push, MakeTag
  <2>2. QED
    BY <2>1, OtherStep
<1>3. ASSUME NEW c \in Consumers, Vendor(c) \/ FetchFails(c) \/ \E n \in Names : Fetch(c, n)
      PROVE  UNCHANGED <<notaryVars, publisherVars>>
  BY <1>3 DEF Vendor, ListCopies, CopyFile, Copyable, Land, HashOfCopy, Fetch, Checkout, FetchFails
<1>4. QED
  BY <1>1, <1>2, <1>3, OtherStep, PublishStep, NotarizeStep, RefuseStep, ReadStep
    DEF Next, Notary

-----------------------------------------------------------------------------
(* What a release says of its source, and what a consumer copies           *)

\* A tag, once made, stays what it is.
LEMMA TagFixed ==
  ASSUME TypeOK, [Next]_vars, NEW t \in tagged
  PROVE  t \in tagged' /\ repo'[t] = repo[t]
<1> USE DEF sourceVars, notaryVars, publisherVars, consumerVars
<1>1. t \in Tags /\ t \notin Branches /\ t \in GitRefs /\ DOMAIN repo = GitRefs
  BY RefsAssumption DEF TypeOK, GitRefs
<1>2. CASE UNCHANGED sourceVars
  BY <1>2
<1>3. CASE Person
  BY <1>1, <1>3 DEF Person, Edit, Push, MakeTag
<1>4. ASSUME NEW p \in Publishers,
             Publish(p) \/ Notary(p) \/ \E m \in Manifests, s \in Sources : ReadManifest(p, m, s)
      PROVE  UNCHANGED sourceVars
  <2>1. CASE Publish(p)
    BY <2>1 DEF Publish, ListFiles, HashFile, Post, Receive, Succeeded, NextPackage, Abort, GiveUp, Finish
  <2>2. CASE ~Publish(p)
    BY <1>4, <2>2 DEF Notary, Notarize, Refuse, ReadManifest
  <2>3. QED
    BY <2>1, <2>2
<1>5. ASSUME NEW c \in Consumers, Vendor(c) \/ FetchFails(c) \/ \E n \in Names : Fetch(c, n)
      PROVE  UNCHANGED sourceVars
  BY <1>5 DEF Vendor, ListCopies, CopyFile, Copyable, Land, HashOfCopy, Fetch, Checkout, FetchFails
<1>6. QED
  BY <1>2, <1>3, <1>4, <1>5 DEF Next, vars

\* So the tree a release was made from stays what it is.
LEMMA TagTreeFixed ==
  ASSUME IInv, [Next]_vars, NEW n \in Notarized, log[n].source \in Tags
  PROVE  TagTree(n)' = TagTree(n) /\ repo'[log'[n].source] = repo[log[n].source]
<1>1. log'[n] = log[n]
  BY LogFixed DEF IInv
<1>2. log[n].source \in tagged
  BY DEF IInv, ReleaseInv, Notarized
<1>3. repo'[log[n].source] = repo[log[n].source]
  BY <1>2, TagFixed DEF IInv
<1>4. QED
  BY <1>1, <1>3 DEF TagTree, Cloned

LEMMA ReleaseStep ==
  ASSUME IInv, [Next]_vars, NEW n \in Names
  PROVE  ReleaseInv(n)'
<1>1. TypeOK /\ ReleaseInv(n)
  BY DEF IInv
<1>2. CASE n \in Notarized
  <2>1. n \in Notarized' /\ log'[n] = log[n]
    BY <1>1, <1>2, LogFixed
  <2>2. CASE log[n].source \in Tags
    BY <1>1, <1>2, <2>1, <2>2, TagFixed, TagTreeFixed DEF ReleaseInv
  <2>3. CASE log[n].source \notin Tags
    BY <1>1, <1>2, <2>1, <2>3 DEF ReleaseInv
  <2>4. QED
    BY <2>2, <2>3
<1>3. ASSUME n \notin Notarized, n \in Notarized', NEW p \in Publishers, Notarize(p)
      PROVE  ReleaseInv(n)'
  <2>1. Outstanding(p) /\ Current(p).name \in Names /\ Current(p).dir \in Dirs
    BY <1>1, <1>3, CurrentType DEF IInv, Notarize, PublisherInv
  <2>2. /\ madeBy' = [madeBy EXCEPT ![Current(p).name] = p]
        /\ log' = [log EXCEPT ![Current(p).name] =
                     [digest |-> claim[p], source |-> source[p],
                      dir |-> Current(p).dir, clean |-> Current(p).clean]]
        /\ UNCHANGED <<tagged, repo>>
        /\ Available(source[p])
        /\ Digest(SourceTree(source[p], Current(p).dir)) = claim[p]
    BY <1>3 DEF Notarize, sourceVars
  <2>3. n = Current(p).name
    BY <1>1, <1>3, <2>1, <2>2 DEF Notarized, TypeOK
  <2>4. log'[n] = [digest |-> claim[p], source |-> source[p],
                   dir |-> Current(p).dir, clean |-> Current(p).clean]
    BY <1>1, <2>2, <2>3 DEF TypeOK
  <2>5. log'[n].digest = claim[p] /\ log'[n].source = source[p] /\ log'[n].dir = Current(p).dir
    BY <2>4
  <2>6. CASE source[p] \in Tags
    <3>1. source[p] \in tagged /\ source[p] # Local
      BY <2>2, <2>6, RefsAssumption DEF Available, GitRefs
    <3>2. TagTree(n)' = SourceTree(source[p], Current(p).dir)
      BY <2>2, <2>5, <3>1 DEF TagTree, SourceTree, Cloned
    <3>3. Digest(TagTree(n)') = claim[p]
      BY <2>2, <3>2
    <3>4. QED
      BY <2>1, <2>2, <2>5, <3>1, <3>3 DEF ReleaseInv, Digest, Listed
  <2>7. QED
    BY <2>1, <2>5, <2>6 DEF ReleaseInv
<1>4. ASSUME n \notin Notarized, n \in Notarized'
      PROVE  \E p \in Publishers : Notarize(p)
  <2>1. madeBy' # madeBy
    BY <1>4 DEF Notarized
  <2>2. ASSUME NEW p \in Publishers, Publish(p) \/ Refuse(p)
        PROVE  madeBy' = madeBy
    BY <2>2 DEF Publish, ListFiles, HashFile, Post, Receive, Succeeded, NextPackage, Abort, GiveUp, Finish, Refuse, notaryVars
  <2>3. ASSUME NEW p \in Publishers, NEW m \in Manifests, NEW s \in Sources, ReadManifest(p, m, s)
        PROVE  madeBy' = madeBy
    BY <2>3 DEF ReadManifest, notaryVars
  <2>4. ASSUME NEW c \in Consumers, Vendor(c) \/ FetchFails(c) \/ \E x \in Names : Fetch(c, x)
        PROVE  madeBy' = madeBy
    BY <2>4 DEF Vendor, ListCopies, CopyFile, Copyable, Land, HashOfCopy, Fetch, Checkout, FetchFails, notaryVars
  <2>5. Person \/ UNCHANGED vars => madeBy' = madeBy
    BY DEF Person, Edit, Push, MakeTag, notaryVars, vars
  <2>6. QED
    BY <2>1, <2>2, <2>3, <2>4, <2>5 DEF Next, Notary
<1>5. QED
  BY <1>2, <1>3, <1>4 DEF ReleaseInv

\* A consumer that does nothing in a step.
LEMMA ConsumerFrame ==
  ASSUME IInv, [Next]_vars, NEW c \in Consumers,
         vpc'[c] = vpc[c], wanted'[c] = wanted[c], clone'[c] = clone[c],
         uncopied'[c] = uncopied[c], stage'[c] = stage[c]
  PROVE  ConsumerInv(c)' /\ TagVends(c)'
<1>1. TypeOK /\ ConsumerInv(c) /\ TagVends(c)
  BY DEF IInv, TagsVendor
<1>2. CASE vpc[c] \in {"idle", "unfetched"}
  BY <1>1, <1>2 DEF ConsumerInv, TagVends
<1>3. CASE vpc[c] \notin {"idle", "unfetched"}
  <2>1. wanted[c] \in Notarized
    BY <1>1, <1>3 DEF ConsumerInv
  <2>2. wanted[c] \in Notarized' /\ Resolved(c)' = Resolved(c)
    BY <1>1, <2>1, LogFixed DEF Resolved
  <2>3. Resolved(c).source \in Tags =>
          /\ TagTree(wanted[c])' = TagTree(wanted[c])
          /\ repo'[Resolved(c).source] = repo[Resolved(c).source]
    BY <2>1, <2>2, TagTreeFixed DEF Resolved
  <2>4. TagVends(c)'
    BY <1>1, <2>2, <2>3 DEF TagVends
  <2>5. \A f : Copied(c, f)' <=> Copied(c, f)
    BY DEF Copied
  <2>6. ConsumerInv(c)'
    BY <1>1, <1>3, <2>1, <2>2, <2>3, <2>5 DEF ConsumerInv
  <2>7. QED
    BY <2>4, <2>6
<1>4. QED
  BY <1>2, <1>3

\* The tree a consumer reads of a tag's release.
LEMMA TagHandle ==
  ASSUME IInv, NEW c \in Consumers, vpc[c] \in {"list", "copy"}, Resolved(c).source \in Tags
  PROVE  /\ Handle(c) = clone[c] /\ clone[c] = TagTree(wanted[c])
         /\ repo[Resolved(c).source][Resolved(c).dir] \in Tree
         /\ Digest(clone[c]) = Resolved(c).digest
         /\ Regular(clone[c]) <=> Regular(repo[Resolved(c).source][Resolved(c).dir])
<1>1. TypeOK /\ ConsumerInv(c) /\ wanted[c] \in Notarized /\ wanted[c] \in Names
  BY DEF IInv, ConsumerInv, Notarized
<1>2. ReleaseInv(wanted[c]) /\ Resolved(c) = log[wanted[c]]
  BY <1>1 DEF IInv, Resolved
<1>3. Handle(c) = clone[c] /\ clone[c] = TagTree(wanted[c])
  BY <1>1, RefsAssumption DEF Handle, ConsumerInv, GitRefs
<1>4. Digest(clone[c]) = Resolved(c).digest /\ Resolved(c).dir \in Dirs
  BY <1>1, <1>2, <1>3 DEF ReleaseInv
<1>5. repo[Resolved(c).source][Resolved(c).dir] \in Tree
  <2>1. repo[Resolved(c).source] \in [Dirs -> Tree]
    BY <1>1 DEF TypeOK, GitRefs
  <2>2. QED
    BY <1>4, <2>1
<1>6. Regular(clone[c]) <=> Regular(repo[Resolved(c).source][Resolved(c).dir])
  BY <1>2, <1>3, <1>5, ClonedListing DEF TagTree
<1>7. QED
  BY <1>3, <1>4, <1>5, <1>6

LEMMA VendorStep ==
  ASSUME IInv, [Next]_vars, NEW c \in Consumers, Vendor(c)
  PROVE  ConsumerInv(c)' /\ TagVends(c)'
<1> USE DEF sourceVars, notaryVars
<1>1. TypeOK /\ ConsumerInv(c) /\ vpc[c] \in {"list", "copy"}
  BY DEF IInv, Vendor, ListCopies, CopyFile, Copyable, Land, HashOfCopy
<1>2. /\ wanted[c] \in Notarized /\ wanted'[c] = wanted[c] /\ wanted[c] \in Notarized'
      /\ Resolved(c)' = Resolved(c)
      /\ UNCHANGED <<sourceVars, notaryVars>>
  BY <1>1 DEF ConsumerInv, Vendor, ListCopies, CopyFile, Copyable, Land, HashOfCopy, Resolved, Notarized
<1>3. TagTree(wanted[c])' = TagTree(wanted[c])
  BY <1>2 DEF TagTree, Cloned
<1>4. Handle(c) \in Tree
  BY <1>1, HandleType DEF IInv
<1>5. DOMAIN vpc = Consumers /\ DOMAIN clone = Consumers /\ DOMAIN uncopied = Consumers
      /\ DOMAIN stage = Consumers /\ stage[c] \in Tree /\ uncopied[c] \subseteq Paths
  BY <1>1 DEF TypeOK
<1>6. CASE ListCopies(c)
  <2>1. /\ vpc'[c] = "copy" /\ uncopied'[c] = Listed(Handle(c))
        /\ clone'[c] = clone[c] /\ stage'[c] = EmptyTree
    BY <1>1, <1>5, <1>6 DEF ListCopies, ConsumerInv
  <2>2. uncopied'[c] \cap VcsPaths = {}
    BY <2>1 DEF Listed
  <2>3. Resolved(c).source \in Tags => uncopied'[c] = Listed(clone[c]) /\ clone[c] = TagTree(wanted[c])
    BY <1>1, <2>1, TagHandle
  <2>4. \A f \in Paths : stage'[c][f] = Gone /\ stage'[c][f].kind = "gone"
    BY <2>1 DEF EmptyTree, Gone
  <2>5. QED
    BY <1>2, <1>3, <2>1, <2>2, <2>3, <2>4 DEF ConsumerInv, TagVends, Copied
<1>7. ASSUME NEW f \in Paths, CopyFile(c, f), Handle(c)[f].kind = "file"
      PROVE  ConsumerInv(c)' /\ TagVends(c)'
  <2>1. /\ vpc[c] = "copy" /\ vpc'[c] = "copy" /\ f \in uncopied[c]
        /\ uncopied'[c] = uncopied[c] \ {f} /\ clone'[c] = clone[c]
        /\ stage'[c] = [stage[c] EXCEPT ![f] = Handle(c)[f]]
    BY <1>5, <1>7 DEF CopyFile, Copyable
  <2>2. /\ stage'[c][f] = Handle(c)[f] /\ f \notin VcsPaths
        /\ \A g \in Paths : g # f => stage'[c][g] = stage[c][g]
    BY <1>1, <1>5, <2>1 DEF Tree, ConsumerInv
  <2>3. \A g \in Paths :
          /\ stage'[c][g].kind \in {"gone", "file"}
          /\ stage'[c][g].kind = "file" => g \notin VcsPaths
    BY <1>1, <1>7, <2>2 DEF ConsumerInv
  <2>4. ASSUME Resolved(c).source \in Tags
        PROVE  /\ clone'[c] = TagTree(wanted[c])
               /\ uncopied'[c] \subseteq Listed(clone'[c])
               /\ \A g \in Paths : stage'[c][g] = IF Copied(c, g)' THEN clone'[c][g] ELSE Gone
    <3>1. Handle(c) = clone[c] /\ clone[c] = TagTree(wanted[c])
      BY <1>1, <2>4, TagHandle
    <3>2. /\ uncopied[c] \subseteq Listed(clone[c])
          /\ \A g \in Paths : stage[c][g] = IF Copied(c, g) THEN clone[c][g] ELSE Gone
      BY <1>1, <2>1, <2>4 DEF ConsumerInv
    <3>3. Copied(c, f)' /\ \A g \in Paths : g # f => (Copied(c, g)' <=> Copied(c, g))
      BY <2>1, <3>2 DEF Copied
    <3>4. QED
      BY <2>1, <2>2, <3>1, <3>2, <3>3
  <2>5. QED
    BY <1>1, <1>2, <1>3, <2>1, <2>3, <2>4 DEF ConsumerInv, TagVends
<1>8. ASSUME NEW f \in Paths, CopyFile(c, f), Handle(c)[f].kind # "file"
      PROVE  ConsumerInv(c)' /\ TagVends(c)'
  <2>1. /\ vpc[c] = "copy" /\ vpc'[c] = "irregular" /\ f \in uncopied[c]
        /\ uncopied'[c] = uncopied[c] \ {f} /\ stage'[c] = EmptyTree
    BY <1>5, <1>8 DEF CopyFile, Copyable
  <2>2. ASSUME Resolved(c).source \in Tags
        PROVE  ~Regular(repo[Resolved(c).source][Resolved(c).dir])
    <3>1. f \in Listed(clone[c]) /\ clone[c][f].kind # "file"
      BY <1>1, <1>8, <2>1, <2>2, TagHandle DEF ConsumerInv
    <3>2. QED
      BY <1>1, <2>2, <3>1, TagHandle DEF Regular
  <2>3. TagVends(c)'
    BY <1>2, <2>2 DEF TagVends
  <2>4. \A g \in Paths : stage'[c][g].kind = "gone"
    BY <2>1 DEF EmptyTree, Gone
  <2>5. QED
    BY <1>1, <1>2, <2>1, <2>3, <2>4 DEF ConsumerInv
<1>9. CASE Land(c)
  <2>1. vpc[c] = "copy" /\ uncopied[c] = {} /\ uncopied'[c] = {} /\ vpc'[c] \in {"landed", "mismatch"}
    BY <1>5, <1>9 DEF Land, HashOfCopy
  <2>2. ASSUME Resolved(c).source \in Tags
        PROVE  Digest(stage[c]) = Resolved(c).digest
    <3>1. /\ Digest(clone[c]) = Resolved(c).digest
          /\ \A g \in Paths : stage[c][g] = IF g \in Listed(clone[c]) THEN clone[c][g] ELSE Gone
      BY <1>1, <2>1, <2>2, TagHandle DEF ConsumerInv, Copied
    <3>2. \A g \in Paths : g \in Listed(stage[c]) <=> g \in Listed(clone[c])
      BY <3>1 DEF Listed, Gone
    <3>3. \A g \in Paths : g \in Listed(clone[c]) => stage[c][g] = clone[c][g]
      BY <3>1
    <3>4. Digest(stage[c]) = Digest(clone[c])
      BY <3>2, <3>3 DEF Digest
    <3>5. QED
      BY <3>1, <3>4
  <2>3. CASE Digest(stage[c]) = Resolved(c).digest
    <3>1. vpc'[c] = "landed" /\ stage' = stage
      BY <1>5, <1>9, <2>3 DEF Land, HashOfCopy
    <3>2. QED
      BY <1>1, <1>2, <2>1, <2>3, <3>1 DEF ConsumerInv, TagVends, Digest, Listed
  <2>4. CASE Digest(stage[c]) # Resolved(c).digest
    <3>1. vpc'[c] = "mismatch" /\ stage'[c] = EmptyTree
      BY <1>5, <1>9, <2>4 DEF Land, HashOfCopy
    <3>2. \A g \in Paths : stage'[c][g].kind = "gone"
      BY <3>1 DEF EmptyTree, Gone
    <3>3. QED
      BY <1>1, <1>2, <2>1, <2>2, <2>4, <3>1, <3>2 DEF ConsumerInv, TagVends
  <2>5. QED
    BY <2>3, <2>4
<1>10. QED
  BY <1>6, <1>7, <1>8, <1>9 DEF Vendor

LEMMA FetchStep ==
  ASSUME IInv, [Next]_vars, NEW c \in Consumers, NEW n \in Names, Fetch(c, n)
  PROVE  ConsumerInv(c)' /\ TagVends(c)'
<1>1. TypeOK /\ ConsumerInv(c) /\ vpc[c] = "idle" /\ n \in Notarized /\ ReleaseInv(n)
  BY DEF IInv, Fetch, Checkout
<1>2. /\ wanted'[c] = n /\ vpc'[c] = (IF log[n].clean THEN "list" ELSE "unsafe")
      /\ clone'[c] = (IF log[n].source = Local \/ ~log[n].clean THEN EmptyTree
                      ELSE Checkout(log[n].source, log[n].dir))
      /\ stage'[c] = EmptyTree /\ uncopied'[c] = uncopied[c]
      /\ UNCHANGED <<repo, log, madeBy>>
  BY <1>1 DEF Fetch, TypeOK, ConsumerInv, sourceVars, notaryVars
<1>3. /\ n \in Notarized' /\ wanted'[c] \in Notarized'
      /\ Resolved(c)' = log[n]
      /\ TagTree(wanted[c])' = TagTree(n)
  <2>1. Notarized' = Notarized
    BY <1>2 DEF Notarized
  <2>2. Resolved(c)' = log[n]
    BY <1>2 DEF Resolved
  <2>3. TagTree(wanted[c])' = TagTree(n)
    BY <1>2 DEF TagTree, Cloned
  <2>4. QED
    BY <1>1, <1>2, <2>1, <2>2, <2>3
<1>4. vpc'[c] = "list" /\ log[n].source \in Tags => clone'[c] = TagTree(n)
  <2>1. ASSUME log[n].source \in Tags, log[n].clean
        PROVE  clone'[c] = Checkout(log[n].source, log[n].dir)
    BY <1>2, <2>1, RefsAssumption DEF GitRefs
  <2>2. QED
    BY <1>2, <2>1 DEF Checkout, TagTree
<1>7. vpc'[c] \in {"list", "unsafe"}
  BY <1>2
<1>5. \A g \in Paths : stage'[c][g].kind = "gone"
  BY <1>2 DEF EmptyTree, Gone
<1>6. QED
  BY <1>1, <1>2, <1>3, <1>4, <1>5, <1>7 DEF ConsumerInv, TagVends

LEMMA ConsumerStep ==
  ASSUME IInv, [Next]_vars, NEW c \in Consumers
  PROVE  ConsumerInv(c)' /\ TagVends(c)'
<1>1. CASE UNCHANGED <<vpc[c], wanted[c], clone[c], uncopied[c], stage[c]>>
  BY <1>1, ConsumerFrame
<1>2. CASE \E d \in Consumers : d # c /\ (Vendor(d) \/ FetchFails(d) \/ \E n \in Names : Fetch(d, n))
  <2>1. PICK d \in Consumers : d # c /\ (Vendor(d) \/ FetchFails(d) \/ \E n \in Names : Fetch(d, n))
    BY <1>2
  <2>2. /\ DOMAIN vpc = Consumers /\ DOMAIN clone = Consumers /\ DOMAIN uncopied = Consumers
        /\ DOMAIN stage = Consumers /\ DOMAIN wanted = Consumers
    BY DEF IInv, TypeOK
  <2>3. CASE FetchFails(d) \/ \E n \in Names : Fetch(d, n)
    BY <1>1, <2>1, <2>2, <2>3 DEF Fetch, Checkout, FetchFails
  <2>4. CASE ListCopies(d)
    BY <1>1, <2>1, <2>2, <2>4 DEF ListCopies
  <2>5. CASE \E f \in Paths : CopyFile(d, f)
    BY <1>1, <2>1, <2>2, <2>5 DEF CopyFile, Copyable
  <2>6. CASE Land(d)
    BY <1>1, <2>1, <2>2, <2>6 DEF Land, HashOfCopy
  <2>7. QED
    BY <2>1, <2>3, <2>4, <2>5, <2>6 DEF Vendor
<1>3. CASE FetchFails(c)
  <2>1. /\ vpc[c] = "idle" /\ vpc'[c] = "unfetched"
        /\ UNCHANGED <<sourceVars, notaryVars, wanted, clone, uncopied, stage>>
    BY <1>3 DEF FetchFails, IInv, TypeOK
  <2>2. ConsumerInv(c)
    BY DEF IInv
  <2>3. QED
    BY <2>1, <2>2 DEF ConsumerInv, TagVends
<1>4. ASSUME NEW p \in Publishers,
             Publish(p) \/ Notary(p) \/ \E m \in Manifests, s \in Sources : ReadManifest(p, m, s)
      PROVE  UNCHANGED consumerVars
  <2>1. CASE Publish(p)
    BY <2>1 DEF Publish, ListFiles, HashFile, Post, Receive, Succeeded, NextPackage, Abort, GiveUp, Finish
  <2>2. CASE ~Publish(p)
    BY <1>4, <2>2 DEF Notary, Notarize, Refuse, ReadManifest
  <2>3. QED
    BY <2>1, <2>2
<1>5. Person \/ UNCHANGED vars => UNCHANGED consumerVars
  BY DEF Person, Edit, Push, MakeTag, vars
<1>6. UNCHANGED consumerVars => ConsumerInv(c)' /\ TagVends(c)'
  BY <1>1 DEF consumerVars
<1>7. QED
  BY <1>2, <1>3, <1>4, <1>5, <1>6, VendorStep, FetchStep DEF Next

-----------------------------------------------------------------------------
(* The theorems                                                            *)

LEMMA InvStep == IInv /\ [Next]_vars => IInv'
BY TypeStep, PublisherStep, ReleaseStep, ConsumerStep
  DEF IInv, ReportedIsNotarized, TagsVendor

\* The inductive invariant holds in every behaviour.
THEOREM Invariance == Spec => []IInv
BY InitInv, InvStep, PTL DEF Spec

\* Every variable always has its type; the manifest an invocation works through
\* is always a valid one.
THEOREM TypeCorrect == Spec => []TypeOK
<1>1. IInv => TypeOK
  BY DEF IInv
<1>2. QED
  BY <1>1, Invariance, PTL

\* What publish printed is in the log, made by its own requests.
THEOREM PublishTellsTruth == Spec => []ReportedIsNotarized
<1>1. IInv => ReportedIsNotarized
  BY DEF IInv
<1>2. QED
  BY <1>1, Invariance, PTL

\* At most one release of an invocation is in the log without being printed.
THEOREM OnlyOneInDoubt == Spec => []OneInDoubt
<1>1. ASSUME IInv, NEW n \in Notarized
      PROVE  \/ <<n, log[n].digest>> \in reported[madeBy[n]]
             \/ /\ pc[madeBy[n]] \in {"wait", "failed"}
                /\ Outstanding(madeBy[n])
                /\ n = Current(madeBy[n]).name
  <2>1. /\ TypeOK /\ n \in Names /\ madeBy[n] \in Publishers
        /\ OwnerInv(n) /\ PublisherInv(madeBy[n]) /\ ReportedBy(madeBy[n])
    BY <1>1 DEF IInv, TypeOK, Notarized, ReportedIsNotarized
  <2>2. CASE \E i \in 1..at[madeBy[n]] : n = NameAt(madeBy[n], i)
    BY <2>1, <2>2 DEF ReportedBy
  <2>3. CASE request[madeBy[n]] = "accepted" /\ n = NameAt(madeBy[n], at[madeBy[n]] + 1)
    BY <2>1, <2>3 DEF PublisherInv, Current, NameAt
  <2>4. QED
    BY <2>1, <2>2, <2>3 DEF OwnerInv
<1>2. IInv => OneInDoubt
  BY <1>1 DEF OneInDoubt
<1>3. QED
  BY <1>2, Invariance, PTL

\* An invocation whose first package is somebody else's release adds nothing.
THEOREM PartialIsFinal == Spec => RerunAddsNothing
<1>1. ASSUME IInv, [Next]_vars, NEW n \in Names, madeBy'[n] # madeBy[n]
      PROVE  madeBy[NameAt(madeBy'[n], 1)] \in {NoOne, madeBy'[n]}
  <2>1. n \notin Notarized
    BY <1>1, LogFixed DEF IInv
  <2>2. /\ madeBy'[n] = madeBy'[n] /\ TypeOK /\ TypeOK'
    BY <1>1, TypeStep DEF IInv
  <2>3. PICK p \in Publishers : Notarize(p)
    <3>1. ASSUME NEW p \in Publishers, Publish(p) \/ Refuse(p)
          PROVE  madeBy' = madeBy
      BY <3>1 DEF Publish, ListFiles, HashFile, Post, Receive, Succeeded, NextPackage, Abort, GiveUp, Finish, Refuse, notaryVars
    <3>2. ASSUME NEW p \in Publishers, NEW m \in Manifests, NEW s \in Sources, ReadManifest(p, m, s)
          PROVE  madeBy' = madeBy
      BY <3>2 DEF ReadManifest, notaryVars
    <3>3. ASSUME NEW c \in Consumers, Vendor(c) \/ FetchFails(c) \/ \E x \in Names : Fetch(c, x)
          PROVE  madeBy' = madeBy
      BY <3>3 DEF Vendor, ListCopies, CopyFile, Copyable, Land, HashOfCopy, Fetch, Checkout, FetchFails, notaryVars
    <3>4. Person \/ UNCHANGED vars => madeBy' = madeBy
      BY DEF Person, Edit, Push, MakeTag, notaryVars, vars
    <3>5. QED
      BY <1>1, <3>1, <3>2, <3>3, <3>4 DEF Next, Notary
  <2>4. /\ PublisherInv(p) /\ ReportedBy(p) /\ Outstanding(p)
    BY <1>1, <2>3 DEF IInv, ReportedIsNotarized, Notarize, PublisherInv
  <2>5. /\ madeBy' = [madeBy EXCEPT ![Current(p).name] = p] /\ manifest' = manifest
        /\ Current(p).name \notin Notarized /\ Current(p).name \in Names
        /\ Current(p).name = NameAt(p, at[p] + 1)
    BY <2>2, <2>3, <2>4, CurrentType DEF Notarize
  <2>6. madeBy'[n] = p
    BY <1>1, <2>2, <2>5 DEF TypeOK
  <2>7. CASE at[p] = 0
    BY <2>5, <2>6, <2>7 DEF Notarized
  <2>8. CASE at[p] # 0
    <3>1. 1 \in 1..at[p]
      <4>1. at \in [Publishers -> Nat]
        BY <2>2 DEF TypeOK
      <4>2. at[p] \in Nat
        BY <4>1
      <4>3. QED
        BY <2>8, <4>2
    <3>2. QED
      BY <2>4, <2>6, <3>1 DEF ReportedBy
  <2>9. QED
    BY <2>7, <2>8
<1>2. IInv /\ [Next]_vars => [\A n \in Names : madeBy'[n] # madeBy[n] =>
        madeBy[NameAt(madeBy'[n], 1)] \in {NoOne, madeBy'[n]}]_vars
  BY <1>1
<1>3. QED
  BY <1>2, Invariance, PTL DEF Spec, RerunAddsNothing

\* What lands in a vendor directory has the notarized digest and regular files.
THEOREM LandingIsSound == Spec => []LandedIsNotarized
<1>1. IInv => LandedIsNotarized
  BY DEF IInv, ConsumerInv, LandedIsNotarized
<1>2. QED
  BY <1>1, Invariance, PTL

\* A tag's release of regular files never fails on its bytes.
THEOREM TagsAreVendorable == Spec => []TagsVendor
<1>1. IInv => TagsVendor
  BY DEF IInv
<1>2. QED
  BY <1>1, Invariance, PTL

=============================================================================
