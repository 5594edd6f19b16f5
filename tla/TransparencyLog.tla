-------------------------- MODULE TransparencyLog --------------------------
(***************************************************************************)
(* One "gsp" invocation that reads the notary's transparency log through a *)
(* mirror it does not trust: FullLog pages through it from genesis,        *)
(* VerifyChain checks what came back and, except for "gsp log", the        *)
(* resolver replays it into the releases that are active.                  *)
(*                                                                         *)
(* SHA-256 does not collide, so the hash of a chain is the sequence of     *)
(* payloads it was computed from: <<>> for the genesis hash "".  Only the  *)
(* notary signs with the trusted key; <<>> as a signature is any other     *)
(* bytes.  The signature does not cover seq.                               *)
(***************************************************************************)
EXTENDS Naturals, Sequences, FiniteSets

CONSTANTS
  Packages, Versions,   \* a release is a package at a version
  Digests,
  Payloads,             \* what the notary may append
  Commands,             \* what the invocation may be: "log", "resolve"
  Faults,               \* what can be wrong: "mirror", "network", "notary"
  MaxEntries,           \* FullLog's limit of entries
  MaxInt,               \* the largest int of the build
  MaxPage,              \* bound: entries in one response
  MaxLog,               \* bound: entries the notary appends
  MaxRestores,          \* bound: restorations of the notary's database
  MaxAltered            \* bound: entries the mirror changes

Releases == Packages \X Versions
NoDigest == "nodigest"
\* Op "other" is every payload that apply refuses whatever came before it: another
\* "op", a malformed ref, digest, kind or version, a list that is not one.
Payload == [op : {"publish", "delete", "other"}, pkg : Packages, versions : SUBSET Versions,
            digest : Digests \cup {NoDigest}, deps : SUBSET Releases]

ASSUME PayloadAssumption == Payloads \subseteq Payload
ASSUME BoundAssumption ==
  /\ MaxEntries \in Nat /\ MaxInt \in Nat /\ MaxPage \in Nat \ {0}
  /\ MaxLog \in Nat /\ MaxRestores \in Nat /\ MaxAltered \in Nat
ASSUME EnvironmentAssumption ==
  /\ Commands \subseteq {"log", "resolve"}
  /\ Faults \subseteq {"mirror", "network", "notary"}

VARIABLES
  log,        \* the notary's log
  signed,     \* every chain it ever signed the end of
  restores,   \* how often its database was restored from a backup
  pc,
  command,
  since,      \* FullLog: the last sequence number received
  entries,    \* FullLog: all entries received
  altered,    \* history: entries the mirror has changed on their way
  start,      \* history: length of the log when the invocation began
  index,      \* loop variable of VerifyChain, then of VerifiedResolver
  releases    \* Resolver: the payload of each active release (a Go map)

notary == <<log, signed, restores>>
reader == <<pc, command, since, entries, altered, start, index, releases>>
vars == <<notary, reader>>

Hash == Seq(Payloads)
LogEntry == [seq : Nat, payload : Payloads, prev : Hash, hash : Hash, sig : Hash]

-----------------------------------------------------------------------------
(* The replay of a log, shared by the notary's own checks and the resolver. *)

ReleasesOf(p) == {<<p.pkg, v>> : v \in p.versions}

\* A release is new and its exact-pin dependencies are active.
PublishesAnyDeps(p, active) ==    \* a mutant: the dependencies are not looked up
  p.op = "publish" /\ ReleasesOf(p) \cap active = {}
Publishes(p, active) ==
  /\ p.op = "publish"
  /\ p.deps \subseteq active
  /\ ReleasesOf(p) \cap active = {}

\* A withdrawal names all the active versions of its package, and no other.
Withdraws(p, active) ==
  /\ p.op = "delete"
  /\ p.versions # {}
  /\ ReleasesOf(p) = {r \in active : r[1] = p.pkg}

Applicable(p, active) == Publishes(p, active) \/ Withdraws(p, active)

WithdrawnLeft(p, rel) == rel    \* a mutant: withdrawals change nothing
Withdrawn(p, rel) == [r \in DOMAIN rel \ ReleasesOf(p) |-> rel[r]]
Published(p, rel) ==
  [r \in DOMAIN rel \cup ReleasesOf(p) |-> IF r \in ReleasesOf(p) THEN p ELSE rel[r]]

\* What a chain of payloads means, said without a replay: a release is active if
\* it was published and its package has not been withdrawn since.
PublishedAt(h, i, r) == h[i].op = "publish" /\ r \in ReleasesOf(h[i])
WithdrawnAt(h, i, r) == h[i].op = "delete" /\ r[1] = h[i].pkg
StandsAt(h, i, r) ==
  /\ PublishedAt(h, i, r)
  /\ \A j \in DOMAIN h : j > i => ~WithdrawnAt(h, j, r)
Active(h) == {r \in Releases : \E i \in DOMAIN h : StandsAt(h, i, r)}

-----------------------------------------------------------------------------
Init ==
  /\ log = <<>> /\ signed = {} /\ restores = 0
  /\ pc = "idle" /\ command \in Commands
  /\ since = 0 /\ entries = <<>> /\ altered = 0 /\ start = 0
  /\ index = 0 /\ releases = <<>>

(* The notary: it signs each chain it extends, and may lose its latest     *)
(* entries to a restored backup, after which it signs another history.     *)

Notarize(p) ==
  /\ Len(log) < MaxLog
  /\ "notary" \notin Faults => Applicable(p, Active(log))
  /\ log' = Append(log, p)
  /\ signed' = signed \cup {Append(log, p)}
  /\ UNCHANGED <<restores, reader>>

Restore ==
  /\ restores < MaxRestores
  /\ \E n \in 0..Len(log) : n < Len(log) /\ log' = SubSeq(log, 1, n)
  /\ restores' = restores + 1
  /\ UNCHANGED <<signed, reader>>

-----------------------------------------------------------------------------
(* FullLog                                                                 *)

\* A log entry as the notary made it, given the chain it ends.
Genuine(h) ==
  [seq |-> Len(h), payload |-> h[Len(h)], prev |-> SubSeq(h, 1, Len(h) - 1),
   hash |-> h, sig |-> h]

\* Answers to "since" by the notary: the next entries, as many as it likes.
NextPages ==
  {[j \in 1..n |-> Genuine(SubSeq(log, 1, since + j))] :
     n \in {k \in 0..MaxPage : IF k = 0 THEN since >= Len(log) ELSE since + k <= Len(log)}}

\* By a mirror: any signed entries, left out, repeated or in any order.
MirrorPages == UNION {[1..n -> {Genuine(h) : h \in signed}] : n \in 0..MaxPage}

\* An entry with one field changed, or one recomputed to fit another chain.
Renumbered(e) == {[e EXCEPT !.seq = n] : n \in 1..MaxInt + 1}
Rewritten(e) == {[e EXCEPT !.payload = p] : p \in Payloads}
Rehashed(e) ==
  {[e EXCEPT !.prev = hp[1], !.payload = hp[2], !.hash = Append(hp[1], hp[2])] :
     hp \in (signed \cup {<<>>}) \X Payloads}
Unsigned(e) == {[e EXCEPT !.sig = <<>>]}
Alterations(e) == Renumbered(e) \cup Rewritten(e) \cup Rehashed(e) \cup Unsigned(e)

Begin ==
  /\ pc = "idle"
  /\ pc' = "fetch"
  /\ start' = Len(log)
  /\ UNCHANGED <<notary, command, since, entries, altered, index, releases>>

Progresses(page) ==
  \A j \in DOMAIN page :
    /\ page[j].seq > IF j = 1 THEN since ELSE page[j - 1].seq
    /\ page[j].seq <= MaxInt
PageWithinLimit(page) == Len(page) <= MaxEntries    \* a mutant: the limit of one page, not of all
AlmostWithinLimit(page) == Len(entries) + Len(page) < MaxEntries    \* a mutant: off by one
WithinLimit(page) == Len(entries) + Len(page) <= MaxEntries

Received(page) ==
  /\ page # <<>>
  /\ Progresses(page) /\ WithinLimit(page)
  /\ entries' = entries \o page
  /\ since' = page[Len(page)].seq
  /\ UNCHANGED pc

Refused(page) ==
  /\ page # <<>>
  /\ ~(Progresses(page) /\ WithinLimit(page))
  /\ pc' = "failed"
  /\ UNCHANGED <<entries, since>>

EndedAtShortPage(page) ==    \* a mutant: a short page is taken for the last
  /\ Len(page) < MaxPage
  /\ pc' = "verify"
  /\ entries' = entries \o page
  /\ UNCHANGED since
Ended(page) ==
  /\ page = <<>>
  /\ pc' = "verify"
  /\ UNCHANGED <<entries, since>>

Answer(page) ==
  /\ pc = "fetch"
  /\ Received(page) \/ Refused(page) \/ Ended(page)
  /\ UNCHANGED <<notary, command, start, index, releases>>

FromNotary == (\E page \in NextPages : Answer(page)) /\ UNCHANGED altered

FromMirror ==
  /\ "mirror" \in Faults
  /\ \E page \in MirrorPages : Answer(page)
  /\ UNCHANGED altered

FromMirrorAltered ==
  /\ "mirror" \in Faults
  /\ altered < MaxAltered
  /\ \E page \in MirrorPages : \E k \in DOMAIN page : \E e \in Alterations(page[k]) :
       Answer([page EXCEPT ![k] = e])
  /\ altered' = altered + 1

\* A refused connection, 15 seconds gone, an HTTP error, a malformed or oversized answer.
FetchFails ==
  /\ "network" \in Faults
  /\ pc = "fetch"
  /\ pc' = "failed"
  /\ UNCHANGED <<notary, command, since, entries, altered, start, index, releases>>

-----------------------------------------------------------------------------
(* VerifyChain                                                             *)

Current == entries[index + 1]
Prev == IF index = 0 THEN <<>> ELSE entries[index].hash
LastSeq == IF index = 0 THEN 0 ELSE entries[index].seq

VerifiesUnsigned(e) ==    \* a mutant: the chain is recomputed, the signatures are not checked
  e.prev = Prev /\ e.seq > LastSeq /\ e.hash = Append(Prev, e.payload)
Verifies(e) ==
  /\ e.prev = Prev /\ e.seq > LastSeq
  /\ e.hash = Append(Prev, e.payload)
  /\ e.sig = e.hash

Verify ==
  /\ pc = "verify"
  /\ index < Len(entries)
  /\ IF Verifies(Current)
     THEN index' = index + 1 /\ UNCHANGED pc
     ELSE pc' = "failed" /\ UNCHANGED index
  /\ UNCHANGED <<notary, command, since, entries, altered, start, releases>>

Verified ==
  /\ pc = "verify"
  /\ index = Len(entries)
  /\ IF command = "log"
     THEN pc' = "done" /\ UNCHANGED index
     ELSE pc' = "apply" /\ index' = 0
  /\ UNCHANGED <<notary, command, since, entries, altered, start, releases>>

-----------------------------------------------------------------------------
(* VerifiedResolver: apply                                                 *)

Apply ==
  /\ pc = "apply"
  /\ index < Len(entries)
  /\ LET p == Current.payload
         active == DOMAIN releases
     IN \/ /\ Publishes(p, active)
           /\ releases' = Published(p, releases)
           /\ index' = index + 1
           /\ UNCHANGED pc
        \/ /\ Withdraws(p, active)
           /\ releases' = Withdrawn(p, releases)
           /\ index' = index + 1
           /\ UNCHANGED pc
        \/ /\ ~Applicable(p, active)
           /\ pc' = "failed"
           /\ UNCHANGED <<index, releases>>
  /\ UNCHANGED <<notary, command, since, entries, altered, start>>

Applied ==
  /\ pc = "apply"
  /\ index = Len(entries)
  /\ pc' = "done"
  /\ UNCHANGED <<notary, command, since, entries, altered, start, index, releases>>

-----------------------------------------------------------------------------
Notary == Restore \/ \E p \in Payloads : Notarize(p)
Page == FromNotary \/ FromMirror \/ FromMirrorAltered \/ FetchFails
Reader == Begin \/ Page \/ Verify \/ Verified \/ Apply \/ Applied
Terminating == pc \in {"done", "failed"} /\ UNCHANGED vars

Next == Notary \/ Reader \/ Terminating
Spec == Init /\ [][Next]_vars

\* Requests are answered or time out, and the reader is one running process.
Fairness == WF_vars(Begin) /\ WF_vars(Page) /\ WF_vars(Verify \/ Verified \/ Apply \/ Applied)
FairSpec == Spec /\ Fairness

-----------------------------------------------------------------------------
(* Properties                                                              *)

Chain == [j \in DOMAIN entries |-> entries[j].payload]
Resolved == pc = "done" /\ command = "resolve"

\* Every variable holds what its declaration says; FullLog never holds more
\* entries than its limit, however many pages it is sent.
TypeOK ==
  /\ log \in Hash /\ signed \subseteq Hash \ {<<>>}
  /\ restores \in 0..MaxRestores /\ altered \in 0..MaxAltered
  /\ pc \in {"idle", "fetch", "verify", "apply", "done", "failed"}
  /\ command \in Commands
  /\ since \in Nat /\ start \in Nat
  /\ entries \in Seq(LogEntry) /\ Len(entries) <= MaxEntries
  /\ index \in 0..Len(entries)
  /\ DOMAIN releases \subseteq Releases /\ \A r \in DOMAIN releases : releases[r] \in Payloads

\* VerifyChain: what passed it is, from genesis on, one history the notary signed:
\* nothing is changed, left out in the middle, or put together from two histories,
\* whatever the mirror served and however the log grew between two pages.
VerifiedIsSigned ==
  pc \in {"apply", "done"} => Chain \in signed \cup {<<>>}

\* The resolver's snapshot is what that history means: each release it holds is the
\* one that stands, and every release that stands is in it.
SnapshotIsActive ==
  Resolved =>
    \A r \in Releases :
      {Chain[i] : i \in {i \in DOMAIN Chain : StandsAt(Chain, i, r)}} =
        IF r \in DOMAIN releases THEN {releases[r]} ELSE {}

\* A snapshot is only ever built from a history in which each dependency was active
\* when its dependent was published, no active release was published over, and every
\* withdrawal named all of its package's active versions; even if the notary signed another.
SoundAt(i) ==
  LET before == Active(SubSeq(Chain, 1, i - 1))
      p == Chain[i]
  IN /\ p.op \in {"publish", "delete"}
     /\ p.op = "publish" => p.deps \subseteq before /\ ReleasesOf(p) \cap before = {}
     /\ p.op = "delete" => \A r \in before : r[1] = p.pkg => r \in ReleasesOf(p)
HistoryIsSound == Resolved => \A i \in DOMAIN Chain : SoundAt(i)

\* vendorGraph: "The registry guarantees the dep graph is a DAG (a dep must be notarized
\* before its dependent)", said of the releases that a snapshot resolves.
DependenciesAcyclic ==
  Resolved =>
    \A rs \in SUBSET DOMAIN releases :
      rs # {} => \E r \in rs : releases[r].deps \cap rs = {}

\* FullLog pages until an empty page: served by the notary itself, an invocation sees
\* every entry that was in the log when it began.
SeesAllFromStart == pc = "done" => Len(entries) >= start

\* Served by the notary itself, an invocation ends well, unless the notary has signed
\* what its own rules forbid.
Sound(h) == \A i \in DOMAIN h : Applicable(h[i], Active(SubSeq(h, 1, i - 1)))
EndsWell == (pc = "fetch") ~> (pc = "done" \/ ~Sound(log))

-----------------------------------------------------------------------------
(* The inductive invariant behind the safety properties above.             *)

\* The notary's log is a history it signed, and so is each of its beginnings.
LogIsSigned == \A n \in 1..Len(log) : SubSeq(log, 1, n) \in signed

\* Whatever a mirror changes, it signs nothing.
SignaturesAreTheNotarys == \A j \in DOMAIN entries : entries[j].sig \in signed \cup {<<>>}

\* The hash that VerifyChain carries stands for all the payloads it has passed.
ChainSoFar ==
  /\ pc \in {"idle", "fetch"} => index = 0
  /\ pc = "verify" => Prev = SubSeq(Chain, 1, index) /\ Prev \in signed \cup {<<>>}

\* The releases are those of the part of the history that is replayed.
Replaying == pc = "apply" \/ Resolved
IsReplay(rel, h) ==
  /\ \A r \in DOMAIN rel : \E i \in DOMAIN h : StandsAt(h, i, r)
  /\ \A r \in Releases : \A i \in DOMAIN h :
       StandsAt(h, i, r) => r \in DOMAIN rel /\ rel[r] = h[i]
ReplayedSoFar ==
  /\ pc \notin {"apply", "done", "failed"} => releases = <<>>
  /\ Resolved => index = Len(entries)
  /\ Replaying => IsReplay(releases, SubSeq(Chain, 1, index)) /\ \A i \in 1..index : SoundAt(i)

IInv ==
  /\ LogIsSigned
  /\ SignaturesAreTheNotarys
  /\ ChainSoFar
  /\ VerifiedIsSigned
  /\ ReplayedSoFar

\* The assumption under which FullLog misses nothing: it talks to the notary itself, whose
\* database is not restored from a backup meanwhile.
Undisturbed == "mirror" \notin Faults /\ MaxRestores = 0

\* FullLog has as many entries as "since" says, so that no page skipped any, and it stops
\* only when it has as many as the log had at the start.
FetchedSoFar ==
  /\ pc = "idle" => start = 0
  /\ start <= Len(log)
  /\ pc \in {"idle", "fetch"} => since = Len(entries)
  /\ pc \in {"verify", "apply", "done"} => Len(entries) >= start
=============================================================================
