----------------------- MODULE TransparencyLogProofs -----------------------
(***************************************************************************)
(* What holds of TransparencyLog for any payloads, any limits and any      *)
(* number of entries, whatever the mirror and the notary do.               *)
(***************************************************************************)
EXTENDS TransparencyLog, SequenceTheorems, TLAPS

-----------------------------------------------------------------------------
(* Sequences                                                               *)

\* One more element of a prefix.
LEMMA PrefixGrows ==
  ASSUME NEW S, NEW s \in Seq(S), NEW n \in 0..Len(s) - 1
  PROVE  SubSeq(s, 1, n + 1) = Append(SubSeq(s, 1, n), s[n + 1])
OBVIOUS

\* A prefix that the last element is not part of.
LEMMA PrefixOfAppend ==
  ASSUME NEW S, NEW s \in Seq(S), NEW x \in S, NEW n \in 0..Len(s)
  PROVE  SubSeq(Append(s, x), 1, n) = SubSeq(s, 1, n)
OBVIOUS

\* A prefix of a prefix.
LEMMA PrefixOfPrefix ==
  ASSUME NEW S, NEW s \in Seq(S), NEW m \in 0..Len(s), NEW n \in 0..m
  PROVE  SubSeq(SubSeq(s, 1, m), 1, n) = SubSeq(s, 1, n)
OBVIOUS

\* All of a sequence.
LEMMA WholePrefix ==
  ASSUME NEW S, NEW s \in Seq(S)
  PROVE  SubSeq(s, 1, Len(s)) = s
OBVIOUS

\* The payloads of entries, in order.
LEMMA PayloadsOf ==
  ASSUME NEW es \in Seq(LogEntry), NEW c, c = [j \in DOMAIN es |-> es[j].payload]
  PROVE  /\ c \in Hash
         /\ Len(c) = Len(es)
         /\ \A j \in 1..Len(es) : c[j] = es[j].payload
<1>1. \A j \in 1..Len(es) : es[j].payload \in Payloads
  <2>1. \A j \in 1..Len(es) : es[j] \in LogEntry
    OBVIOUS
  <2>2. QED
    BY <2>1 DEF LogEntry
<1>2. DOMAIN es = 1..Len(es) /\ Len(es) \in Nat
  OBVIOUS
<1>3. c \in Seq(Payloads) /\ Len(c) = Len(es)
  BY <1>1, <1>2
<1>4. QED
  BY <1>2, <1>3 DEF Hash

LEMMA ChainType ==
  ASSUME entries \in Seq(LogEntry)
  PROVE  /\ Chain \in Hash
         /\ Len(Chain) = Len(entries)
         /\ \A j \in 1..Len(entries) : Chain[j] = entries[j].payload
BY PayloadsOf DEF Chain

-----------------------------------------------------------------------------
(* Type correctness                                                        *)

\* What the notary made is a log entry, signed with the end of its chain.
LEMMA GenuineType ==
  ASSUME NEW h \in Hash, h # <<>>
  PROVE  Genuine(h) \in LogEntry /\ Genuine(h).sig = h
<1>1. Len(h) \in Nat /\ Len(h) > 0 /\ h[Len(h)] \in Payloads
  BY DEF Hash
<1>2. SubSeq(h, 1, Len(h) - 1) \in Hash
  BY <1>1 DEF Hash
<1>3. QED
  BY <1>1, <1>2 DEF Genuine, LogEntry

\* Nothing but the notary's signatures can come out of a change to an entry.
Untrusted == {e \in LogEntry : e.sig \in signed \cup {<<>>}}

LEMMA AlteredType ==
  ASSUME TypeOK, NEW e \in Untrusted, NEW x \in Alterations(e)
  PROVE  x \in Untrusted
<1>1. e \in LogEntry /\ e.sig \in signed \cup {<<>>}
  BY DEF Untrusted
<1>0. <<>> \in Hash
  BY DEF Hash
<1>2. signed \cup {<<>>} \subseteq Hash
  BY <1>0 DEF TypeOK
<1>3. CASE x \in Renumbered(e)
  BY <1>1, <1>3, BoundAssumption DEF Untrusted, LogEntry, Renumbered
<1>4. CASE x \in Rewritten(e)
  BY <1>1, <1>4 DEF Untrusted, LogEntry, Rewritten
<1>5. CASE x \in Rehashed(e)
  <2>1. PICK hp \in (signed \cup {<<>>}) \X Payloads :
          x = [e EXCEPT !.prev = hp[1], !.payload = hp[2], !.hash = Append(hp[1], hp[2])]
    BY <1>5 DEF Rehashed
  <2>2. hp[1] \in Hash /\ hp[2] \in Payloads
    BY <1>2
  <2>3. Append(hp[1], hp[2]) \in Hash
    BY <2>2 DEF Hash
  <2>4. QED
    BY <1>1, <2>1, <2>2, <2>3 DEF Untrusted, LogEntry
<1>6. CASE x \in Unsigned(e)
  BY <1>1, <1>2, <1>6 DEF Untrusted, LogEntry, Unsigned
<1>7. QED
  BY <1>3, <1>4, <1>5, <1>6 DEF Alterations

\* Every page, whoever answers, is a sequence of log entries that carry the
\* notary's signatures or none.
LEMMA NotaryPages ==
  ASSUME TypeOK, LogIsSigned, NEW page \in NextPages
  PROVE  page \in Seq(Untrusted)
<1>1. PICK n \in 0..MaxPage :
        /\ IF n = 0 THEN since >= Len(log) ELSE since + n <= Len(log)
        /\ page = [j \in 1..n |-> Genuine(SubSeq(log, 1, since + j))]
  BY DEF NextPages
<1>2. ASSUME NEW j \in 1..n PROVE Genuine(SubSeq(log, 1, since + j)) \in Untrusted
  <2>1. since + j \in 1..Len(log)
    BY <1>1, BoundAssumption DEF TypeOK, Hash
  <2>2. SubSeq(log, 1, since + j) \in signed
    BY <2>1 DEF LogIsSigned
  <2>3. QED
    BY <2>2, GenuineType DEF TypeOK, Untrusted
<1>3. QED
  BY <1>1, <1>2, BoundAssumption

LEMMA MirroredPages ==
  ASSUME TypeOK, NEW page \in MirrorPages
  PROVE  page \in Seq(Untrusted)
<1>1. {Genuine(h) : h \in signed} \subseteq Untrusted
  BY GenuineType DEF TypeOK, Untrusted
<1>2. PICK n \in 0..MaxPage : page \in [1..n -> {Genuine(h) : h \in signed}]
  BY DEF MirrorPages
<1>3. QED
  BY <1>1, <1>2, BoundAssumption

LEMMA AlteredPages ==
  ASSUME TypeOK, NEW page \in MirrorPages, NEW k \in DOMAIN page, NEW e \in Alterations(page[k])
  PROVE  [page EXCEPT ![k] = e] \in Seq(Untrusted)
<1>1. page \in Seq(Untrusted) /\ page[k] \in Untrusted
  BY MirroredPages
<1>2. e \in Untrusted
  BY <1>1, AlteredType
<1>3. QED
  BY <1>1, <1>2

\* What a page does to the reader.
LEMMA AnswerType ==
  ASSUME TypeOK, NEW page \in Seq(Untrusted), Answer(page)
  PROVE  /\ entries' \in Seq(LogEntry) /\ Len(entries') <= MaxEntries
         /\ since' \in Nat
         /\ index' = index /\ index \in 0..Len(entries')
         /\ pc' \in {"fetch", "verify", "failed"}
         /\ entries' = entries \/ entries' = entries \o page
<1>1. page \in Seq(LogEntry)
  BY DEF Untrusted
<1>2. CASE Received(page)
  <2>1. page[Len(page)] \in LogEntry
    BY <1>1, <1>2 DEF Received
  <2>2. since' \in Nat
    BY <1>2, <2>1 DEF Received, LogEntry
  <2>3. entries \o page \in Seq(LogEntry) /\ Len(entries \o page) = Len(entries) + Len(page)
    BY <1>1 DEF TypeOK
  <2>4. QED
    BY <1>1, <1>2, <2>2, <2>3, BoundAssumption DEF Received, WithinLimit, TypeOK, Answer
<1>3. CASE Refused(page) \/ Ended(page)
  BY <1>3 DEF Refused, Ended, TypeOK, Answer
<1>4. QED
  BY <1>2, <1>3 DEF Answer

\* The three ways a page arrives.
LEMMA PageReceived ==
  ASSUME TypeOK, LogIsSigned, FromNotary \/ FromMirror \/ FromMirrorAltered
  PROVE  /\ \E page \in Seq(Untrusted) : Answer(page)
         /\ altered' \in 0..MaxAltered
<1>1. CASE FromNotary
  BY <1>1, NotaryPages DEF FromNotary, TypeOK
<1>2. CASE FromMirror
  BY <1>2, MirroredPages DEF FromMirror, TypeOK
<1>3. CASE FromMirrorAltered
  <2>1. PICK page \in MirrorPages : \E k \in DOMAIN page : \E e \in Alterations(page[k]) :
          Answer([page EXCEPT ![k] = e])
    BY <1>3 DEF FromMirrorAltered
  <2>2. altered' \in 0..MaxAltered
    BY <1>3, BoundAssumption DEF FromMirrorAltered, TypeOK
  <2>3. QED
    BY <2>1, <2>2, AlteredPages
<1>4. QED
  BY <1>1, <1>2, <1>3

\* A replayed payload keeps the map of releases well typed.
LEMMA ReleasesType ==
  ASSUME TypeOK, NEW p \in Payloads
  PROVE  /\ ReleasesOf(p) \subseteq Releases
         /\ DOMAIN Published(p, releases) = DOMAIN releases \cup ReleasesOf(p)
         /\ DOMAIN Withdrawn(p, releases) = DOMAIN releases \ ReleasesOf(p)
         /\ \A r \in DOMAIN Published(p, releases) : Published(p, releases)[r] \in Payloads
         /\ \A r \in DOMAIN Withdrawn(p, releases) : Withdrawn(p, releases)[r] \in Payloads
<1>1. p.pkg \in Packages /\ p.versions \subseteq Versions
  BY PayloadAssumption DEF Payload
<1>2. ReleasesOf(p) \subseteq Releases
  BY <1>1 DEF ReleasesOf, Releases
<1>3. QED
  BY <1>2 DEF Published, Withdrawn, TypeOK

LEMMA InitType == Init => TypeOK /\ LogIsSigned
BY BoundAssumption DEF Init, TypeOK, LogIsSigned, Hash

LEMMA NotaryType ==
  ASSUME TypeOK, LogIsSigned, Notary
  PROVE  TypeOK' /\ LogIsSigned'
<1>1. ASSUME NEW p \in Payloads, Notarize(p) PROVE TypeOK' /\ LogIsSigned'
  <2>1. log' \in Hash /\ log' # <<>> /\ Len(log') = Len(log) + 1 /\ Len(log) \in Nat
    BY <1>1 DEF Notarize, TypeOK, Hash
  <2>2. TypeOK'
    BY <1>1, <2>1 DEF Notarize, TypeOK, reader
  <2>3. ASSUME NEW n \in 1..Len(log') PROVE SubSeq(log', 1, n) \in signed'
    <3>1. CASE n = Len(log')
      BY <1>1, <2>1, <3>1, WholePrefix DEF Notarize, Hash
    <3>2. CASE n # Len(log')
      <4>1. n \in 1..Len(log) /\ n \in 0..Len(log)
        BY <2>1, <3>2
      <4>2. SubSeq(log', 1, n) = SubSeq(log, 1, n)
        BY <1>1, <4>1, PrefixOfAppend DEF Notarize, TypeOK, Hash
      <4>3. QED
        BY <1>1, <4>1, <4>2 DEF Notarize, LogIsSigned
    <3>3. QED
      BY <3>1, <3>2
  <2>4. QED
    BY <2>2, <2>3 DEF LogIsSigned
<1>2. CASE Restore
  <2>1. PICK n \in 0..Len(log) : n < Len(log) /\ log' = SubSeq(log, 1, n)
    BY <1>2 DEF Restore
  <2>2. log' \in Hash /\ Len(log') = n /\ Len(log) \in Nat
    BY <2>1 DEF TypeOK, Hash
  <2>3. TypeOK'
    BY <1>2, <2>2, BoundAssumption DEF Restore, TypeOK, reader
  <2>4. ASSUME NEW m \in 1..Len(log') PROVE SubSeq(log', 1, m) \in signed'
    <3>1. m \in 1..Len(log) /\ m \in 0..n
      BY <2>1, <2>2
    <3>2. SubSeq(log', 1, m) = SubSeq(log, 1, m)
      BY <2>1, <3>1, PrefixOfPrefix DEF TypeOK, Hash
    <3>3. QED
      BY <1>2, <3>1, <3>2 DEF Restore, LogIsSigned
  <2>5. QED
    BY <2>3, <2>4 DEF LogIsSigned
<1>3. QED
  BY <1>1, <1>2 DEF Notary

LEMMA ReaderType ==
  ASSUME TypeOK, LogIsSigned, Reader
  PROVE  TypeOK' /\ LogIsSigned'
<1>1. log' = log /\ signed' = signed /\ restores' = restores
  BY DEF Reader, Begin, Page, FromNotary, FromMirror, FromMirrorAltered, Answer, FetchFails,
         Verify, Verified, Apply, Applied, notary
<1>2. LogIsSigned'
  BY <1>1 DEF LogIsSigned
<1> SUFFICES TypeOK'
  BY <1>2
<1>3. CASE Begin
  BY <1>1, <1>3 DEF Begin, TypeOK, Hash
<1>4. CASE FromNotary \/ FromMirror \/ FromMirrorAltered
  <2>1. PICK page \in Seq(Untrusted) : Answer(page)
    BY <1>4, PageReceived
  <2>2. QED
    BY <1>1, <1>4, <2>1, PageReceived, AnswerType DEF Answer, TypeOK
<1>5. CASE FetchFails
  BY <1>1, <1>5 DEF FetchFails, TypeOK
<1>6. CASE Verify
  BY <1>1, <1>6 DEF Verify, TypeOK
<1>7. CASE Verified
  BY <1>1, <1>7 DEF Verified, TypeOK
<1>8. CASE Apply
  <2>1. Current \in LogEntry /\ index + 1 \in 0..Len(entries)
    BY <1>8 DEF Apply, Current, TypeOK
  <2>2. Current.payload \in Payloads
    BY <2>1 DEF LogEntry
  <2>3. DOMAIN releases' \subseteq Releases /\ \A r \in DOMAIN releases' : releases'[r] \in Payloads
    BY <1>8, <2>2, ReleasesType DEF Apply, TypeOK
  <2>4. QED
    BY <1>1, <1>8, <2>1, <2>3 DEF Apply, TypeOK
<1>9. CASE Applied
  BY <1>1, <1>9 DEF Applied, TypeOK
<1>10. QED
  BY <1>3, <1>4, <1>5, <1>6, <1>7, <1>8, <1>9 DEF Reader, Page

\* Whatever is in the log or on the wire, the reader keeps within its types and limits,
\* and every beginning of the notary's log is signed (client.go: FullLog, VerifyChain).
THEOREM TypeCorrect == Spec => [](TypeOK /\ LogIsSigned)
<1>1. TypeOK /\ LogIsSigned /\ [Next]_vars => TypeOK' /\ LogIsSigned'
  <2>1. ASSUME TypeOK, LogIsSigned, UNCHANGED vars PROVE TypeOK' /\ LogIsSigned'
    BY <2>1 DEF vars, notary, reader, TypeOK, LogIsSigned
  <2>2. QED
    BY <2>1, NotaryType, ReaderType DEF Next, Terminating
<1>2. QED
  BY <1>1, InitType, PTL DEF Spec

-----------------------------------------------------------------------------
(* The replay of a history                                                 *)

\* Adding a payload to a history leaves standing what it does not withdraw.
LEMMA StandsAfter ==
  ASSUME NEW h \in Hash, NEW p \in Payloads, NEW r \in Releases, NEW i \in 1..Len(h) + 1
  PROVE  LET g == Append(h, p)
         IN StandsAt(g, i, r) <=>
              IF i = Len(h) + 1
              THEN p.op = "publish" /\ r \in ReleasesOf(p)
              ELSE StandsAt(h, i, r) /\ ~(p.op = "delete" /\ r[1] = p.pkg)
<1> DEFINE g == Append(h, p)
<1>1. /\ g \in Hash /\ Len(h) \in Nat
      /\ DOMAIN h = 1..Len(h) /\ DOMAIN g = 1..Len(h) + 1
      /\ g[Len(h) + 1] = p
      /\ \A j \in 1..Len(h) : g[j] = h[j]
  BY DEF Hash
<1> HIDE DEF g
<1>2. CASE i = Len(h) + 1
  BY <1>1, <1>2 DEF StandsAt, PublishedAt
<1>3. CASE i # Len(h) + 1
  <2>1. i \in 1..Len(h) /\ g[i] = h[i]
    BY <1>1, <1>3
  <2>2. (\A j \in DOMAIN g : j > i => ~WithdrawnAt(g, j, r)) <=>
          /\ \A j \in DOMAIN h : j > i => ~WithdrawnAt(h, j, r)
          /\ ~WithdrawnAt(g, Len(h) + 1, r)
    <3>1. \A j \in 1..Len(h) : WithdrawnAt(g, j, r) <=> WithdrawnAt(h, j, r)
      BY <1>1 DEF WithdrawnAt
    <3>2. Len(h) + 1 > i /\ Len(h) + 1 \in DOMAIN g
      BY <1>1, <2>1
    <3>3. \A j \in DOMAIN g : j \in 1..Len(h) \/ j = Len(h) + 1
      BY <1>1
    <3>4. QED
      BY <1>1, <3>1, <3>2, <3>3
  <2>3. WithdrawnAt(g, Len(h) + 1, r) <=> p.op = "delete" /\ r[1] = p.pkg
    BY <1>1 DEF WithdrawnAt
  <2>4. PublishedAt(g, i, r) <=> PublishedAt(h, i, r)
    BY <2>1 DEF PublishedAt
  <2>5. QED
    BY <1>3, <2>2, <2>3, <2>4 DEF StandsAt, g
<1>4. QED
  BY <1>2, <1>3 DEF g

\* A replay holds exactly what is active.
LEMMA ReplayIsActive ==
  ASSUME NEW rel, NEW h, IsReplay(rel, h), DOMAIN rel \subseteq Releases
  PROVE  DOMAIN rel = Active(h)
BY DEF IsReplay, Active

\* apply keeps the replay true for a release ...
LEMMA ReplayPublish ==
  ASSUME NEW h \in Hash, NEW p \in Payloads, NEW rel,
         IsReplay(rel, h), DOMAIN rel \subseteq Releases, ReleasesOf(p) \subseteq Releases,
         Publishes(p, DOMAIN rel)
  PROVE  IsReplay(Published(p, rel), Append(h, p))
<1> DEFINE g == Append(h, p)
           new == Published(p, rel)
<1>1. DOMAIN g = 1..Len(h) + 1 /\ DOMAIN h = 1..Len(h) /\ Len(h) \in Nat
      /\ g[Len(h) + 1] = p /\ \A j \in 1..Len(h) : g[j] = h[j]
  BY DEF Hash
<1>2. p.op = "publish" /\ ReleasesOf(p) \cap DOMAIN rel = {}
  BY DEF Publishes
<1>3. DOMAIN new = DOMAIN rel \cup ReleasesOf(p)
      /\ \A r \in DOMAIN new : new[r] = IF r \in ReleasesOf(p) THEN p ELSE rel[r]
  BY DEF Published
<1>4. \A r \in Releases : \A i \in 1..Len(h) + 1 :
        StandsAt(g, i, r) <=> IF i = Len(h) + 1 THEN r \in ReleasesOf(p) ELSE StandsAt(h, i, r)
  BY <1>2, StandsAfter
<1> HIDE DEF g, new
<1>5. ASSUME NEW r \in DOMAIN new PROVE \E i \in DOMAIN g : StandsAt(g, i, r)
  <2>1. CASE r \in ReleasesOf(p)
    BY <1>1, <1>4, <2>1
  <2>2. CASE r \in DOMAIN rel
    <3>1. PICK i \in 1..Len(h) : StandsAt(h, i, r)
      BY <1>1, <2>2 DEF IsReplay
    <3>2. i \in 1..Len(h) + 1 /\ i # Len(h) + 1 /\ r \in Releases
      BY <1>1, <2>2
    <3>3. QED
      BY <1>1, <1>4, <3>1, <3>2
  <2>3. QED
    BY <1>3, <2>1, <2>2
<1>6. ASSUME NEW r \in Releases, NEW i \in DOMAIN g, StandsAt(g, i, r)
      PROVE  r \in DOMAIN new /\ new[r] = g[i]
  <2>1. CASE i = Len(h) + 1
    BY <1>1, <1>3, <1>4, <1>6, <2>1
  <2>2. CASE i # Len(h) + 1
    <3>1. i \in 1..Len(h) /\ i \in 1..Len(h) + 1
      BY <1>1, <2>2
    <3>2. r \in DOMAIN rel /\ rel[r] = h[i]
      BY <1>1, <1>4, <1>6, <2>2, <3>1 DEF IsReplay
    <3>3. QED
      BY <1>1, <1>2, <1>3, <3>1, <3>2
  <2>3. QED
    BY <2>1, <2>2
<1>7. QED
  BY <1>5, <1>6 DEF IsReplay, g, new

\* ... and for a withdrawal.
LEMMA ReplayWithdraw ==
  ASSUME NEW h \in Hash, NEW p \in Payloads, NEW rel,
         IsReplay(rel, h), DOMAIN rel \subseteq Releases,
         Withdraws(p, DOMAIN rel)
  PROVE  IsReplay(Withdrawn(p, rel), Append(h, p))
<1> DEFINE g == Append(h, p)
           new == Withdrawn(p, rel)
<1>1. DOMAIN g = 1..Len(h) + 1 /\ DOMAIN h = 1..Len(h) /\ Len(h) \in Nat
      /\ g[Len(h) + 1] = p /\ \A j \in 1..Len(h) : g[j] = h[j]
  BY DEF Hash
<1>2. p.op = "delete" /\ ReleasesOf(p) = {r \in DOMAIN rel : r[1] = p.pkg}
  BY DEF Withdraws
<1>3. /\ DOMAIN new = {r \in DOMAIN rel : r[1] # p.pkg}
      /\ \A r \in DOMAIN new : new[r] = rel[r]
  BY <1>2 DEF Withdrawn
<1>4. \A r \in Releases : \A i \in 1..Len(h) + 1 :
        StandsAt(g, i, r) <=> i # Len(h) + 1 /\ StandsAt(h, i, r) /\ r[1] # p.pkg
  BY <1>2, StandsAfter
<1> HIDE DEF g, new
<1>5. ASSUME NEW r \in DOMAIN new PROVE \E i \in DOMAIN g : StandsAt(g, i, r)
  <2>1. PICK i \in 1..Len(h) : StandsAt(h, i, r)
    BY <1>1, <1>3 DEF IsReplay
  <2>2. i \in 1..Len(h) + 1 /\ i # Len(h) + 1 /\ r \in Releases /\ r[1] # p.pkg
    BY <1>1, <1>3
  <2>3. QED
    BY <1>1, <1>4, <2>1, <2>2
<1>6. ASSUME NEW r \in Releases, NEW i \in DOMAIN g, StandsAt(g, i, r)
      PROVE  r \in DOMAIN new /\ new[r] = g[i]
  <2>1. i \in 1..Len(h) /\ StandsAt(h, i, r) /\ r[1] # p.pkg
    BY <1>1, <1>4, <1>6
  <2>2. QED
    BY <1>1, <1>3, <2>1 DEF IsReplay
<1>7. QED
  BY <1>5, <1>6 DEF IsReplay, g, new

-----------------------------------------------------------------------------
(* The inductive invariant                                                 *)

LEMMA InitInvariant == Init => IInv
BY DEF Init, IInv, LogIsSigned, SignaturesAreTheNotarys, ChainSoFar, VerifiedIsSigned,
       ReplayedSoFar, Replaying, Resolved

\* The notary's steps concern the reader only in that more is signed.
LEMMA NotaryInvariant ==
  ASSUME TypeOK, IInv, Notary
  PROVE  IInv'
<1>1. signed \subseteq signed' /\ UNCHANGED reader
  BY DEF Notary, Notarize, Restore
<1>2. LogIsSigned'
  BY NotaryType DEF IInv
<1>3. Chain' = Chain /\ Prev' = Prev
  BY <1>1 DEF reader, Chain, Prev
<1>4. SignaturesAreTheNotarys' /\ ChainSoFar' /\ VerifiedIsSigned'
  BY <1>1, <1>3 DEF IInv, SignaturesAreTheNotarys, ChainSoFar, VerifiedIsSigned, reader
<1>5. ReplayedSoFar'
  BY <1>1, <1>3 DEF IInv, ReplayedSoFar, Replaying, Resolved, SoundAt, reader
<1>6. QED
  BY <1>2, <1>4, <1>5 DEF IInv

\* FullLog: a page brings no signature but the notary's.
LEMMA FetchInvariant ==
  ASSUME TypeOK, IInv, Begin \/ Page
  PROVE  IInv'
<1>1. TypeOK' /\ LogIsSigned'
  BY ReaderType DEF IInv, Reader
<1>2. pc \in {"idle", "fetch"} /\ pc' \in {"fetch", "verify", "failed"} /\ index' = 0
      /\ releases' = releases /\ releases = <<>> /\ signed' = signed
  BY DEF Begin, Page, FromNotary, FromMirror, FromMirrorAltered, Answer, Received, Refused,
         Ended, FetchFails, notary, IInv, ChainSoFar, ReplayedSoFar
<1>3. SignaturesAreTheNotarys'
  <2>1. CASE Begin \/ FetchFails
    BY <2>1, <1>2 DEF Begin, FetchFails, IInv, SignaturesAreTheNotarys
  <2>2. CASE FromNotary \/ FromMirror \/ FromMirrorAltered
    <3>1. PICK page \in Seq(Untrusted) : Answer(page)
      BY <2>2, PageReceived DEF IInv
    <3>2. entries' = entries \/ entries' = entries \o page
      BY <3>1, AnswerType
    <3>3. entries \in Seq(Untrusted)
      <4>1. \A j \in 1..Len(entries) : entries[j] \in Untrusted
        BY DEF TypeOK, IInv, SignaturesAreTheNotarys, Untrusted
      <4>2. QED
        BY <4>1 DEF TypeOK
    <3>4. entries' \in Seq(Untrusted)
      BY <3>1, <3>2, <3>3, ConcatProperties
    <3>5. QED
      BY <1>2, <3>4 DEF SignaturesAreTheNotarys, Untrusted
  <2>3. QED
    BY <2>1, <2>2 DEF Page
<1>4. ChainSoFar'
  <2>1. Chain' \in Hash
    BY <1>1, PayloadsOf DEF TypeOK, Chain
  <2>2. SubSeq(Chain', 1, 0) = <<>>
    BY <2>1 DEF Hash
  <2>3. QED
    BY <1>2, <2>2 DEF ChainSoFar, Prev
<1>5. VerifiedIsSigned' /\ ReplayedSoFar'
  BY <1>2 DEF VerifiedIsSigned, ReplayedSoFar, Replaying, Resolved
<1>6. QED
  BY <1>1, <1>3, <1>4, <1>5 DEF IInv

\* VerifyChain: an entry that passes extends a signed history to a signed history.
LEMMA VerifyInvariant ==
  ASSUME TypeOK, IInv, Verify
  PROVE  IInv'
<1>1. pc = "verify" /\ index \in 0..Len(entries) - 1 /\ Len(entries) \in Nat
      /\ UNCHANGED <<notary, command, since, entries, altered, start, releases>>
  BY DEF Verify, TypeOK
<1>2. Chain' = Chain /\ Chain \in Hash /\ Len(Chain) = Len(entries)
      /\ Chain[index + 1] = entries[index + 1].payload
  BY <1>1, ChainType DEF TypeOK, Chain
<1>3. LogIsSigned' /\ SignaturesAreTheNotarys'
  BY <1>1 DEF IInv, LogIsSigned, SignaturesAreTheNotarys, notary
<1>4. ChainSoFar'
  <2>1. CASE Verifies(Current)
    <3>1. index' = index + 1 /\ pc' = "verify"
      BY <1>1, <2>1 DEF Verify
    <3>2. Prev' = Current.hash /\ Current.hash = Append(Prev, Current.payload)
          /\ Current.sig = Current.hash
      BY <1>1, <2>1, <3>1 DEF Prev, Current, Verifies
    <3>3. Prev = SubSeq(Chain, 1, index)
      BY <1>1 DEF IInv, ChainSoFar
    <3>4. Prev' = SubSeq(Chain, 1, index + 1)
      BY <1>1, <1>2, <3>2, <3>3, PrefixGrows DEF Current, Hash
    <3>5. Current.sig \in signed \cup {<<>>}
      BY <1>1 DEF IInv, SignaturesAreTheNotarys, Current
    <3>6. QED
      BY <1>1, <1>2, <3>1, <3>2, <3>4, <3>5 DEF ChainSoFar, notary
  <2>2. CASE ~Verifies(Current)
    BY <2>2 DEF Verify, ChainSoFar
  <2>3. QED
    BY <2>1, <2>2
<1>5. VerifiedIsSigned' /\ ReplayedSoFar'
  BY <1>1 DEF Verify, IInv, VerifiedIsSigned, ReplayedSoFar, Replaying, Resolved
<1>6. QED
  BY <1>3, <1>4, <1>5 DEF IInv

\* The whole chain is verified: it is a signed history, and none of it is replayed.
LEMMA VerifiedInvariant ==
  ASSUME TypeOK, IInv, Verified
  PROVE  IInv'
<1>1. pc = "verify" /\ index = Len(entries) /\ releases = <<>>
      /\ UNCHANGED <<notary, command, since, entries, altered, start, releases>>
  BY DEF Verified, IInv, ReplayedSoFar
<1>2. Chain' = Chain /\ Chain \in Hash /\ Len(Chain) = Len(entries) /\ Len(entries) \in Nat
  BY <1>1, ChainType DEF TypeOK, Chain
<1>3. LogIsSigned' /\ SignaturesAreTheNotarys'
  BY <1>1 DEF IInv, LogIsSigned, SignaturesAreTheNotarys, notary
<1>4. Chain \in signed \cup {<<>>}
  BY <1>1, <1>2, WholePrefix DEF IInv, ChainSoFar, Hash
<1>5. ChainSoFar' /\ VerifiedIsSigned'
  BY <1>1, <1>2, <1>4 DEF Verified, ChainSoFar, VerifiedIsSigned, notary
<1>6. ReplayedSoFar'
  <2>1. CASE command = "log"
    BY <1>1, <2>1 DEF Verified, ReplayedSoFar, Replaying, Resolved
  <2>2. CASE command # "log"
    <3>1. pc' = "apply" /\ index' = 0 /\ releases' = <<>>
      BY <1>1, <2>2 DEF Verified
    <3>2. SubSeq(Chain, 1, 0) = <<>>
      BY <1>2 DEF Hash
    <3>3. IsReplay(<<>>, <<>>)
      BY DEF IsReplay
    <3>4. IsReplay(releases, SubSeq(Chain, 1, index))'
      BY <1>2, <3>1, <3>2, <3>3
    <3>5. \A i \in 1..index' : SoundAt(i)'
      BY <3>1
    <3>6. QED
      BY <3>1, <3>4, <3>5 DEF ReplayedSoFar, Replaying, Resolved
  <2>3. QED
    BY <2>1, <2>2
<1>7. QED
  BY <1>3, <1>5, <1>6 DEF IInv

\* apply: the releases stay those of the part of the history that was replayed.
LEMMA ApplyInvariant ==
  ASSUME TypeOK, IInv, Apply
  PROVE  IInv'
<1> DEFINE h == SubSeq(Chain, 1, index)
           p == Current.payload
<1>1. pc = "apply" /\ index \in 0..Len(entries) - 1 /\ Len(entries) \in Nat
      /\ UNCHANGED <<notary, command, since, entries, altered, start>>
  BY DEF Apply, TypeOK
<1>2. /\ Chain' = Chain /\ Chain \in Hash /\ Len(Chain) = Len(entries)
      /\ p = Chain[index + 1] /\ p \in Payloads
      /\ h \in Hash /\ SubSeq(Chain, 1, index + 1) = Append(h, p)
  <2>1. Chain' = Chain /\ Chain \in Hash /\ Len(Chain) = Len(entries) /\ p = Chain[index + 1]
    BY <1>1, ChainType DEF TypeOK, Chain, Current
  <2>2. p \in Payloads /\ h \in Hash
    BY <1>1, <2>1 DEF Hash
  <2>3. QED
    BY <1>1, <2>1, <2>2, PrefixGrows DEF Hash
<1>3. LogIsSigned' /\ SignaturesAreTheNotarys' /\ ChainSoFar' /\ VerifiedIsSigned'
  BY <1>1, <1>2 DEF Apply, IInv, LogIsSigned, SignaturesAreTheNotarys, ChainSoFar,
                    VerifiedIsSigned, notary
<1>4. IsReplay(releases, h) /\ (\A i \in 1..index : SoundAt(i)) /\ DOMAIN releases \subseteq Releases
  BY <1>1 DEF IInv, ReplayedSoFar, Replaying, TypeOK
<1>5. DOMAIN releases = Active(h)
  BY <1>4, ReplayIsActive
<1>6. CASE ~Applicable(p, DOMAIN releases)
  <2>1. pc' = "failed"
    BY <1>6 DEF Apply, Applicable
  <2>2. QED
    BY <1>3, <2>1 DEF IInv, ReplayedSoFar, Replaying, Resolved
<1>7. CASE Applicable(p, DOMAIN releases)
  <2>1. index' = index + 1 /\ pc' = "apply"
    BY <1>1, <1>7 DEF Apply
  <2>2. IsReplay(releases', Append(h, p))
    <3>1. CASE Publishes(p, DOMAIN releases)
      <4>1. releases' = Published(p, releases)
        BY <1>7, <3>1 DEF Apply, Publishes, Withdraws
      <4>2. QED
        BY <1>2, <1>4, <3>1, <4>1, ReleasesType, ReplayPublish
    <3>2. CASE Withdraws(p, DOMAIN releases)
      <4>1. releases' = Withdrawn(p, releases)
        BY <1>7, <3>2 DEF Apply, Publishes, Withdraws
      <4>2. QED
        BY <1>2, <1>4, <3>2, <4>1, ReplayWithdraw
    <3>3. QED
      BY <1>7, <3>1, <3>2 DEF Applicable
  <2>3. SoundAt(index + 1)
    <3>1. Active(SubSeq(Chain, 1, (index + 1) - 1)) = Active(h) /\ Chain[index + 1] = p
      <4>1. (index + 1) - 1 = index
        BY <1>1
      <4>2. QED
        BY <1>2, <4>1
    <3>2. /\ p.op \in {"publish", "delete"}
          /\ p.op = "publish" => p.deps \subseteq Active(h) /\ ReleasesOf(p) \cap Active(h) = {}
          /\ p.op = "delete" => \A r \in Active(h) : r[1] = p.pkg => r \in ReleasesOf(p)
      BY <1>5, <1>7 DEF Applicable, Publishes, Withdraws
    <3>3. QED
      BY <3>1, <3>2 DEF SoundAt
  <2>4. \A i \in 1..index' : SoundAt(i)'
    <3>1. \A i \in 1..index + 1 : SoundAt(i)
      BY <1>1, <1>4, <2>3
    <3>2. QED
      BY <1>2, <2>1, <3>1 DEF SoundAt
  <2>5. QED
    BY <1>2, <1>3, <2>1, <2>2, <2>4 DEF IInv, ReplayedSoFar, Replaying, Resolved
<1>8. QED
  BY <1>6, <1>7

LEMMA AppliedInvariant ==
  ASSUME TypeOK, IInv, Applied
  PROVE  IInv'
<1>1. UNCHANGED <<notary, command, since, entries, altered, start, index, releases>>
      /\ pc = "apply" /\ pc' = "done" /\ index = Len(entries)
  BY DEF Applied
<1>2. Chain' = Chain /\ Prev' = Prev
  BY <1>1 DEF Chain, Prev
<1>3. LogIsSigned' /\ SignaturesAreTheNotarys' /\ ChainSoFar' /\ VerifiedIsSigned'
  BY <1>1, <1>2 DEF IInv, LogIsSigned, SignaturesAreTheNotarys, ChainSoFar, VerifiedIsSigned, notary
<1>4. ReplayedSoFar'
  BY <1>1, <1>2 DEF IInv, ReplayedSoFar, Replaying, Resolved, SoundAt
<1>5. QED
  BY <1>3, <1>4 DEF IInv

\* The reader's and the notary's steps keep the invariant.
THEOREM Invariant == Spec => []IInv
<1>1. TypeOK /\ IInv /\ [Next]_vars => IInv'
  <2>1. ASSUME IInv, UNCHANGED vars PROVE IInv'
    <3>1. UNCHANGED <<notary, reader>> /\ Chain' = Chain /\ Prev' = Prev
      BY <2>1 DEF vars, notary, reader, Chain, Prev
    <3>2. LogIsSigned' /\ SignaturesAreTheNotarys' /\ ChainSoFar' /\ VerifiedIsSigned'
      BY <2>1, <3>1 DEF notary, reader, IInv, LogIsSigned, SignaturesAreTheNotarys, ChainSoFar,
                        VerifiedIsSigned
    <3>3. ReplayedSoFar'
      BY <2>1, <3>1 DEF reader, IInv, ReplayedSoFar, Replaying, Resolved, SoundAt
    <3>4. QED
      BY <3>2, <3>3 DEF IInv
  <2>2. QED
    BY <2>1, NotaryInvariant, FetchInvariant, VerifyInvariant, VerifiedInvariant, ApplyInvariant,
       AppliedInvariant DEF Next, Terminating, Reader
<1>2. QED
  BY <1>1, InitInvariant, TypeCorrect, PTL DEF Spec

-----------------------------------------------------------------------------
(* What the invariant says about an invocation that ended well             *)

\* VerifyChain accepts nothing but one history of the notary, from genesis.
THEOREM VerifiedChainIsSigned == Spec => []VerifiedIsSigned
<1>1. IInv => VerifiedIsSigned
  BY DEF IInv
<1>2. QED
  BY <1>1, Invariant, PTL

\* The resolver holds exactly the releases that stand in that history.
THEOREM SnapshotMeansHistory == Spec => []SnapshotIsActive
<1>1. TypeOK /\ IInv => SnapshotIsActive
  <2> SUFFICES ASSUME TypeOK, IInv, Resolved, NEW r \in Releases
               PROVE  {Chain[i] : i \in {i \in DOMAIN Chain : StandsAt(Chain, i, r)}} =
                        IF r \in DOMAIN releases THEN {releases[r]} ELSE {}
    BY DEF SnapshotIsActive
  <2>1. IsReplay(releases, Chain)
    BY ChainType, WholePrefix DEF IInv, ReplayedSoFar, Replaying, TypeOK, Hash
  <2>2. CASE r \in DOMAIN releases
    BY <2>1, <2>2 DEF IsReplay
  <2>3. CASE r \notin DOMAIN releases
    BY <2>1, <2>3 DEF IsReplay
  <2>4. QED
    BY <2>2, <2>3
<1>2. QED
  BY <1>1, TypeCorrect, Invariant, PTL

\* A snapshot comes from a history that followed the notary's rules throughout.
THEOREM SnapshotHistoryIsSound == Spec => []HistoryIsSound
<1>1. TypeOK /\ IInv => HistoryIsSound
  <2>1. TypeOK => DOMAIN Chain = 1..Len(entries)
    BY ChainType DEF TypeOK, Hash
  <2>2. QED
    BY <2>1 DEF IInv, ReplayedSoFar, Replaying, HistoryIsSound
<1>2. QED
  BY <1>1, TypeCorrect, Invariant, PTL

-----------------------------------------------------------------------------
(* Nothing is missed                                                       *)

\* The entries of the notary's own page go on from "since" without a gap.
LEMMA NextPageContinues ==
  ASSUME TypeOK, LogIsSigned, NEW page \in NextPages
  PROVE  /\ page = <<>> => since >= Len(log)
         /\ page # <<>> => page[Len(page)].seq = since + Len(page)
<1>1. PICK n \in 0..MaxPage :
        /\ IF n = 0 THEN since >= Len(log) ELSE since + n <= Len(log)
        /\ page = [j \in 1..n |-> Genuine(SubSeq(log, 1, since + j))]
  BY DEF NextPages
<1>2. n \in Nat /\ Len(page) = n /\ DOMAIN page = 1..n
  BY <1>1, BoundAssumption
<1>3. page = <<>> => n = 0
  BY <1>2
<1>4. CASE n = 0
  <2>1. page \in Seq(Untrusted) /\ Len(page) = 0
    BY <1>2, <1>4, NotaryPages
  <2>2. page = <<>>
    BY <2>1, EmptySeq
  <2>3. QED
    BY <1>1, <1>4, <2>2
<1>5. CASE n # 0
  <2>1. page[n] = Genuine(SubSeq(log, 1, since + n))
    BY <1>1, <1>2, <1>5
  <2>2. Len(SubSeq(log, 1, since + n)) = since + n
    BY <1>1, <1>2, <1>5 DEF TypeOK, Hash
  <2>3. \A h : Genuine(h).seq = Len(h)
    BY DEF Genuine
  <2>4. page[n].seq = since + n
    BY <2>1, <2>2, <2>3
  <2>5. QED
    BY <1>2, <1>3, <1>5, <2>4
<1>6. QED
  BY <1>4, <1>5

\* FullLog has as many entries as "since" says, and stops only with as many as the log had
\* at the start, however the notary cuts its pages and goes on meanwhile.
THEOREM PagesContinue == Undisturbed => (Spec => []FetchedSoFar)
<1> SUFFICES ASSUME Undisturbed PROVE Spec => []FetchedSoFar
  OBVIOUS
<1>1. Init => FetchedSoFar
  BY DEF Init, FetchedSoFar
<1>2. ASSUME TypeOK, LogIsSigned, FetchedSoFar, [Next]_vars PROVE FetchedSoFar'
  <2> USE DEF FetchedSoFar
  <2>1. Len(log) \in Nat /\ start \in Nat /\ Len(entries) \in Nat /\ since \in Nat
    BY <1>2 DEF TypeOK, Hash
  <2>2. ASSUME NEW p \in Payloads, Notarize(p) PROVE FetchedSoFar'
    <3>1. Len(log') = Len(log) + 1
      BY <1>2, <2>2 DEF Notarize, TypeOK, Hash
    <3>2. QED
      BY <1>2, <2>1, <2>2, <3>1 DEF Notarize, reader
  <2>3. CASE Restore
    BY <1>2, <2>3 DEF Restore, Undisturbed, TypeOK
  <2>4. CASE Begin
    BY <1>2, <2>1, <2>4 DEF Begin, notary
  <2>5. CASE FromNotary
    <3>1. PICK page \in NextPages : Answer(page)
      BY <2>5 DEF FromNotary
    <3>2. page \in Seq(Untrusted) /\ pc = "fetch" /\ UNCHANGED <<log, start>>
      BY <1>2, <3>1, NotaryPages DEF Answer, notary
    <3>3. page \in Seq(LogEntry)
      BY <3>2 DEF Untrusted
    <3>4. CASE Received(page)
      <4>1. since' = since + Len(page) /\ entries' = entries \o page /\ pc' = pc
        BY <1>2, <3>1, <3>4, NextPageContinues DEF Received
      <4>2. Len(entries') = Len(entries) + Len(page)
        BY <1>2, <3>3, <4>1 DEF TypeOK
      <4>3. QED
        BY <1>2, <3>2, <4>1, <4>2
    <3>5. CASE Refused(page)
      BY <1>2, <3>2, <3>5 DEF Refused
    <3>6. CASE Ended(page)
      <4>1. since >= Len(log) /\ since = Len(entries)
        BY <1>2, <3>1, <3>2, <3>6, NextPageContinues DEF Ended
      <4>2. QED
        BY <1>2, <2>1, <3>2, <3>6, <4>1 DEF Ended
    <3>7. QED
      BY <3>1, <3>4, <3>5, <3>6 DEF Answer
  <2>6. CASE FromMirror \/ FromMirrorAltered
    BY <2>6 DEF FromMirror, FromMirrorAltered, Undisturbed
  <2>7. CASE FetchFails \/ Verify \/ Verified \/ Apply \/ Applied
    BY <1>2, <2>7 DEF FetchFails, Verify, Verified, Apply, Applied, notary
  <2>8. CASE UNCHANGED vars
    BY <1>2, <2>8 DEF vars, notary, reader
  <2>9. QED
    BY <1>2, <2>2, <2>3, <2>4, <2>5, <2>6, <2>7, <2>8 DEF Next, Notary, Reader, Page, Terminating
<1>3. QED
  BY <1>1, <1>2, TypeCorrect, PTL DEF Spec

\* FullLog pages until an empty page: an invocation that ends well has seen every entry
\* that was in the log when it began, however the log grew meanwhile and however the
\* notary cut its pages, if it asks the notary itself and no backup is restored.
THEOREM NothingIsMissed == Undisturbed => (Spec => []SeesAllFromStart)
<1>1. FetchedSoFar => SeesAllFromStart
  BY DEF FetchedSoFar, SeesAllFromStart
<1>2. QED
  BY <1>1, PagesContinue, PTL
=============================================================================
