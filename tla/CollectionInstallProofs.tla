---------------------- MODULE CollectionInstallProofs ----------------------
(* The bulk download accounts for every mod, and the manifest's order       *)
(* decides every conflict, for every manifest, every server and every       *)
(* number of downloads at a time.                                           *)
EXTENDS CollectionInstall, SequenceTheorems, FiniteSetTheorems,
        NaturalsInduction, WellFoundedInduction, TLAPS

Bulk == pc \in {"download", "persist"}

\* A result is an index and the id of its row, 0 if the download failed.
Outcome == Nat \X Nat

\* A row is a mod of a manifest.
Row == UNION {{m} \X Index(m) : m \in Manifest}

TallyType == [done : SUBSET Nat, failed : SUBSET Nat, manual : SUBSET Nat, stale : SUBSET Nat]

Typed ==
  /\ text \in Manifest \cup {None} /\ card \in Manifest \cup {None}
  /\ pc \in {"idle", "resolve", "download", "persist"} /\ (pc # "idle" => man \in Manifest)
  /\ queue \subseteq Nat /\ flight \subseteq Nat /\ landed \subseteq Outcome
  /\ results \in Seq(Outcome)
  /\ tally \in TallyType

\* The report on the screen and the one being made.
Statuses == {"Available", "Archived", "Unavailable", "Manual"}
Reported ==
  /\ report = None \/ \E m \in Manifest : report = <<m, ByHand(m)>>
  /\ pc = "resolve" =>
       /\ asked \in Seq(Statuses) /\ Len(asked) <= Len(Mods(man))
       /\ \A i \in 1 .. Len(asked) : asked[i] \in Possible(Mods(man)[i])

\* Ids are never used twice, and a pinned mod has the rank its place gives it.
Listed ==
  /\ next \in Nat \ {0}
  /\ \A id \in DOMAIN rows : id \in Nat \ {0} /\ id < next /\ rows[id] \in Row
  /\ DOMAIN pins \subseteq DOMAIN rows
  /\ \A id \in DOMAIN pins : pins[id] = Rank(rows[id][1], rows[id][2])

\* Where a fetchable mod is: still to start, under way, landed, collected, or
\* settled in the report.
Landed   == {r[1] : r \in landed}
Gathered == {results[k][1] : k \in DOMAIN results}
Settled  == tally.done \cup tally.failed

Apart ==
  /\ queue \cap (flight \cup Landed \cup Gathered \cup Settled) = {}
  /\ flight \cap (Landed \cup Gathered \cup Settled) = {}
  /\ Landed \cap (Gathered \cup Settled) = {}
  /\ Gathered \cap Settled = {}
  /\ tally.done \cap tally.failed = {}
  /\ \A r, s \in landed : r[1] = s[1] => r = s
  /\ \A j, k \in DOMAIN results : results[j][1] = results[k][1] => j = k

Everywhere ==
  /\ Fetchable(man) = queue \cup flight \cup Landed \cup Gathered
                       \cup tally.done \cup (tally.failed \ Unpinned(man))
  /\ Unpinned(man) \subseteq tally.failed
  /\ tally.manual = ByHand(man) /\ tally.stale \subseteq tally.done

\* A result with an id has its row and its tree, a mod reported downloaded its
\* pin as well.
Backed(i, id) ==
  id \in DOMAIN rows /\ rows[id] = <<man, i>> /\ Mods(man)[i].pin \in trees

Evidence ==
  /\ \A r \in landed : r[2] # 0 => Backed(r[1], r[2])
  /\ \A k \in DOMAIN results : results[k][2] # 0 => Backed(results[k][1], results[k][2])
  /\ \A i \in tally.done : \E id \in DOMAIN pins : Backed(i, id)

Counted ==
  /\ pc # "download" => queue = {} /\ flight = {} /\ landed = {}
  /\ ~ Bulk => results = <<>>
  /\ Bulk => report # None /\ Apart /\ Everywhere /\ Evidence

Inv == Typed /\ Reported /\ Listed /\ Counted

-----------------------------------------------------------------------------
(* Manifests and answers.                                                  *)

\* A parsed manifest numbers its mods from 1.
LEMMA Numbered ==
  ASSUME NEW m \in Manifest
  PROVE  /\ Len(Mods(m)) \in Nat /\ Index(m) = 1 .. Len(Mods(m))
         /\ \A i \in Index(m) : IsMod(Mods(m)[i])
  <1> DEFINE S == ToSet(Schema[m].mods)
  <1>1. Schema[m].mods \in Seq(S) /\ \A i \in DOMAIN Schema[m].mods : IsMod(Schema[m].mods[i])
    BY SchemaAssumption DEF IsCollection
  <1> HIDE DEF S
  <1> QED
    BY <1>1, LenProperties DEF Mods, Index

\* Only a mod that is not on Nexus is ever reported as one to fetch by hand.
LEMMA ManualIsByHand ==
  ASSUME NEW x, NEW s \in Possible(x), x.source \in SourceTypes
  PROVE  s \in Statuses /\ (s = "Manual" <=> x.source \in OffNexus)
  <1>1. CASE x.source = "bundle"
    <2>1. x.source # "nexus" /\ x.source \notin OffNexus
      BY <1>1 DEF OffNexus
    <2>2. Possible(x) = {"Available"}
      BY <1>1, <2>1, Zenon DEF Possible, OffNexus
    <2> QED
      BY <2>1, <2>2 DEF Statuses
  <1>2. CASE x.source \in OffNexus
    <2>1. x.source # "bundle" /\ x.source # "nexus"
      BY <1>2 DEF OffNexus
    <2>2. Possible(x) = {"Manual"}
      BY <1>2, <2>1, Zenon DEF Possible, OffNexus
    <2> QED
      BY <2>2, <1>2 DEF Statuses
  <1>3. CASE x.source = "nexus" /\ x.pin = None
    <2>1. x.source # "bundle" /\ x.source \notin OffNexus
      BY <1>3 DEF OffNexus
    <2>2. Possible(x) = {"Unavailable"}
      BY <1>3, <2>1, Zenon DEF Possible, OffNexus
    <2> QED
      BY <2>1, <2>2 DEF Statuses
  <1>4. CASE x.source = "nexus" /\ x.pin # None
    <2>1. x.source # "bundle" /\ x.source \notin OffNexus
      BY <1>4 DEF OffNexus
    <2>2. Possible(x) = Answers
      BY <1>4, <2>1, Zenon DEF Possible, OffNexus
    <2> QED
      BY <2>1, <2>2, CollectionAssumption DEF Statuses
  <1> QED
    BY <1>1, <1>2, <1>3, <1>4 DEF SourceTypes, OffNexus

\* The three parts of a manifest are sets of its indexes, each mod in one.
LEMMA Partition ==
  ASSUME NEW m \in Manifest
  PROVE  /\ Fetchable(m) \subseteq Nat /\ Unpinned(m) \subseteq Nat /\ ByHand(m) \subseteq Nat
         /\ Fetchable(m) \cap Unpinned(m) = {}
         /\ Index(m) = Fetchable(m) \cup Unpinned(m) \cup ByHand(m)
                        \cup {i \in Index(m) : Mods(m)[i].source = "bundle"}
  <1>1. Index(m) \subseteq Nat
    BY Numbered
  <1>2. \A i \in Index(m) : Mods(m)[i].source \in SourceTypes
    BY Numbered DEF IsMod
  <1> QED
    BY <1>1, <1>2 DEF Fetchable, Unpinned, ByHand, SourceTypes, OffNexus

-----------------------------------------------------------------------------
(* The sequence of the results.                                            *)

LEMMA Appended ==
  ASSUME NEW s \in Seq(Outcome), NEW r \in Outcome
  PROVE  /\ Append(s, r) \in Seq(Outcome) /\ DOMAIN s \subseteq Nat
         /\ DOMAIN Append(s, r) = DOMAIN s \cup {Len(s) + 1} /\ Len(s) + 1 \notin DOMAIN s
         /\ \A k \in DOMAIN s : Append(s, r)[k] = s[k]
         /\ Append(s, r)[Len(s) + 1] = r
  <1>1. /\ Len(s) \in Nat /\ DOMAIN s = 1 .. Len(s) /\ Append(s, r) \in Seq(Outcome)
        /\ DOMAIN Append(s, r) = 1 .. Len(s) + 1
    BY LenProperties, AppendProperties
  <1> QED
    BY <1>1, AppendProperties

LEMMA Shortened ==
  ASSUME NEW s \in Seq(Outcome), s # <<>>
  PROVE  /\ Head(s) = s[1] /\ 1 \in DOMAIN s /\ Tail(s) \in Seq(Outcome)
         /\ \A k \in DOMAIN Tail(s) : k + 1 \in DOMAIN s /\ k + 1 # 1 /\ Tail(s)[k] = s[k + 1]
         /\ \A k \in DOMAIN s : k = 1 \/ (k - 1 \in DOMAIN Tail(s) /\ Tail(s)[k - 1] = s[k])
  <1>1. /\ Len(s) \in Nat \ {0} /\ DOMAIN s = 1 .. Len(s) /\ Tail(s) \in Seq(Outcome)
        /\ DOMAIN Tail(s) = 1 .. Len(s) - 1
    BY LenProperties, HeadTailProperties, EmptySeq
  <1>2. Head(s) = s[1]
    BY <1>1
  <1>3. \A k \in 1 .. Len(s) - 1 : Tail(s)[k] = s[k + 1]
    BY <1>1, HeadTailProperties
  <1> QED
    BY <1>1, <1>2, <1>3

-----------------------------------------------------------------------------
(* The steps.                                                              *)

\* What Pin does to the report.
LEMMA PinTally ==
  ASSUME Typed, Pin, NEW i, i = Head(results)[1], NEW id, id = Head(results)[2]
  PROVE  /\ i \in Nat /\ id \in Nat /\ Head(results) = <<i, id>>
         /\ tally' \in TallyType /\ tally'.manual = tally.manual
         /\ id = 0 => /\ tally'.failed = tally.failed \cup {i} /\ tally'.done = tally.done
                      /\ tally'.stale = tally.stale /\ pins' = pins
         /\ id # 0 => /\ tally'.done = tally.done \cup {i} /\ tally'.failed = tally.failed
                      /\ tally'.stale \subseteq tally.stale \cup {i}
                      /\ pins' = Put(pins, id, RankOf(i, id))
  <1>1. Head(results) \in Outcome
    BY Shortened DEF Typed, Pin
  <1>2. i \in Nat /\ id \in Nat /\ Head(results) = <<i, id>>
    BY <1>1 DEF Outcome
  <1>3. tally \in TallyType
    BY DEF Typed
  <1>4. CASE id = 0
    <2>1. tally' = [tally EXCEPT !.failed = @ \cup {i}] /\ pins' = pins
      BY <1>4 DEF Pin
    <2> QED
      BY <1>2, <1>3, <1>4, <2>1 DEF TallyType
  <1>5. CASE id # 0
    <2> DEFINE old == IF Mods(man)[i].choices /\ Mods(man)[i].stale
                        THEN tally.stale \cup {i} ELSE tally.stale
    <2>1. /\ tally' = [tally EXCEPT !.done = @ \cup {i}, !.stale = old]
          /\ pins' = Put(pins, id, RankOf(i, id))
      BY <1>5 DEF Pin
    <2>2. old \subseteq tally.stale \cup {i} /\ old \subseteq Nat
      BY <1>2, <1>3 DEF TallyType
    <2> HIDE DEF old
    <2> QED
      BY <1>2, <1>3, <1>5, <2>1, <2>2 DEF TallyType
  <1> QED
    BY <1>2, <1>4, <1>5

LEMMA TypedStep ==
  ASSUME Inv, Next
  PROVE  Typed'
  <1> USE DEF Typed, session, cards, fetch, store
  <1>1. Typed
    BY DEF Inv
  <1>2. CASE Paste \/ Account \/ ResolveClick \/ ResolveNext \/ ResolveEnd \/ Start \/ Collected
    BY <1>1, <1>2 DEF Paste, Account, ResolveClick, ResolveNext, ResolveEnd, Start, Collected
  <1>3. CASE DownloadClick
    <2>1. text \in Manifest /\ man' = text
      BY <1>1, <1>3 DEF DownloadClick
    <2>2. tally' \in TallyType
      BY <1>3, <2>1, Partition DEF DownloadClick, NoTally, TallyType
    <2> QED
      BY <1>1, <1>3, <2>1, <2>2, Partition DEF DownloadClick
  <1>4. ASSUME NEW i \in flight, Fetched(i) PROVE Typed'
    <2>1. \E id \in {next, 0} \cup {0} : landed' = landed \cup {<<i, id>>}
      BY <1>4 DEF Fetched
    <2>2. next \in Nat /\ i \in Nat
      BY <1>1 DEF Inv, Listed
    <2>3. landed' \subseteq Outcome
      BY <1>1, <2>1, <2>2 DEF Outcome
    <2> QED
      BY <1>1, <1>4, <2>3 DEF Fetched
  <1>5. ASSUME NEW r \in landed, Collect(r) PROVE Typed'
    BY <1>1, <1>5, AppendProperties DEF Collect
  <1>6. CASE Pin
    <2>1. Head(results) \in Outcome /\ results' \in Seq(Outcome)
      BY <1>1, <1>6, Shortened DEF Pin
    <2>2. tally' \in TallyType
      BY <1>1, <1>6, PinTally
    <2> QED
      BY <1>1, <1>6, <2>1, <2>2 DEF Pin
  <1>7. CASE PinFails
    BY <1>1, <1>7, EmptySeq DEF PinFails, NoTally, TallyType
  <1>8. CASE DownloadEnd \/ DeployCollection \/ UninstallCollection
    BY <1>1, <1>8 DEF DownloadEnd, DeployCollection, UninstallCollection, Uninstalled
  <1> QED
    BY <1>2, <1>3, <1>4, <1>5, <1>6, <1>7, <1>8 DEF Next, Work

\* The availability report calls manual what the download leaves to the user.
LEMMA ReportedStep ==
  ASSUME Inv, Next
  PROVE  Reported'
  <1> USE DEF session, cards, fetch, store
  <1>1. Reported /\ (pc # "idle" => man \in Manifest) /\ text \in Manifest \cup {None}
    BY DEF Inv, Typed
  <1>2. CASE ResolveClick
    BY <1>1, <1>2, EmptySeq, Numbered, CollectionAssumption DEF ResolveClick, Reported
  <1>3. CASE ResolveNext
    <2> DEFINE n == Len(asked) + 1
    <2>1. /\ man \in Manifest /\ Len(asked) < Len(Mods(man)) /\ asked \in Seq(Statuses)
          /\ \A i \in 1 .. Len(asked) : asked[i] \in Possible(Mods(man)[i])
      BY <1>1, <1>3 DEF ResolveNext, Reported
    <2>2. Len(asked) \in Nat /\ n \in Index(man)
      BY <2>1, Numbered, LenProperties
    <2>3. PICK s \in Possible(Mods(man)[n]) : asked' = Append(asked, s)
      BY <1>3 DEF ResolveNext
    <2>4. Mods(man)[n].source \in SourceTypes
      BY <2>1, <2>2, Numbered DEF IsMod
    <2>5. s \in Statuses
      BY <2>4, ManualIsByHand
    <2>6. /\ asked' \in Seq(Statuses) /\ Len(asked') = n /\ asked'[n] = s
          /\ \A i \in 1 .. Len(asked) : asked'[i] = asked[i]
      BY <2>1, <2>3, <2>5, AppendProperties
    <2>7. n <= Len(Mods(man)) /\ \A i \in 1 .. n : asked'[i] \in Possible(Mods(man)[i])
      BY <2>1, <2>2, <2>3, <2>6, Numbered
    <2> HIDE DEF n
    <2>8. man' = man /\ report' = report
      BY <1>3 DEF ResolveNext
    <2> QED
      BY <1>1, <2>6, <2>7, <2>8 DEF Reported
  <1>4. CASE ResolveEnd
    <2>1. pc' # "resolve" /\ man \in Manifest
      BY <1>1, <1>4 DEF ResolveEnd
    <2>2. CASE report' = report
      BY <1>1, <2>1, <2>2 DEF Reported
    <2>3. CASE report' # report
      <3>1. /\ Len(asked) = Len(Mods(man))
            /\ report' = <<man, {i \in Index(man) : asked[i] = "Manual"}>>
        BY <1>4, <2>3 DEF ResolveEnd
      <3>2. \A i \in Index(man) :
              Mods(man)[i].source \in SourceTypes /\ asked[i] \in Possible(Mods(man)[i])
        BY <1>1, <1>4, <2>1, <3>1, Numbered DEF ResolveEnd, Reported, IsMod
      <3>3. \A i \in Index(man) : asked[i] = "Manual" <=> Mods(man)[i].source \in OffNexus
        BY <3>2, ManualIsByHand
      <3>4. report' = <<man, ByHand(man)>>
        BY <3>1, <3>3 DEF ByHand
      <3> QED
        BY <2>1, <3>4 DEF Reported
    <2> QED
      BY <2>2, <2>3
  <1>5. CASE DownloadClick \/ Paste \/ Account
    BY <1>1, <1>5 DEF DownloadClick, Paste, Account, Reported
  <1>6. CASE Start \/ Collected \/ Pin \/ PinFails \/ DownloadEnd \/ \E i \in flight : Fetched(i)
    <2>1. report' = report /\ (pc' = "resolve" => pc = "resolve") /\ asked' = asked
      BY <1>6 DEF Start, Collected, Pin, PinFails, DownloadEnd, Fetched
    <2>2. pc' = "resolve" => man' = man
      BY <1>6 DEF Start, Collected, Pin, PinFails, DownloadEnd, Fetched
    <2> QED
      BY <1>1, <2>1, <2>2 DEF Reported
  <1>7. CASE DeployCollection \/ UninstallCollection \/ \E r \in landed : Collect(r)
    BY <1>1, <1>7 DEF DeployCollection, UninstallCollection, Collect, Reported
  <1> QED
    BY <1>2, <1>3, <1>4, <1>5, <1>6, <1>7 DEF Next, Work

LEMMA ListedStep ==
  ASSUME Inv, Next
  PROVE  Listed'
  <1> USE DEF session, cards, fetch, store
  <1>1. Typed /\ Listed
    BY DEF Inv
  <1>2. CASE UNCHANGED <<rows, next, pins>>
    BY <1>1, <1>2 DEF Listed
  <1>3. ASSUME NEW i \in flight, Fetched(i) PROVE Listed'
    <2>1. CASE UNCHANGED <<rows, next, trees>>
      BY <1>1, <1>3, <2>1 DEF Fetched, Listed
    <2>2. CASE rows' = Put(rows, next, <<man, i>>) /\ next' = next + 1
      <3>1. Bulk
        BY <1>3 DEF Inv, Counted, Bulk
      <3>2. man \in Manifest /\ i \in Index(man)
        BY <1>1, <3>1 DEF Bulk, Inv, Typed, Counted, Everywhere, Fetchable
      <3>3. <<man, i>> \in Row
        BY <3>2 DEF Row
      <3>4. /\ DOMAIN rows' = DOMAIN rows \cup {next} /\ next \notin DOMAIN rows
            /\ rows'[next] = <<man, i>> /\ \A id \in DOMAIN rows : rows'[id] = rows[id]
        BY <1>1, <2>2 DEF Put, Listed
      <3>5. pins' = pins
        BY <1>3 DEF Fetched
      <3> QED
        BY <1>1, <2>2, <3>3, <3>4, <3>5 DEF Listed
    <2> QED
      BY <1>3, <2>1, <2>2 DEF Fetched
  <1>4. CASE Pin
    <2> DEFINE i == Head(results)[1]  id == Head(results)[2]
    <2>1. rows' = rows /\ next' = next
      BY <1>4 DEF Pin
    <2>2. CASE id = 0
      <3>1. pins' = pins
        BY <1>1, <1>4, <2>2, PinTally
      <3> QED
        BY <1>1, <2>1, <3>1 DEF Listed
    <2>3. CASE id # 0
      <3>1. pins' = Put(pins, id, Rank(man, i))
        BY <1>1, <1>4, <2>3, PinTally DEF RankOf
      <3>2. id \in DOMAIN rows /\ rows[id] = <<man, i>>
        BY <1>1, <1>4, <2>3, Shortened
           DEF Pin, Typed, Inv, Counted, Bulk, Evidence, Backed
      <3> HIDE DEF i, id
      <3>3. /\ DOMAIN pins' = DOMAIN pins \cup {id} /\ pins'[id] = Rank(man, i)
            /\ \A o \in DOMAIN pins : o # id => pins'[o] = pins[o]
        BY <3>1 DEF Put
      <3> QED
        BY <1>1, <2>1, <3>2, <3>3 DEF Listed
    <2> QED
      BY <2>2, <2>3
  <1>5. CASE UninstallCollection
    <2>1. /\ rows' = [id \in DOMAIN rows \ Members(card) |-> rows[id]]
          /\ pins' = [id \in DOMAIN pins \ Members(card) |-> pins[id]] /\ next' = next
      BY <1>5 DEF UninstallCollection, Uninstalled
    <2> QED
      BY <1>1, <2>1 DEF Listed
  <1>6. CASE Paste \/ Account \/ ResolveClick \/ ResolveNext \/ ResolveEnd \/ DownloadClick
             \/ Start \/ Collected \/ PinFails \/ DownloadEnd \/ DeployCollection
             \/ \E r \in landed : Collect(r)
    BY <1>2, <1>6 DEF Paste, Account, ResolveClick, ResolveNext, ResolveEnd, DownloadClick,
         Start, Collected, PinFails, DownloadEnd, DeployCollection, Collect
  <1> QED
    BY <1>3, <1>4, <1>5, <1>6 DEF Next, Work

\* The sets of indexes that the landed and the collected results stand for.
LEMMA LandedIs ==
  ASSUME Typed, NEW r \in landed
  PROVE  r = <<r[1], r[2]>> /\ r[1] \in Nat /\ r[2] \in Nat /\ r[1] \in Landed
  BY DEF Typed, Outcome, Landed

LEMMA CountedStep ==
  ASSUME Inv, Next
  PROVE  Counted'
  <1> USE DEF session, cards, fetch, store
  <1>1. Typed /\ Listed /\ Counted
    BY DEF Inv
  <1>2. CASE Paste \/ Account \/ ResolveClick \/ ResolveNext \/ ResolveEnd
             \/ DeployCollection \/ UninstallCollection
    <2>1. UNCHANGED <<fetch, tally>> /\ ~ Bulk /\ ~ Bulk' /\ pc # "download" /\ pc' # "download"
      BY <1>2 DEF Paste, Account, ResolveClick, ResolveNext, ResolveEnd,
           DeployCollection, UninstallCollection, Bulk
    <2> QED
      BY <1>1, <2>1 DEF Counted
  <1>3. CASE DownloadClick
    <2>1. /\ pc = "idle" /\ pc' = "download" /\ report # None /\ report' = report
          /\ man' \in Manifest /\ queue' = Fetchable(man')
          /\ flight' = flight /\ landed' = landed /\ results' = results
          /\ tally' = [NoTally EXCEPT !.failed = Unpinned(man'), !.manual = ByHand(man')]
      BY <1>1, <1>3 DEF DownloadClick, Typed
    <2>2. flight' = {} /\ landed' = {} /\ results' = <<>>
      BY <1>1, <2>1 DEF Counted, Bulk
    <2>3. /\ tally'.done = {} /\ tally'.failed = Unpinned(man')
          /\ tally'.manual = ByHand(man') /\ tally'.stale = {}
      BY <2>1 DEF NoTally
    <2>4. Landed' = {} /\ Gathered' = {} /\ Settled' = Unpinned(man')
      BY <2>2, <2>3 DEF Landed, Gathered, Settled
    <2>5. Fetchable(man') \cap Unpinned(man') = {}
      BY <2>1, Partition
    <2>6. Apart'
      BY <2>1, <2>2, <2>3, <2>4, <2>5 DEF Apart
    <2>7. Everywhere'
      BY <2>1, <2>2, <2>3, <2>4 DEF Everywhere
    <2>8. Evidence'
      BY <2>2, <2>3 DEF Evidence
    <2> QED
      BY <2>1, <2>6, <2>7, <2>8 DEF Counted, Bulk
  <1>4. CASE Start
    <2>1. Bulk /\ Bulk' /\ pc' = "download" /\ UNCHANGED <<report, man, landed, results, tally, rows, pins, trees>>
      BY <1>4 DEF Start, Bulk
    <2>2. PICK i \in queue : flight' = flight \cup {i} /\ queue' = queue \ {i}
      BY <1>4 DEF Start
    <2>3. Landed' = Landed /\ Gathered' = Gathered /\ Settled' = Settled
      BY <2>1 DEF Landed, Gathered, Settled
    <2>4. Apart'
      BY <1>1, <2>1, <2>2, <2>3 DEF Counted, Apart
    <2>5. Everywhere'
      BY <1>1, <2>1, <2>2, <2>3 DEF Counted, Everywhere
    <2>6. Evidence'
      BY <1>1, <2>1 DEF Counted, Evidence, Backed
    <2> QED
      BY <1>1, <2>1, <2>4, <2>5, <2>6 DEF Counted
  <1>5. ASSUME NEW i \in flight, Fetched(i) PROVE Counted'
    <2>1. /\ Bulk /\ Bulk' /\ pc' = "download" /\ pc = "download"
          /\ UNCHANGED <<report, man, queue, results, tally, pins>>
      BY <1>1, <1>5 DEF Fetched, Bulk, Counted
    <2>2. PICK id \in Nat : landed' = landed \cup {<<i, id>>} /\ (id # 0 => Backed(i, id)')
      <3>1. CASE UNCHANGED <<rows, next, trees>>
        BY <1>5, <3>1 DEF Fetched, Listed, Inv
      <3>2. CASE /\ rows' = Put(rows, next, <<man, i>>) /\ next' = next + 1
                 /\ trees' = trees \cup {Mods(man)[i].pin}
        <4>1. next \in Nat
          BY DEF Inv, Listed
        <4>2. PICK id \in {next, 0} : landed' = landed \cup {<<i, id>>}
          BY <1>5, <3>2, <4>1 DEF Fetched
        <4>3. /\ next \in DOMAIN rows' /\ rows'[next] = <<man, i>>
              /\ Mods(man)[i].pin \in trees' /\ man' = man
          BY <2>1, <3>2 DEF Put
        <4>4. id # 0 => Backed(i, id)'
          BY <4>2, <4>3 DEF Backed
        <4> QED
          BY <4>1, <4>2, <4>4
      <3> QED
        BY <1>5, <3>1, <3>2 DEF Fetched
    <2>3. \A j, o : Backed(j, o) => Backed(j, o)'
      <3>1. CASE UNCHANGED <<rows, next, trees>>
        BY <2>1, <3>1 DEF Backed
      <3>2. CASE /\ rows' = Put(rows, next, <<man, i>>) /\ next' = next + 1
                 /\ trees' = trees \cup {Mods(man)[i].pin}
        <4>1. next \notin DOMAIN rows
          BY <1>1 DEF Listed
        <4> QED
          BY <2>1, <3>2, <4>1 DEF Backed, Put
      <3> QED
        BY <1>5, <3>1, <3>2 DEF Fetched
    <2>4. flight' = flight \ {i}
      BY <1>5 DEF Fetched
    <2>5. Landed' = Landed \cup {i} /\ Gathered' = Gathered /\ Settled' = Settled
      <3>1. Landed' = {r[1] : r \in landed \cup {<<i, id>>}} /\ <<i, id>>[1] = i
        BY <2>2 DEF Landed
      <3>2. Landed' = Landed \cup {i}
        BY <3>1 DEF Landed
      <3> QED
        BY <2>1, <3>2 DEF Gathered, Settled
    <2>6. i \notin Landed /\ Apart
      BY <1>1, <2>1 DEF Counted, Apart
    <2>7. Apart'
      <3>1. \A r, s \in landed' : r[1] = s[1] => r = s
        BY <1>1, <2>2, <2>6 DEF Apart, Landed
      <3> QED
        BY <2>1, <2>4, <2>5, <2>6, <3>1 DEF Apart
    <2>8. Everywhere'
      BY <1>1, <2>1, <2>4, <2>5 DEF Counted, Everywhere
    <2>9. Evidence'
      <3>1. \A r \in landed' : r[2] # 0 => Backed(r[1], r[2])'
        BY <1>1, <2>1, <2>2, <2>3 DEF Counted, Evidence
      <3>2. \A k \in DOMAIN results : results[k][2] # 0 => Backed(results[k][1], results[k][2])'
        BY <1>1, <2>1, <2>3 DEF Counted, Evidence
      <3>3. \A j \in tally.done : \E o \in DOMAIN pins : Backed(j, o)'
        BY <1>1, <2>1, <2>3 DEF Counted, Evidence
      <3> QED
        BY <2>1, <3>1, <3>2, <3>3 DEF Evidence, Backed
    <2> QED
      BY <1>1, <2>1, <2>7, <2>8, <2>9 DEF Counted
  <1>6. ASSUME NEW r \in landed, Collect(r) PROVE Counted'
    <2>1. /\ pc = "download" /\ pc' = "download" /\ Bulk /\ Bulk' /\ results' = Append(results, r)
          /\ landed' = landed \ {r} /\ UNCHANGED <<report, man, queue, flight, tally, rows, pins, trees>>
      BY <1>1, <1>6 DEF Collect, Bulk, Counted
    <2>2. /\ r = <<r[1], r[2]>> /\ r \in Outcome /\ r[1] \in Landed /\ r[1] \notin Gathered
          /\ \A s \in landed : s[1] = r[1] => s = r
      BY <1>1, <2>1, LandedIs DEF Typed, Counted, Apart
    <2> DEFINE n == Len(results) + 1
    <2>3. /\ DOMAIN results' = DOMAIN results \cup {n} /\ n \notin DOMAIN results /\ results'[n] = r
          /\ \A k \in DOMAIN results : results'[k] = results[k]
      BY <1>1, <2>1, <2>2, Appended DEF Typed
    <2> HIDE DEF n
    <2>4. Gathered' = Gathered \cup {r[1]}
      BY <2>3 DEF Gathered
    <2>5. Landed' = Landed \ {r[1]} /\ Settled' = Settled
      BY <2>1, <2>2 DEF Landed, Settled
    <2>6. Apart'
      <3>1. \A j, k \in DOMAIN results' : results'[j][1] = results'[k][1] => j = k
        BY <1>1, <2>1, <2>2, <2>3 DEF Counted, Apart, Gathered
      <3>2. \A s, t \in landed' : s[1] = t[1] => s = t
        BY <1>1, <2>1 DEF Counted, Apart
      <3> QED
        BY <1>1, <2>1, <2>2, <2>4, <2>5, <3>1, <3>2 DEF Counted, Apart
    <2>7. Everywhere'
      BY <1>1, <2>1, <2>2, <2>4, <2>5 DEF Counted, Everywhere
    <2>8. Evidence'
      BY <1>1, <2>1, <2>2, <2>3 DEF Counted, Evidence, Backed
    <2> QED
      BY <1>1, <2>1, <2>6, <2>7, <2>8 DEF Counted
  <1>7. CASE Collected
    <2>1. /\ Bulk /\ Bulk' /\ queue = {} /\ flight = {} /\ landed = {}
          /\ UNCHANGED <<report, man, queue, flight, landed, results, tally, rows, pins, trees>>
      BY <1>7 DEF Collected, Bulk
    <2>2. Landed' = Landed /\ Gathered' = Gathered /\ Settled' = Settled
      BY <2>1 DEF Landed, Gathered, Settled
    <2>3. Apart' /\ Everywhere' /\ Evidence'
      BY <1>1, <2>1, <2>2 DEF Counted, Apart, Everywhere, Evidence, Backed
    <2> QED
      BY <1>1, <2>1, <2>3 DEF Counted
  <1>8. CASE Pin
    <2> DEFINE i == Head(results)[1]  id == Head(results)[2]
    <2>1. /\ Bulk /\ Bulk' /\ pc' = "persist" /\ pc = "persist" /\ results' = Tail(results) /\ results # <<>>
          /\ UNCHANGED <<report, man, queue, flight, landed, rows, trees>>
      BY <1>8 DEF Pin, Bulk
    <2>2. /\ i \in Nat /\ id \in Nat /\ results[1] = <<i, id>> /\ 1 \in DOMAIN results
          /\ \A k \in DOMAIN results' :
               k + 1 \in DOMAIN results /\ k + 1 # 1 /\ results'[k] = results[k + 1]
          /\ \A k \in DOMAIN results :
               k = 1 \/ (k - 1 \in DOMAIN results' /\ results'[k - 1] = results[k])
      BY <1>1, <1>8, <2>1, PinTally, Shortened DEF Typed
    <2>3. DOMAIN results' \subseteq Nat
      BY <1>1, <2>1, Shortened, LenProperties DEF Typed
    <2>4. /\ tally'.manual = tally.manual
          /\ id = 0 => /\ tally'.failed = tally.failed \cup {i} /\ tally'.done = tally.done
                       /\ tally'.stale = tally.stale /\ pins' = pins
          /\ id # 0 => /\ tally'.done = tally.done \cup {i} /\ tally'.failed = tally.failed
                       /\ tally'.stale \subseteq tally.stale \cup {i}
                       /\ pins' = Put(pins, id, RankOf(i, id))
      BY <1>1, <1>8, PinTally
    <2>5. id # 0 => Backed(i, id)
      BY <1>1, <2>1, <2>2 DEF Counted, Evidence
    <2> HIDE DEF i, id
    <2>6. i \in Gathered /\ Landed' = Landed /\ Settled' = Settled \cup {i}
      BY <2>1, <2>2, <2>4 DEF Gathered, Landed, Settled
    <2>7. \A j, k \in DOMAIN results' : results'[j][1] = results'[k][1] => j = k
      BY <1>1, <2>1, <2>2, <2>3 DEF Counted, Apart
    <2>8. Gathered' = Gathered \ {i}
      <3>1. \A k \in DOMAIN results : results[k][1] = i <=> k = 1
        BY <1>1, <2>1, <2>2 DEF Counted, Apart
      <3>2. \A k \in DOMAIN results' : results'[k][1] \in Gathered /\ results'[k][1] # i
        BY <2>2, <3>1 DEF Gathered
      <3>3. \A x \in Gathered : x # i => x \in Gathered'
        BY <2>2, <3>1 DEF Gathered
      <3>4. \A x \in Gathered' : x \in Gathered /\ x # i
        BY <3>2 DEF Gathered
      <3> QED
        BY <3>3, <3>4
    <2>9. Apart'
      BY <1>1, <2>1, <2>4, <2>6, <2>7, <2>8 DEF Counted, Apart, Settled
    <2>10. Everywhere'
      <3>1. i \notin Unpinned(man)
        BY <1>1, <2>1, <2>6 DEF Counted, Apart, Everywhere, Settled
      <3> QED
        BY <1>1, <2>1, <2>4, <2>6, <2>8, <3>1 DEF Counted, Everywhere
    <2>11. Evidence'
      <3>1. \A j, o : Backed(j, o)' <=> Backed(j, o)
        BY <2>1 DEF Backed
      <3>2. \A k \in DOMAIN results' : results'[k][2] # 0 => Backed(results'[k][1], results'[k][2])
        BY <1>1, <2>1, <2>2 DEF Counted, Evidence
      <3>3. DOMAIN pins \subseteq DOMAIN pins' /\ (id # 0 => id \in DOMAIN pins')
        BY <2>4 DEF Put
      <3>4. \A j \in tally'.done : \E o \in DOMAIN pins' : Backed(j, o)
        BY <1>1, <2>1, <2>4, <2>5, <3>3 DEF Counted, Evidence
      <3> QED
        BY <2>1, <1>1, <3>1, <3>2, <3>4 DEF Evidence, Backed, Counted
    <2> QED
      BY <1>1, <2>1, <2>9, <2>10, <2>11 DEF Counted
  <1>9. CASE PinFails
    BY <1>1, <1>9 DEF PinFails, Counted, Bulk
  <1>10. CASE DownloadEnd
    BY <1>1, <1>10 DEF DownloadEnd, Counted, Bulk
  <1> QED
    BY <1>2, <1>3, <1>4, <1>5, <1>6, <1>7, <1>8, <1>9, <1>10 DEF Next, Work

\* The invariant of every behaviour.
THEOREM CollectionInvariant == Spec => []Inv
  <1>1. Init => Inv
    BY EmptySeq DEF Init, Inv, Typed, Reported, Listed, Counted, Bulk, NoTally, NoRows, TallyType
  <1>2. Inv /\ [Next]_vars => Inv'
    <2> SUFFICES ASSUME Inv, [Next]_vars PROVE Inv'
      OBVIOUS
    <2>1. CASE Next
      BY <2>1, TypedStep, ReportedStep, ListedStep, CountedStep DEF Inv
    <2>2. CASE UNCHANGED vars
      <3> USE <2>2 DEF vars, session, cards, fetch, store
      <3>1. Landed' = Landed /\ Gathered' = Gathered /\ Settled' = Settled /\ Bulk' = Bulk
        BY DEF Landed, Gathered, Settled, Bulk
      <3>2. Typed' /\ Reported' /\ Listed'
        BY DEF Inv, Typed, Reported, Listed
      <3>3. (Apart => Apart') /\ (Everywhere => Everywhere') /\ (Evidence => Evidence')
        BY <3>1 DEF Apart, Everywhere, Evidence, Backed
      <3> QED
        BY <3>1, <3>2, <3>3 DEF Inv, Counted
    <2> QED
      BY <2>1, <2>2
  <1> QED
    BY <1>1, <1>2, PTL DEF Spec

\* A bulk download that returns accounts for every mod of its manifest but the
\* bundled ones, each exactly once, and what it reports downloaded is staged,
\* listed and pinned: for every manifest and whatever the server answers.
THEOREM EveryModIsAccountedFor == Spec => []Accounted
  <1>1. Inv => Accounted
    <2> SUFFICES ASSUME Inv, pc = "persist", results = <<>>
                 PROVE  /\ Index(man) = tally.done \cup tally.failed \cup tally.manual
                                         \cup {i \in Index(man) : Mods(man)[i].source = "bundle"}
                        /\ tally.done \cap tally.failed = {} /\ tally.stale \subseteq tally.done
                        /\ report[1] = man => tally.manual = report[2]
                        /\ \A i \in tally.done : \E id \in Members(man) :
                             rows[id] = <<man, i>> /\ Mods(man)[i].pin \in trees
      BY Zenon DEF Accounted
    <2>1. /\ man \in Manifest /\ queue = {} /\ flight = {} /\ landed = {}
          /\ report # None /\ Apart /\ Everywhere /\ Evidence
      BY DEF Inv, Typed, Counted, Bulk
    <2>2. Landed = {} /\ Gathered = {}
      BY <2>1 DEF Landed, Gathered
    <2>3. Fetchable(man) \cup Unpinned(man) = tally.done \cup tally.failed
      BY <2>1, <2>2 DEF Everywhere
    <2>4. Index(man) = Fetchable(man) \cup Unpinned(man) \cup ByHand(man)
                        \cup {i \in Index(man) : Mods(man)[i].source = "bundle"}
      BY <2>1, Partition
    <2>5. Index(man) = tally.done \cup tally.failed \cup tally.manual
                        \cup {i \in Index(man) : Mods(man)[i].source = "bundle"}
      BY <2>1, <2>3, <2>4 DEF Everywhere
    <2>6. tally.done \cap tally.failed = {} /\ tally.stale \subseteq tally.done
      BY <2>1 DEF Apart, Everywhere
    <2>7. report[1] = man => tally.manual = report[2]
      BY <2>1 DEF Inv, Reported, Everywhere
    <2>8. \A i \in tally.done : \E id \in Members(man) :
            rows[id] = <<man, i>> /\ Mods(man)[i].pin \in trees
      <3> SUFFICES ASSUME NEW i \in tally.done
                   PROVE  \E id \in Members(man) :
                            rows[id] = <<man, i>> /\ Mods(man)[i].pin \in trees
        OBVIOUS
      <3>1. PICK id \in DOMAIN pins : Backed(i, id)
        BY <2>1 DEF Evidence
      <3>2. rows[id] = <<man, i>> /\ rows[id][1] = man /\ Mods(man)[i].pin \in trees
        BY <3>1 DEF Backed
      <3> QED
        BY <3>2 DEF Members
    <2> QED
      BY <2>5, <2>6, <2>7, <2>8
  <1> QED
    BY <1>1, CollectionInvariant, PTL

-----------------------------------------------------------------------------
(* Who wins a path.                                                        *)

\* Numbers have a least one.
LEMMA LeastOfNumbers ==
  ASSUME NEW S \in SUBSET Nat, S # {}
  PROVE  \E x \in S : \A y \in S : x <= y
  <1> DEFINE less == {ss \in Nat \X Nat : ss[1] < ss[2]}
  <1>1. IsWellFoundedOn(less, Nat)
    BY NatLessThanWellFounded, Zenon DEF OpToRel
  <1>2. \A x, y \in Nat : y < x => <<y, x>> \in less
    OBVIOUS
  <1> HIDE DEF less
  <1>3. \E x \in S : \A y \in S : ~ (<<y, x>> \in less)
    BY <1>1, WFMin
  <1>4. PICK x \in S : \A y \in S : ~ (<<y, x>> \in less)
    BY <1>3
  <1>5. ASSUME NEW y \in S PROVE x <= y
    <2>1. x \in Nat /\ y \in Nat /\ ~ (<<y, x>> \in less)
      BY <1>4
    <2>2. ~ (y < x)
      BY <1>2, <2>1
    <2> QED
      BY <2>1, <2>2
  <1> QED
    BY <1>5

\* A rank is a number from 1.
LEMMA RankIsNumber ==
  ASSUME NEW m \in Manifest, NEW i \in Index(m)
  PROVE  Rank(m, i) \in Nat
  <1> DEFINE S == ToSet(Schema[m].rules)
             Moved(kind) == {k \in DOMAIN Schema[m].rules :
                               LET r == Schema[m].rules[k] IN
                               /\ r.kind = kind /\ Referenced(m, r.source) = i
                               /\ Referenced(m, r.reference) # 0}
  <1>1. Schema[m].rules \in Seq(S)
    BY SchemaAssumption DEF IsCollection
  <1> HIDE DEF S
  <1>2. IsFiniteSet(DOMAIN Schema[m].rules)
    <2> DEFINE n == Len(Schema[m].rules)
    <2>1. DOMAIN Schema[m].rules = 1 .. n /\ n \in Nat
      BY <1>1, LenProperties
    <2> HIDE DEF n
    <2>2. 1 \in Int /\ n \in Int
      BY <2>1
    <2>3. IsFiniteSet(1 .. n)
      BY <2>2, FS_Interval, Zenon
    <2> QED
      BY <2>1, <2>3
  <1>3. \A kind : Cardinality(Moved(kind)) \in Nat
    <2> TAKE kind
    <2>1. Moved(kind) \in SUBSET DOMAIN Schema[m].rules
      OBVIOUS
    <2> HIDE DEF Moved
    <2> QED
      BY <1>2, <2>1, FS_Subset, FS_CardinalityType
  <1>4. Delta(m, i) = Cardinality(Moved("after")) - Cardinality(Moved("before"))
    BY Zenon DEF Delta
  <1> HIDE DEF Moved
  <1>5. i \in Nat /\ Delta(m, i) \in Int
    BY <1>3, <1>4, Numbered
  <1> QED
    BY <1>5 DEF Rank, Adjustment

\* Without rules the ranks are the places in the manifest.
LEMMA PlainRank ==
  ASSUME NEW m \in Manifest, Schema[m].rules = <<>>, NEW i \in Index(m)
  PROVE  Rank(m, i) = i
  <1>1. DOMAIN Schema[m].rules = {}
    OBVIOUS
  <1>2. Delta(m, i) = 0
    <2> DEFINE Moved(kind) == {k \in DOMAIN Schema[m].rules :
                                 LET r == Schema[m].rules[k] IN
                                 /\ r.kind = kind /\ Referenced(m, r.source) = i
                                 /\ Referenced(m, r.reference) # 0}
    <2>1. Moved("after") = {} /\ Moved("before") = {}
      BY <1>1
    <2>2. Cardinality({}) = 0
      BY FS_EmptySet
    <2>3. Delta(m, i) = Cardinality(Moved("after")) - Cardinality(Moved("before"))
      BY Zenon DEF Delta
    <2>4. Cardinality(Moved("after")) = 0 /\ Cardinality(Moved("before")) = 0
      BY <2>1, <2>2, Zenon
    <2> HIDE DEF Moved
    <2> QED
      BY <2>3, <2>4
  <1>3. i \in Nat /\ i >= 1
    BY Numbered
  <1> QED
    BY <1>2, <1>3 DEF Rank, Adjustment

\* A member of a Collection is a row of its manifest, with its rank.
LEMMA MemberRank ==
  ASSUME Listed, NEW m, NEW id \in Members(m)
  PROVE  /\ id \in Nat /\ m \in Manifest /\ rows[id][1] = m /\ rows[id][2] \in Index(m)
         /\ pins[id] = Rank(m, rows[id][2])
  <1>1. id \in Nat /\ rows[id] \in Row /\ rows[id][1] = m /\ pins[id] = Rank(m, rows[id][2])
    BY DEF Members, Listed
  <1>2. m \in Manifest /\ rows[id][2] \in Index(m)
    <2>1. PICK n \in Manifest : rows[id] \in {n} \X Index(n)
      BY <1>1 DEF Row
    <2> QED
      BY <1>1, <2>1
  <1> QED
    BY <1>1, <1>2

\* The winner of a path has the lowest rank of those that have it.
LEMMA WinnerRanksLowest ==
  ASSUME Listed, NEW m \in Manifest,
         NEW p, NEW o \in Members(m), p \in Provided(o)
  PROVE  /\ Winner(m, p) \in Members(m)
         /\ pins[Winner(m, p)] <= pins[o]
  <1> DEFINE C == {id \in Members(m) : p \in Provided(id)}
  <1>1. \A id \in Members(m) : id \in Nat /\ pins[id] \in Nat
    BY MemberRank, RankIsNumber
  <1> DEFINE places == {pins[id] : id \in C}
  <1>2. places \in SUBSET Nat /\ places # {}
    BY <1>1
  <1>3. PICK k \in places : \A j \in places : k <= j
    BY <1>2, LeastOfNumbers
  <1> DEFINE first == {id \in C : pins[id] = k}
  <1>4. first \in SUBSET Nat /\ first # {}
    BY <1>1, <1>3
  <1>5. PICK w \in first : \A id \in first : w <= id
    BY <1>4, LeastOfNumbers
  <1> DEFINE Beats(id) == /\ p \in Provided(id)
                          /\ \A q \in Members(m) : p \in Provided(q) /\ q # id =>
                               \/ pins[id] < pins[q]
                               \/ pins[id] = pins[q] /\ id < q
  <1>6. w \in Members(m) /\ Beats(w)
    <2>1. w \in Members(m) /\ p \in Provided(w) /\ pins[w] = k
      BY <1>5
    <2>2. ASSUME NEW q \in Members(m), p \in Provided(q), q # w
          PROVE  pins[w] < pins[q] \/ (pins[w] = pins[q] /\ w < q)
      <3>1. k <= pins[q] /\ q \in Nat /\ w \in Nat /\ k \in Nat /\ pins[q] \in Nat
        BY <1>1, <1>2, <1>3, <2>1, <2>2
      <3>2. pins[q] = k => w <= q
        BY <1>5, <2>2
      <3> QED
        BY <2>1, <2>2, <3>1, <3>2
    <2> QED
      BY <2>1, <2>2
  <1>7. Winner(m, p) = CHOOSE id \in Members(m) : Beats(id)
    BY Zenon DEF Winner
  <1> HIDE DEF Beats
  <1>8. Winner(m, p) \in Members(m) /\ Beats(Winner(m, p))
    BY <1>6, <1>7
  <1>9. CASE o = Winner(m, p)
    BY <1>1, <1>8, <1>9
  <1>10. CASE o # Winner(m, p)
    BY <1>1, <1>8, <1>10 DEF Beats
  <1> QED
    BY <1>9, <1>10

\* A deployed path without a second spelling belongs to the first mod of the
\* manifest that has it.
LEMMA DeployInOrder ==
  ASSUME Typed, Listed, card \in Manifest, live' = Deployed(card), NEW t \in DOMAIN live',
         Schema[live'[t][1]].rules = <<>>,
         Cardinality(Spelled(t)) = 1,
         NEW o \in Members(live'[t][1]),
         Spelled(t) \subseteq Provided(o)
  PROVE  live'[t][2] <= rows[o][2]
  <1> USE DEF Spelled
  <1> DEFINE won == UNION {Provided(id) : id \in Members(card)}
             last == CHOOSE p \in won : Target[p] = t /\ \A q \in won : Target[q] = t => q <= p
  <1>1. PICK p : Spelled(t) = {p}
    <2>1. IsFiniteSet(Spelled(t))
      BY CollectionAssumption, FS_Subset
    <2> QED
      BY <2>1, FS_Singleton
  <1>2. \A id \in Members(card) : Provided(id) \subseteq DOMAIN Target
    <2> SUFFICES ASSUME NEW id \in Members(card) PROVE Provided(id) \subseteq DOMAIN Target
      OBVIOUS
    <2>1. rows[id][1] = card /\ rows[id][2] \in Index(card)
      BY MemberRank
    <2>2. Mods(card)[rows[id][2]].files \subseteq DOMAIN Target
      BY <2>1, Numbered DEF IsMod
    <2> QED
      BY <2>1, <2>2 DEF Provided
  <1>3. /\ DOMAIN live' = {Target[q] : q \in won}
        /\ live'[t] = rows[Winner(card, last)]
    BY Zenon DEF Deployed
  <1>4. PICK q \in won : Target[q] = t
    BY <1>3
  <1>5. won \subseteq DOMAIN Target
    BY <1>2
  <1>6. q = p /\ p \in Nat /\ Target[p] = t /\ p \in won
    BY <1>1, <1>4, <1>5, CollectionAssumption
  <1>7. \A x \in won : Target[x] = t => x = p
    BY <1>1, <1>5
  <1>8. last = p
    <2>1. \A x \in won : (Target[x] = t /\ \A y \in won : Target[y] = t => y <= x) <=> x = p
      BY <1>6, <1>7
    <2> HIDE DEF won
    <2> QED
      BY <1>6, <2>1
  <1>9. PICK id \in Members(card) : p \in Provided(id)
    BY <1>6
  <1> DEFINE w == Winner(card, p)
  <1>10. w \in Members(card) /\ live'[t] = rows[w]
    BY <1>3, <1>8, <1>9, WinnerRanksLowest
  <1> HIDE DEF w
  <1>11. rows[w][1] = card /\ rows[w][2] \in Index(card) /\ pins[w] = Rank(card, rows[w][2])
    BY <1>10, MemberRank
  <1>12. o \in Members(card) /\ p \in Provided(o) /\ Schema[card].rules = <<>>
    BY <1>1, <1>10, <1>11
  <1>13. rows[o][2] \in Index(card) /\ pins[o] = Rank(card, rows[o][2])
    BY <1>12, MemberRank
  <1>14. pins[w] <= pins[o]
    BY <1>12, WinnerRanksLowest DEF w
  <1> QED
    BY <1>10, <1>11, <1>12, <1>13, <1>14, PlainRank

\* The owner of every path of a deployed Collection without rules is the first
\* mod of the manifest, among those that were downloaded, that has the file:
\* for every manifest and every order of arrival.
THEOREM TheManifestDecides == Spec => ManifestOrderWins
  <1> DEFINE InOrder ==
        live' # live => \A t \in DOMAIN live' :
          Schema[live'[t][1]].rules = <<>> /\ Cardinality(Spelled(t)) = 1
          => \A id \in Members(live'[t][1]) : Spelled(t) \subseteq Provided(id)
                                               => live'[t][2] <= rows[id][2]
  <1>1. ASSUME Inv, [Next]_vars PROVE [InOrder]_vars
    <2>1. CASE live' = live
      BY <2>1
    <2>2. CASE UninstallCollection
      BY <2>2 DEF UninstallCollection, NoRows
    <2>3. CASE DeployCollection
      <3>1. Typed /\ Listed /\ card \in Manifest \cup {None}
        BY <1>1 DEF Inv, Typed
      <3>2. card # None /\ live' = Deployed(card)
        BY <2>3 DEF DeployCollection
      <3>3. card \in Manifest
        BY <3>1, <3>2
      <3>4. InOrder
        BY <3>1, <3>2, <3>3, DeployInOrder
      <3> QED
        BY <3>4
    <2>4. live' = live \/ DeployCollection \/ UninstallCollection
      BY <1>1 DEF Next, Work, vars, Paste, Account, ResolveClick, ResolveNext, ResolveEnd,
           DownloadClick, Start, Fetched, Collect, Collected, Pin, PinFails, DownloadEnd
    <2> QED
      BY <2>1, <2>2, <2>3, <2>4
  <1>2. Spec => [][InOrder]_vars
    BY <1>1, CollectionInvariant, PTL DEF Spec
  <1> QED
    BY <1>2 DEF ManifestOrderWins
=============================================================================
