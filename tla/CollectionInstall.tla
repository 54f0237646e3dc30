------------------------- MODULE CollectionInstall -------------------------
(* Installing a Collection: the card of the window (+page.svelte), the     *)
(* commands resolve_collection, download_collection, deploy_collection and *)
(* uninstall_collection (src-tauri/src/commands/collections.rs), the       *)
(* availability report (crates/nexus/src/resolve.rs), the ranks made of    *)
(* the manifest's rules (crates/nexus/src/replay.rs) and the conflict      *)
(* resolver they are made for (crates/deploy/src/conflict.rs).             *)
(*                                                                         *)
(* One download is NexusDownloads, the commands beside other commands are  *)
(* ShellCommands, the files on disk DeployEngine.  Here: which mod gets    *)
(* fetched, pinned and ranked, and who owns a path in the end.             *)
EXTENDS Integers, Sequences, FiniteSets, SequencesExt

CONSTANTS
  Manifest,      \* the manifests a user may paste
  Schema,        \* [Manifest -> the parsed collection.json]
  Target,        \* spelled path (a number, in path order) -> canonical path
  None,
  Answers,       \* what the server may say of a pinned file
  Concurrency,   \* DOWNLOAD_CONCURRENCY
  MaxDownloads   \* bound: bulk downloads started

ASSUME CollectionAssumption ==
  /\ Answers \subseteq {"Available", "Archived", "Unavailable"}
  /\ Concurrency \in Nat \ {0} /\ MaxDownloads \in Nat
  /\ DOMAIN Target \subseteq Nat /\ IsFiniteSet(DOMAIN Target) /\ None \notin Manifest

SourceTypes == {"nexus", "bundle", "direct", "browse", "manual"}
RuleTypes   == {"before", "after", "requires", "conflicts", "recommends", "provides"}
OffNexus    == {"direct", "browse", "manual"}

\* A parsed manifest.  A mod's pin is its file or None; keys are what a rule
\* may know it by (tag, md5, logical file name, name); overrides the files its
\* author lists as fileOverrides; stale tells whether its pinned choices fit its
\* installer.  A rule's end is a set of keys.
IsMod(x) == /\ x.source \in SourceTypes
            /\ x.files \subseteq DOMAIN Target /\ x.overrides \subseteq DOMAIN Target
            /\ {x.choices, x.stale} \subseteq BOOLEAN /\ x.keys # {}
IsRule(r) == r.kind \in RuleTypes
IsCollection(c) == /\ c.ours \in BOOLEAN      \* appid_for_domain is the game
                   /\ c.mods \in Seq(ToSet(c.mods)) /\ c.rules \in Seq(ToSet(c.rules))
                   /\ \A i \in DOMAIN c.mods : IsMod(c.mods[i])
                   /\ \A i \in DOMAIN c.rules : IsRule(c.rules[i])

ASSUME SchemaAssumption == \A m \in Manifest : IsCollection(Schema[m])

Mods(m) == Schema[m].mods
Index(m) == DOMAIN Mods(m)

VARIABLES
  premium, text,          \* the session; the manifest in the text area
  report,                 \* collResolve: its manifest and its manual steps
  card,                   \* the manifest behind collDownload
  pc, man,                \* the running command and its manifest
  asked,                  \* resolve_collection: the statuses so far
  queue, flight, landed, results,   \* the bulk download
  tally,                  \* the DownloadCollectionReport
  downloads,
  rows, next,             \* managed_mod: id -> <<manifest, index>>; next id
  pins,                   \* collection_mod: id -> its rank
  trees,                  \* staged trees, by file
  profiles, linked,       \* the manifests with a dedicated profile; those whose
                          \* collection row names it
  live                    \* canonical path -> <<manifest, index>>

session == <<premium, text>>
cards   == <<report, card>>
fetch   == <<queue, flight, landed, results>>
store   == <<rows, next, pins, trees, profiles, linked>>
vars    == <<session, cards, pc, man, asked, fetch, tally, downloads, store, live>>

NoTally == [done |-> {}, failed |-> {}, manual |-> {}, stale |-> {}]
NoRows  == <<>>

\* A row inserted, or the one with its key replaced.
Put(table, key, row) ==
  [k \in DOMAIN table \cup {key} |-> IF k = key THEN row ELSE table[k]]

Init ==
  /\ premium \in BOOLEAN /\ text = None /\ report = None /\ card = None
  /\ pc = "idle" /\ man = None /\ asked = <<>>
  /\ queue = {} /\ flight = {} /\ landed = {} /\ results = <<>>
  /\ tally = NoTally /\ downloads = 0
  /\ rows = NoRows /\ next = 1 /\ pins = NoRows /\ trees = {} /\ live = NoRows
  /\ profiles = {} /\ linked = {}

-----------------------------------------------------------------------------
\* Ranks and winners.

\* reference_to_index: the first mod that any key of the reference fits.
Referenced(m, ref) == SelectInSeq(Mods(m), LAMBDA x : x.keys \cap ref # {})

\* map_rules_to_ranks: a rule both of whose ends are known moves its source by
\* one, whatever lies between the two.
Delta(m, i) ==
  LET Rules(kind) == {k \in DOMAIN Schema[m].rules :
                        LET r == Schema[m].rules[k] IN
                        /\ r.kind = kind /\ Referenced(m, r.source) = i
                        /\ Referenced(m, r.reference) # 0}
  IN Cardinality(Rules("after")) - Cardinality(Rules("before"))

\* ... and every mod's fileOverrides are recorded beside it.
Adjustment(m, i) == [rank_delta |-> Delta(m, i), file_overrides |-> Mods(m)[i].overrides]

\* compute_collection_ranks: manifest order, moved by the rules.  Nothing else of
\* an adjustment is read, here or by the resolver.
Rank(m, i) == LET r == i + Adjustment(m, i).rank_delta IN IF r < 1 THEN 1 ELSE r

Members(m) == {id \in DOMAIN pins : rows[id][1] = m}

\* staged_rels: a tree that is gone has no files.
Provided(id) == LET x == Mods(rows[id][1])[rows[id][2]] IN
                IF x.pin \in trees THEN x.files ELSE {}

\* conflict::resolve: the lowest rank wins a spelled path, then the lowest id.
Winner(m, p) ==
  CHOOSE id \in Members(m) :
    /\ p \in Provided(id)
    /\ \A o \in Members(m) : p \in Provided(o) /\ o # id =>
         \/ pins[id] < pins[o]
         \/ pins[id] = pins[o] /\ id < o

\* deploy_winners: the paths in order, each placed at its canonical path; of
\* two spellings of one path the later one stays.
Deployed(m) ==
  LET won   == UNION {Provided(id) : id \in Members(m)}
      LastOf(t) == CHOOSE p \in won : Target[p] = t /\ \A q \in won : Target[q] = t => q <= p
  IN [t \in {Target[p] : p \in won} |-> rows[Winner(m, LastOf(t))]]

-----------------------------------------------------------------------------
\* The window.

\* Read by the clicks alone, and a command takes what it needs with it: a
\* change during a command is one before the next click.
Paste ==
  /\ pc = "idle" /\ \E m \in Manifest : text' = m
  /\ UNCHANGED <<premium, cards, pc, man, asked, fetch, tally, downloads, store, live>>

Account ==
  /\ pc = "idle" /\ premium' = ~ premium
  /\ UNCHANGED <<text, cards, pc, man, asked, fetch, tally, downloads, store, live>>

\* onResolveCollection: forgets the download shown; the report shown stays
\* until another one replaces it.
ResolveClick ==
  /\ pc = "idle" /\ text # None /\ Schema[text].ours
  /\ pc' = "resolve" /\ man' = text /\ asked' = <<>> /\ card' = None
  /\ UNCHANGED <<session, report, fetch, tally, downloads, store, live>>

\* What resolve_collection may say of a mod: only a pinned Nexus file is
\* looked up, and the server may answer anything about it.
Possible(x) ==
  CASE x.source = "bundle"                     -> {"Available"}
    [] x.source \in {"direct", "browse", "manual"} -> {"Manual"}
    [] x.source = "nexus" /\ x.pin = None      -> {"Unavailable"}
    [] OTHER                                   -> Answers

ResolveNext ==
  /\ pc = "resolve" /\ Len(asked) < Len(Mods(man))
  /\ \E s \in Possible(Mods(man)[Len(asked) + 1]) : asked' = Append(asked, s)
  /\ UNCHANGED <<session, cards, pc, man, fetch, tally, downloads, store, live>>

\* The report is shown, or (no session, a 429) an error and the old report.
ResolveEnd ==
  /\ pc = "resolve" /\ pc' = "idle" /\ man' = None /\ asked' = <<>>
  /\ \/ /\ Len(asked) = Len(Mods(man))
        /\ report' = <<man, {i \in Index(man) : asked[i] = "Manual"}>>
     \/ UNCHANGED report
  /\ UNCHANGED <<session, card, fetch, tally, downloads, store, live>>

-----------------------------------------------------------------------------
\* download_collection.

\* The partition: what is downloaded ...
Fetchable(m) == {i \in Index(m) : Mods(m)[i].source = "nexus" /\ Mods(m)[i].pin # None}

\* ... what has failed before it started, and what is left to the user.  A
\* bundled mod is none of the three.
Unpinned(m)  == {i \in Index(m) : Mods(m)[i].source = "nexus" /\ Mods(m)[i].pin = None}
ByHand(m)    == {i \in Index(m) : Mods(m)[i].source \in OffNexus}

\* The button is there once a report is; the command gets the text as it is
\* now.  Its gates: the game, then the Premium session.  The collection's row is
\* written, or replaced by one that names no profile.
DownloadClick ==
  /\ pc = "idle" /\ report # None /\ text # None /\ downloads < MaxDownloads
  /\ Schema[text].ours /\ premium
  /\ pc' = "download" /\ man' = text /\ downloads' = downloads + 1
  /\ queue' = Fetchable(text)
  /\ tally' = [NoTally EXCEPT !.failed = Unpinned(text), !.manual = ByHand(text)]
  /\ linked' = linked \ {text}
  /\ UNCHANGED <<session, cards, asked, flight, landed, results, rows, next, pins, trees, profiles, live>>

\* buffer_unordered: a download takes a slot, in the manifest's order, until
\* its result is collected.
Start ==
  /\ pc = "download" /\ Cardinality(flight) + Cardinality(landed) < Concurrency
  /\ \E i \in queue : /\ \A j \in queue : i <= j
                      /\ flight' = flight \cup {i} /\ queue' = queue \ {i}
  /\ UNCHANGED <<session, cards, pc, man, asked, landed, results, tally, downloads, store, live>>

\* A download ends (NexusDownloads): with its tree and row, with both but
\* failed all the same (no provenance), or with nothing.
Fetched(i) ==
  /\ i \in flight /\ flight' = flight \ {i}
  /\ \/ /\ rows' = Put(rows, next, <<man, i>>) /\ next' = next + 1
        /\ trees' = trees \cup {Mods(man)[i].pin}
        /\ \E id \in {next, 0} : landed' = landed \cup {<<i, id>>}
     \/ landed' = landed \cup {<<i, 0>>} /\ UNCHANGED <<rows, next, trees>>
  /\ UNCHANGED <<session, cards, pc, man, asked, queue, results, tally, downloads, pins,
                 profiles, linked, live>>

\* Results are collected as the executor polls them, in any order.
Collect(r) ==
  /\ r \in landed /\ landed' = landed \ {r} /\ results' = Append(results, r)
  /\ UNCHANGED <<session, cards, pc, man, asked, queue, flight, tally, downloads, store, live>>

Collected ==
  /\ pc = "download" /\ queue = {} /\ flight = {} /\ landed = {}
  /\ pc' = "persist"
  /\ UNCHANGED <<session, cards, man, asked, fetch, tally, downloads, store, live>>

\* MUTANT of RankOf: the mods are ranked as they arrive.
RankOfArrival(i, id) == id

RankOf(i, id) == Rank(man, i)

\* persist_collection_mod, in the order of the results.
Pin ==
  /\ pc = "persist" /\ results # <<>> /\ results' = Tail(results)
  /\ LET i == Head(results)[1]  id == Head(results)[2] IN
     IF id = 0
     THEN tally' = [tally EXCEPT !.failed = @ \cup {i}] /\ UNCHANGED pins
     ELSE /\ tally' = [tally EXCEPT !.done = @ \cup {i},
                         !.stale = IF Mods(man)[i].choices /\ Mods(man)[i].stale
                                   THEN @ \cup {i} ELSE @]
          /\ pins' = Put(pins, id, RankOf(i, id))
  /\ UNCHANGED <<session, cards, pc, man, asked, queue, flight, landed, downloads,
                 rows, next, trees, profiles, linked, live>>

\* MUTANT of PinFails: a mod that could not be recorded is passed over.
PinFailsPassedOver ==
  /\ pc = "persist" /\ results # <<>> /\ Head(results)[2] # 0
  /\ results' = Tail(results)
  /\ tally' = [tally EXCEPT !.done = @ \cup {Head(results)[1]}]
  /\ UNCHANGED <<session, cards, pc, man, asked, queue, flight, landed, downloads, store, live>>

\* A mod that cannot be recorded ends the command: the mods behind it stay
\* staged and listed, outside the collection.
PinFails ==
  /\ pc = "persist" /\ results # <<>> /\ Head(results)[2] # 0
  /\ results' = <<>> /\ pc' = "idle" /\ man' = None /\ tally' = NoTally
  /\ UNCHANGED <<session, cards, asked, queue, flight, landed, downloads, store, live>>

DownloadEnd ==
  /\ pc = "persist" /\ results = <<>>
  /\ pc' = "idle" /\ man' = None /\ card' = man
  /\ UNCHANGED <<session, report, asked, fetch, tally, downloads, store, live>>

-----------------------------------------------------------------------------
\* deploy_collection and uninstall_collection, each as a whole.

\* The dedicated profile, created and named in the collection's row unless it is,
\* takes every mod of the collection with its rank, and is switched to.  A profile
\* of that name which the row no longer knows ends the command with an error.
DeployCollection ==
  /\ pc = "idle" /\ card # None /\ (card \in profiles => card \in linked)
  /\ profiles' = profiles \cup {card} /\ linked' = linked \cup {card}
  /\ live' = Deployed(card)
  /\ UNCHANGED <<session, cards, pc, man, asked, fetch, tally, downloads, rows, next, pins, trees>>

\* The profile the row names, trees, mod rows and, by cascade, the collection's rows.
Uninstalled(m) ==
  /\ trees' = trees \ {Mods(m)[rows[id][2]].pin : id \in Members(m)}
  /\ rows' = [id \in DOMAIN rows \ Members(m) |-> rows[id]]
  /\ pins' = [id \in DOMAIN pins \ Members(m) |-> pins[id]]
  /\ profiles' = profiles \ (linked \cap {m}) /\ linked' = linked \ {m}

UninstallCollection ==
  /\ pc = "idle" /\ card # None /\ card' = None
  /\ live' = NoRows /\ Uninstalled(card)
  /\ UNCHANGED <<session, report, pc, man, asked, fetch, tally, downloads, next>>

\* The backend's part of the running command.
Work ==
  \/ ResolveNext \/ ResolveEnd \/ Start \/ Collected \/ Pin \/ PinFails \/ DownloadEnd
  \/ \E i \in flight : Fetched(i)
  \/ \E r \in landed : Collect(r)

Next ==
  \/ Work \/ Paste \/ Account \/ ResolveClick \/ DownloadClick
  \/ DeployCollection \/ UninstallCollection

\* Downloads end and commands are polled to their end.
Spec == Init /\ [][Next]_vars /\ WF_vars(Work)

-----------------------------------------------------------------------------
\* The spellings of a canonical path.
Spelled(t) == {p \in DOMAIN Target : Target[p] = t}

\* The owner of every path of a deployed Collection without rules is the first
\* mod of the manifest, among those that were downloaded, that has the file:
\* whatever the order in which the downloads, their rows and their results
\* arrived, in however many attempts, and even where a later mod's fileOverrides
\* name the path (replay.rs: compute_collection_ranks drops them, although they
\* are said to win "regardless of rank"; collections.rs reads the ranks alone).
ManifestOrderWins ==
  [][live' # live => \A t \in DOMAIN live' :
       Schema[live'[t][1]].rules = <<>> /\ Cardinality(Spelled(t)) = 1
       => \A id \in Members(live'[t][1]) : Spelled(t) \subseteq Provided(id)
                                            => live'[t][2] <= rows[id][2]]_vars

\* A bulk download that returns accounts for every mod of its manifest but the
\* bundled ones, each exactly once; one reported downloaded is staged, listed
\* and pinned; and what is left to the user is what the availability report,
\* classified by other code, had told to do by hand (collections.rs,
\* resolve.rs).
Accounted ==
  pc = "persist" /\ results = <<>> =>
    /\ Index(man) = tally.done \cup tally.failed \cup tally.manual
                     \cup {i \in Index(man) : Mods(man)[i].source = "bundle"}
    /\ tally.done \cap tally.failed = {} /\ tally.stale \subseteq tally.done
    /\ report[1] = man => tally.manual = report[2]
    /\ \A i \in tally.done : \E id \in Members(man) :
         rows[id] = <<man, i>> /\ Mods(man)[i].pin \in trees

\* A rule between two mods decides who owns the files both have: the source of
\* an "after" rule loses them, that of a "before" rule wins them (replay.rs).
RulesDecide ==
  [][live' # live => \A t \in DOMAIN live' : \A m \in Manifest : \A k \in DOMAIN Schema[m].rules :
       LET r == Schema[m].rules[k]
           Has(i) == \E id \in Members(m) : rows[id][2] = i /\ \E p \in Provided(id) : Target[p] = t
           src == Referenced(m, r.source)
           ref == Referenced(m, r.reference)
       IN live'[t][1] = m /\ Has(src) /\ Has(ref) =>
            /\ r.kind = "after"  => live'[t] # <<m, src>>
            /\ r.kind = "before" => live'[t] # <<m, ref>>]_vars

=============================================================================
