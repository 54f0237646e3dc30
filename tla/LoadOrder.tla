----------------------------- MODULE LoadOrder -----------------------------
(* Plugins and their order: the plugin list of the window (+page.svelte,   *)
(* lib/plugins.ts), the commands of src-tauri/src/commands/plugins.rs, the *)
(* scan, the merge with the profile's rows, the write of plugins.txt       *)
(* through libloot and the verdict on what the game made of that file      *)
(* (crates/loadorder, store/src/plugins.rs).                               *)
(*                                                                         *)
(* A plugin is a number, so that "by name" is by number.  libloot is       *)
(* outside the repository: what it does is modelled by how loot.rs uses it *)
(* and says it behaves.  Spellings of one name that differ in case only,   *)
(* and plugins that a master requires ahead of it, are not modelled.       *)
EXTENDS Integers, Sequences, FiniteSets, SequencesExt

CONSTANTS
  Plugin,     \* names, numbers
  Early,      \* those the game loads by itself: its master, DLCs, .ccc files
  Master,     \* ESM and ESL by their header, the early ones included
  Profile,
  None,
  Start,      \* the rows an earlier session may have left a profile
  MaxWrites,  \* bound: orders saved
  MaxEdits    \* bound: plugins toggled or moved, switches, deployments, foreign edits

ASSUME LoadOrderAssumption ==
  /\ Plugin \subseteq Nat /\ IsFiniteSet(Plugin)
  /\ Early \subseteq Master /\ Master \subseteq Plugin
  /\ \A r \in Start : /\ DOMAIN r \subseteq Plugin
                      /\ r \in [DOMAIN r -> [on : BOOLEAN, order : Nat]]
  /\ None \notin Profile /\ MaxWrites \in Nat /\ MaxEdits \in Nat

VARIABLES
  data,      \* the plugins in the game's Data directory or an enabled mod
  rows,      \* plugin_state: profile -> plugin -> [enabled, order], where known
  active,    \* the active profile, or None
  file,      \* plugins.txt: lines [name, on]
  view,      \* the list the window shows: [name, on, locked]
  proposal,  \* sortProposal: the names in LOOT's order, or <<>>
  saving,    \* save_plugin_order between its two locks: [profile, list]
  fresh,     \* history: the profile whose order the file was last written
             \* from, while file, rows and plugins stay as they are, or None
  writes, edits

vars == <<data, rows, active, file, view, proposal, saving, fresh, writes, edits>>

Idle == [profile |-> None, list |-> <<>>]

Init ==
  /\ data = Plugin /\ rows \in [Profile -> Start]
  /\ active \in Profile /\ file = <<>> /\ view = <<>> /\ proposal = <<>>
  /\ saving = Idle /\ fresh = None /\ writes = 0 /\ edits = 0

Names(seq) == {seq[i].name : i \in DOMAIN seq}
NamesOf(seq) == [i \in DOMAIN seq |-> seq[i].name]

\* A set in a strict order, a set of pairs; without SetToSortSeq's permutations.
Sorted(S, before) ==
  [i \in 1 .. Cardinality(S) |->
     CHOOSE x \in S : Cardinality({y \in S : <<y, x>> \in before}) = i - 1]
Remaining(S) ==
  [i \in 1 .. Cardinality(S) |-> CHOOSE x \in S : Cardinality({y \in S : y < x}) = i - 1]

\* What a sequence has at some of its places, in its order (SelectSeq).
Kept(seq, places) ==
  LET at == Remaining(places) IN [k \in DOMAIN at |-> seq[at[k]]]

Only(lines, S)  == Kept(lines, {i \in DOMAIN lines : lines[i].name \in S})
Among(names, S) == Kept(names, {i \in DOMAIN names : names[i] \in S})

\* Where a list has a plugin.
Place(list, n) == CHOOSE i \in DOMAIN list : list[i].name = n

-----------------------------------------------------------------------------
\* libloot.

OnDisk(seq) == Only(seq, data)

\* load_current_load_order_state: the early plugins at their fixed places,
\* then the masters, then the rest, each group as the file has it, and behind
\* them those it does not list.
Loaded(f) ==
  LET Listed(S) == NamesOf(Only(OnDisk(f), S))
      Group(S)  == Listed(S) \o Remaining((S \cap data) \ Names(f))
  IN Remaining(Early \cap data) \o Group(Master \ Early) \o Group(Plugin \ Master)

\* is_plugin_active.
Active(f) == (Early \cap data) \cup {l.name : l \in {m \in ToSet(f) : m.on /\ m.name \in data}}

\* set_load_order: saves the order; an early plugin has no line.
Saved(order, on) ==
  LET lines == Among(order, Plugin \ Early)
  IN [i \in DOMAIN lines |-> [name |-> lines[i], on |-> lines[i] \in on]]

-----------------------------------------------------------------------------
\* The crate: scan, merge, write, reconcile.

\* implicit_protected_set: what libloot finds active and nobody enabled.
Protected(f, enabled) == Active(f) \ enabled

Enabled(p) == {n \in DOMAIN rows[p] : rows[p][n].on}

\* merge_plugin_state: a plugin without a row is disabled and of order 0.
Merged(p) ==
  LET Row(n) == IF n \in DOMAIN rows[p] THEN rows[p][n] ELSE [on |-> FALSE, order |-> 0]
      Before(a, b) == \/ Row(a).order < Row(b).order
                      \/ Row(a).order = Row(b).order /\ a < b
      sorted == Sorted(data, {ab \in data \X data : Before(ab[1], ab[2])})
  IN [i \in DOMAIN sorted |-> [name |-> sorted[i], on |-> Row(sorted[i]).on]]

\* stamp_protected; a probe that fails leaves every plugin unlocked.
Stamped(list, locked) ==
  [i \in DOMAIN list |-> [name |-> list[i].name, on |-> list[i].on,
                          locked |-> list[i].name \in locked]]

\* MUTANT of Seed: a line without its asterisk is still written with one.
SeedAllOn(list) ==
  LET lines == Only(list, Master) \o Only(list, Plugin \ Master)
  IN [i \in DOMAIN lines |-> [name |-> lines[i].name, on |-> TRUE]]

\* asterisk_plugins_txt: masters first, an asterisk for those enabled.
Seed(list) ==
  LET lines == Only(list, Master) \o Only(list, Plugin \ Master)
  IN [i \in DOMAIN lines |-> [name |-> lines[i].name, on |-> lines[i].on]]

\* reconcile_order: libloot's order, with the movable plugins in the user's
\* order in the places of the movable ones.
Reconciled(canonical, movable) ==
  LET mine == Among(movable, ToSet(canonical))
      Nth(i) == Cardinality({j \in 1 .. i : canonical[j] \in ToSet(mine)})
  IN [i \in DOMAIN canonical |->
        IF canonical[i] \in ToSet(mine) THEN mine[Nth(i)] ELSE canonical[i]]

\* apply_load_order once libloot has accepted the order.
Applied(list) ==
  LET seed == Seed(OnDisk(list))
      movable == NamesOf(Only(OnDisk(list), Plugin \ Master))
  IN Saved(Reconciled(Loaded(seed), movable), Active(seed))

\* list_plugin_state.
Recorded(p) ==
  LET Before(a, b) == \/ rows[p][a].order < rows[p][b].order
                      \/ rows[p][a].order = rows[p][b].order /\ a < b
      known  == DOMAIN rows[p]
      sorted == Sorted(known, {ab \in known \X known : Before(ab[1], ab[2])})
  IN [i \in DOMAIN sorted |-> [name |-> sorted[i], on |-> rows[p][sorted[i]].on]]

ActiveLines(f) == NamesOf(Kept(f, {i \in DOMAIN f : f[i].on}))

\* MUTANT of Drift: the order is compared only while the two have as many.
DriftSameSize(p) ==
  LET disk     == ActiveLines(file)
      locked   == Protected(file, Enabled(p))
      wanted   == Among(ActiveLines(Recorded(p)), Plugin \ locked)
      Common(s, t) == Among(s, ToSet(t))
  IN {n \in ToSet(disk) : n \notin ToSet(wanted) \cup locked}
     \cup (ToSet(wanted) \ ToSet(disk))
     \cup (IF Len(disk) = Len(wanted) /\ Common(disk, wanted) # Common(wanted, disk)
           THEN ToSet(wanted) \cap ToSet(disk) ELSE {})

\* MUTANT of Drift: the order of all that is enabled is compared with the file.
DriftWhole(p) ==
  LET disk     == ActiveLines(file)
      locked   == Protected(file, Enabled(p))
      wanted   == Among(ActiveLines(Recorded(p)), Plugin \ locked)
  IN {n \in ToSet(disk) : n \notin ToSet(wanted) \cup locked}
     \cup (ToSet(wanted) \ ToSet(disk))
     \cup (IF disk # wanted THEN ToSet(wanted) \cap ToSet(disk) ELSE {})

\* reconcile_plugins_txt: a foreign line, a lost one, or a changed order.
Drift(p) ==
  LET disk     == ActiveLines(file)
      locked   == Protected(file, Enabled(p))
      wanted   == Among(ActiveLines(Recorded(p)), Plugin \ locked)
      Common(s, t) == Among(s, ToSet(t))
  IN {n \in ToSet(disk) : n \notin ToSet(wanted) \cup locked}
     \cup (ToSet(wanted) \ ToSet(disk))
     \cup (IF Common(disk, wanted) # Common(wanted, disk)
           THEN ToSet(wanted) \cap ToSet(disk) ELSE {})

-----------------------------------------------------------------------------
\* The window.

Edit == edits < MaxEdits /\ edits' = edits + 1

ListPlugins ==
  /\ active # None
  /\ \E locked \in {Protected(file, {l.name : l \in {m \in ToSet(Merged(active)) : m.on}}), {}} :
       view' = Stamped(Merged(active), locked)
  /\ proposal' = <<>>
  /\ UNCHANGED <<data, rows, active, file, saving, fresh, writes, edits>>

\* set_plugin_enabled: the row as it is merged now, under one lock.
Toggle(n) ==
  /\ active # None /\ n \in Names(view) \cap data
  /\ ~ \E l \in ToSet(view) : l.name = n /\ l.locked
  /\ LET i  == Place(view, n)
         on == ~ view[i].on
         at == IF n \in DOMAIN rows[active] THEN rows[active][n].order ELSE 0
     IN /\ rows' = [rows EXCEPT ![active] = [k \in DOMAIN @ \cup {n} |->
                      IF k = n THEN [on |-> on, order |-> at] ELSE @[k]]]
        /\ view' = [view EXCEPT ![i].on = on]
  /\ fresh' = None /\ Edit
  /\ UNCHANGED <<data, active, file, proposal, saving, writes>>

\* reorder: a neighbour of the same group, neither of the two locked.
Move(i) ==
  /\ {i, i + 1} \subseteq DOMAIN view
  /\ ~ view[i].locked /\ ~ view[i + 1].locked
  /\ view[i].name \in Master <=> view[i + 1].name \in Master
  /\ view' = [view EXCEPT ![i] = view[i + 1], ![i + 1] = view[i]]
  /\ Edit
  /\ UNCHANGED <<data, rows, active, file, proposal, saving, fresh, writes>>

\* sort_with_loot: some order with the early plugins and the masters first.
Sort ==
  /\ active # None
  /\ \E s \in SetToSeqs((data \cap Master) \ Early), t \in SetToSeqs(data \ Master) :
       proposal' = Remaining(data \cap Early) \o s \o t
  /\ UNCHANGED <<data, rows, active, file, view, saving, fresh, writes, edits>>

\* onApplySortedOrder: names the list lacks are dropped, those the proposal
\* lacks come last.
ApplySorted ==
  /\ proposal # <<>> /\ proposal' = <<>>
  /\ LET first == Among(proposal, Names(view)) IN
     view' = [i \in DOMAIN first |-> view[Place(view, first[i])]]
             \o Only(view, Plugin \ ToSet(proposal))
  /\ UNCHANGED <<data, rows, active, file, saving, fresh, writes, edits>>

-----------------------------------------------------------------------------
\* The writes.

\* save_plugin_order: the profile is looked up under one lock ...
SaveClick ==
  /\ saving = Idle /\ active # None /\ view # <<>> /\ writes < MaxWrites
  /\ saving' = [profile |-> active, list |-> view]
  /\ UNCHANGED <<data, rows, active, file, view, proposal, fresh, writes, edits>>

\* A row per listed plugin, its index the order; other rows stay.
Persisted(p, list) ==
  [n \in DOMAIN rows[p] \cup Names(list) |->
     IF n \notin Names(list) THEN rows[p][n]
     ELSE LET i == Place(list, n) IN [on |-> list[i].on, order |-> i - 1]]

\* ... the file and then the rows are written under another.
SaveWrite ==
  /\ saving # Idle /\ saving' = Idle /\ writes' = writes + 1
  /\ file' = Applied(saving.list)
  /\ rows' = [rows EXCEPT ![saving.profile] = Persisted(saving.profile, saving.list)]
  /\ fresh' = saving.profile
  /\ UNCHANGED <<data, active, view, proposal, edits>>

\* It fails before the file is touched, or with the seed already in it.
SaveFails ==
  /\ saving # Idle /\ saving' = Idle /\ writes' = writes + 1
  /\ file' \in {file, Seed(OnDisk(saving.list))} /\ fresh' = None
  /\ UNCHANGED <<data, rows, active, view, proposal, edits>>

\* The file is written, and the rows, a statement each, end after some of them.
SaveStops ==
  /\ saving # Idle /\ saving' = Idle /\ writes' = writes + 1
  /\ file' = Applied(saving.list) /\ fresh' = None
  /\ \E k \in 0 .. Len(saving.list) - 1 :
       rows' = [rows EXCEPT ![saving.profile] =
                  Persisted(saving.profile, SubSeq(saving.list, 1, k))]
  /\ UNCHANGED <<data, active, view, proposal, edits>>

\* The tail of switch_profile (DeployEngine, ShellCommands): the target's rows
\* are applied, then it is active; if either fails no profile is.
Switch(p) ==
  /\ Edit /\ UNCHANGED <<data, rows, view, proposal, saving, writes>>
  /\ \/ file' = Applied(Recorded(p)) /\ active' = p
     \/ /\ file' \in {file, Seed(OnDisk(Recorded(p))), Applied(Recorded(p))}
        /\ active' = None
  /\ fresh' = active'

-----------------------------------------------------------------------------
\* Outside.

\* A deployment puts a mod's plugin into Data, or takes it away.
Redeploy ==
  /\ \E n \in Plugin \ Early : data' \in {data \cup {n}, data \ {n}} \ {data}
  /\ fresh' = None /\ Edit
  /\ UNCHANGED <<rows, active, file, view, proposal, saving, writes>>

\* The game, or another tool, rewrites the file: a line is dropped, is added
\* or trades places with the next.
Meddle ==
  /\ \/ \E i \in DOMAIN file : file' = RemoveAt(file, i)
     \/ \E n \in Plugin \ Names(file) : file' = Append(file, [name |-> n, on |-> TRUE])
     \/ \E i \in 1 .. Len(file) - 1 :
          file' = [file EXCEPT ![i] = file[i + 1], ![i + 1] = file[i]]
  /\ fresh' = None /\ Edit
  /\ UNCHANGED <<data, rows, active, view, proposal, saving, writes>>

Next ==
  \/ ListPlugins \/ Sort \/ ApplySorted \/ SaveClick \/ SaveWrite \/ SaveFails
  \/ SaveStops \/ Redeploy \/ Meddle
  \/ \E n \in Plugin : Toggle(n)
  \/ \E i \in DOMAIN view : Move(i)
  \/ \E p \in Profile : Switch(p)

Spec == Init /\ [][Next]_vars

-----------------------------------------------------------------------------
\* What a profile's rows say of the plugins that are installed and not early:
\* the enabled ones, masters first, then in order, then by name.
Intended(p, r, S) ==
  LET Before(a, b) ==
        \/ a \in Master /\ b \notin Master
        \/ /\ a \in Master <=> b \in Master
           /\ \/ r[p][a].order < r[p][b].order
              \/ r[p][a].order = r[p][b].order /\ a < b
      enabled == {n \in DOMAIN r[p] \cap S : r[p][n].on}
  IN Sorted(enabled, {ab \in enabled \X enabled : Before(ab[1], ab[2])})

Users(f) == Among(ActiveLines(f), Plugin \ Early)

\* The file a command has written activates what the rows of its profile say,
\* no more, in their order: after a save (of the plugins it listed) also when
\* another profile has become active in between, after a switch of all that is
\* installed (plugins.rs, profile.rs "carries the plugin order").
WrittenIsRecorded ==
  [][/\ SaveWrite => Users(file') = Intended(saving.profile, rows',
                                             (data \ Early) \cap Names(saving.list))
     /\ \A p \in Profile : active' = p /\ Switch(p) =>
          Users(file') = Intended(p, rows', data \ Early)]_vars

\* When reconcile_plugins says "in sync" the game does load what the profile
\* has: of the plugins it has enabled, all that are installed, masters first,
\* each group in the order of its rows - whether the file is the app's, one
\* that a failed save left half done, or what the game or another tool made of
\* it, and whatever has been deployed since (reconcile.rs).  Plugins that the
\* profile has not enabled the verdict leaves out when they are installed.
InSyncIsLoaded ==
  \A p \in Profile : Drift(p) = {} =>
    Among(Loaded(file), (Active(file) \cap Enabled(p)) \ Early)
      = Intended(p, rows, data \ Early)

\* No enabled plugin that is not a master is ahead of a master in the rows.
MastersAhead(p) ==
  \A m \in Enabled(p) \cap Master, n \in Enabled(p) \ Master :
    rows[p][m].order < rows[p][n].order

\* What save_plugin_order or switch_profile has written is no drift until the
\* file, the rows or the plugins change: the verdict names nothing but enabled
\* plugins that have no line in it - early, not installed, not in the list that
\* was saved - unless the rows have a plugin ahead of a master, which the file
\* never has (reconcile.rs "avoid false alarms").
WrittenIsInSync ==
  fresh # None =>
    /\ Drift(fresh) \subseteq Enabled(fresh)
    /\ MastersAhead(fresh) => Drift(fresh) \cap ToSet(ActiveLines(file)) = {}

=============================================================================
