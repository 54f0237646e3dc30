# NexTwist: TLA+ verification of the mod manager's safe core

NexTwist installs mods into Bethesda games under Steam/Proton and promises
that the game folder can always be brought back byte for byte. This directory
holds TLA+ specifications translated from its Rust source, the TLC
configurations that check them, and proofs that TLAPS checks. All source paths
are relative to the repository; `crates/...` lies under `src/`.

## 1. Inventory

| Component | State it keeps | Operations | What makes it correct | Status |
|---|---|---|---|---|
| Deploy engine (`crates/deploy`: engine, journal, backup, method; `crates/store`: journal, manifest, vanilla) | the game's `Data/` tree, the originals store, tables `op_journal`, `deployed_file`, `vanilla_backup` | `deploy`, `deploy_winners`, `redeploy_winners`, `purge`, `recover_on_launch` | no original is ever lost; provenance matches the disk; recovery converges; purge is the inverse of deploy | `DeployEngine`, but for symlinks |
| INI activation (`deploy/gameconfig.rs`, `journal::replay_ini`) | `StarfieldCustom.ini` in the Proton prefix, a provenance row under a sentinel path | the editor, `ensure_ini_active`, `restore_ini_at`, the apply command, the hooks of deploy, purge, repair and recovery | the user's own INI survives and comes back; an activation is exact and touches nothing else | `IniMerge`, `IniActivation` |
| Verify and repair (`deploy/verify.rs`) | none (reads manifest and disk) | `verify`, `repair` | a repair leaves no drift it could mend and never removes a user's file | `VerifyRepair` |
| Profile switch (`deploy/profile.rs`, `store/profiles.rs`) | profiles, memberships, the active flag | `switch_profile` | the active profile is the deployed one | `ShellCommands`, plugin order in `LoadOrder` |
| Conflict resolution (`deploy/conflict.rs`) | none | `resolve`, the conflict report | one owner per path, the lowest rank wins | winner only, in `CollectionInstall` |
| Path handling (`deploy/casefold.rs`, `path_guard.rs`, `probe.rs`) | none | normalise, guard, probe | a target stays below the deploy root | no |
| Store (`crates/store`) | one SQLite database, WAL, `synchronous=FULL` | one facade method per statement | each statement is atomic; nothing spans two statements | tables as variables of the modules that use them |
| Nexus rate limiter (`nexus/ratelimit.rs`) | a token bucket and a backoff deadline | `until_ready`, `note_headers` | a backoff recorded by one request is kept by all | `NexusDownloads` |
| Nexus client and downloads (`nexus/download.rs`, `commands/downloads.rs`, `commands/nexus.rs`) | cancel flags, the archive being fetched, rows of the window | click, `nxm://` link, cancel, download, stage, record | no archive is left over; a mod that is listed is whole; a cancelled one is not listed; a row of the window settles | `NexusDownloads` |
| Collections (`nexus/{manifest,resolve,replay}.rs`, `commands/collections.rs`) | the collection's rows and pins | resolve, bulk download, rank, pin, deploy, uninstall | each mod is accounted for once; the manifest decides who owns a path | `CollectionInstall`, interleavings in `ShellCommands` |
| Extraction (`crates/extract`) | a temporary tree and a staging root per mod | detect, unpack, validate, move, lock, list | only vetted content; a returned install is complete; its files are locked | `ArchiveStaging` |
| FOMOD (`crates/fomod`, wizard in the frontend, `commands/fomod.rs`, `nexus/replay.rs`) | the dialog's pages, selection and flags | parse, evaluate, order, gate, plan, install, replay | what is installed was accepted by the installer it came from; one source per destination | `FomodSchema`, `FomodInstaller` |
| Load order (`crates/loadorder`, `commands/plugins.rs`) | `plugins.txt`, `plugin_state` | scan, merge, move, sort, save, reconcile | the file says what the profile says; drift is reported | `LoadOrder` |
| Steam (`crates/steam`), core model, testkit | none | discovery; data types; fixtures | - | no |
| Session auth and keyring | tokens | OAuth, keyring | - | no |
| Command shell (`src-tauri`) | `AppState` behind one `tokio::Mutex`: the store, sessions, the downloads map | about forty commands | commands that let go of the mutex do not act on stale reads | `ShellCommands` and the modules above |
| Frontend (`frontend`) | UI state | calls commands | - | the wizard, the plugin list, the download rows, the collection card |

How they interact: the frontend calls a shell command; the command locks
`AppState`, reads the store, may let go of the lock for blocking or network
work, and calls the engine with the store. The engine is synchronous and holds
the lock for its whole run, so engine operations do not interleave with each
other. What does interleave with it is the crash: one file operation and the
row that records it are two durable writes, and there are up to eight such
writes per file. At the next launch `recover_on_launch` reads what is left,
before any command can run. Downloads and extractions run outside the lock,
several at a time, and meet in three places: the rate limiter, the staging
roots, which are named after display names, and the rows of the store.

What is hard here: a crash or an error return between any two durable writes;
a crash inside recovery; a file copy cut in half; staged sources that are gone
when recovery or repair needs them; Steam and the user changing files between
two runs; rows that outlive the operation that used them; commands of the shell
that read under one lock and act under another; results that arrive in another
order than they were asked for; a backoff recorded while another request
waits; an archive that is replaced between its inspection and its
installation. `PROJECT.json` lists each hazard at the line where it bites.

## 2. Modules

| Module | What it is |
|---|---|
| `ReversibleTree` | abstract specification: what the engine promises of one game folder |
| `DeployEngine` | the engine, one action per durable write |
| `VerifyRepair` | `DeployEngine` with verify and repair beside it (composition) |
| `IniMerge` | the editor of `StarfieldCustom.ini`, pure operators |
| `IniActivation` | the journaled activation and restore of that file |
| `ShellCommands` | the shell's commands on profiles, collections, downloads and deployment, as concurrent tasks |
| `NexusDownloads` | downloads, the cancel flag, the rate limiter, the rows of the window |
| `ArchiveStaging` | installs of archives into one staging root |
| `CollectionInstall` | a Collection from the pasted manifest to the owners of its paths |
| `FomodSchema` | the installer's pure part: conditions, projection, selection gate, plan, replay |
| `FomodInstaller` | the wizard and the commands behind it, over `FomodSchema` |
| `LoadOrder` | plugins: window, store, `plugins.txt`, libloot, reconcile |
| `MC...` | values of the constants for TLC, one module per specification above |
| `...Proofs` | the theorems, section 4; `VerifyRepairProofs` has those of the engine too |

A component that appears in two modules is detailed in one and a single step in
the other: the engine works file by file in `DeployEngine` and root by root in
`ShellCommands`; one download is many steps in `NexusDownloads`, one outcome in
`CollectionInstall`, two steps in `ShellCommands`; an extraction is many steps
in `ArchiveStaging` and one outcome in `NexusDownloads`.

### DeployEngine

Correspondence of the state:

| Variable | Code |
|---|---|
| `disk`, `dirs` | the files and directories below `<install>/Data` |
| `manifest` | table `deployed_file` (hash, source_mod; the `pre_existing` flag is only a report and steers nothing) |
| `ledger`, `blob` | table `vanilla_backup`, and `<originals>/<appid>/<hash>` |
| `staged` | which staged source files exist |
| `journal` | the rows of `op_journal` with state `pending` |
| `phase`, `pc`, `cur`, `todo`, `plan`, `gone` | the running loop (`deploy_winners`, `purge_inner`, `replay`), its next durable write, the row in hand, the worklist, the winners, and the relpaths for `remove_emptied_dirs` |
| `orig`, `origDirs`, `faults` | history: what Steam or the user last left at each path, and how many faults there were |

`Local` is the mod whose tree lies at the staging root itself (a local archive):
`deploy` places that one and records `source_mod` 0 for its files, as recovery does;
`deploy_winners` places mods that have a row and records their ids.

Bytes stand for their digest: a mod's name is also the content it ships, so a
file on disk shows who put it there. Every action is one durable write and its
guard is the path the code takes to it: `BeginOp` (intent row) - `BackupCopy`,
`RecordVanilla` - `PlaceRemove`, `PlaceCreate` - `RecordDeployed` - `MarkDone`
for a deploy; `BeginOp` - `Unlink` - `Restore` - `DropManifest` - `MarkDone`
for a purge. Recovery enters the same chains at the place its branches choose
(`ReplayForward`, `ReplayLeave`, `ReplayBack`, `ReplayPurge`). The creation of
parent directories and the removal before a copy are part of the action they
belong to, since nothing else reads the state in between.

Faults are named and a run chooses which may happen:

| Fault | Meaning |
|---|---|
| `crash` | the process dies between two durable writes |
| `torn_backup`, `torn_place`, `torn_restore` | one of the three file copies is cut short, by a death or by an error that leaves the part written |
| `fail_file`, `fail_commit`, `fail_recovery` | a file operation, a database statement, or any step of a recovery returns an error |
| `write`, `delete` | Steam or the user writes or deletes a file at a path that is neither managed nor pending |
| `touch_pending`, `touch_managed` | ... also at such paths |
| `unstage`, `lose_blob` | a staging directory, or a blob of the originals store, is deleted |

### ReversibleTree

A path is `original`, `deployed` or `moving`. A move is announced before the
contents change, ends in one of the other two states, and ends eventually. In
the refinement a path is moving while a row is pending for it, and what it
holds meanwhile is hidden. A path where a copy was cut short may hold debris
instead of the original from then on, and only such a path (`cut`). The mapping is
`Reversible` in `DeployEngine`.

### ShellCommands

Commands are async tasks over one `AppState` behind a `tokio::Mutex`. A command
holds the mutex for a section at a time, lets go of it during downloads and
between sections, and goes on with what it has read. A step is one durable
write, so a crash can fall between any two.

| Variable | Code |
|---|---|
| `mods`, `profiles`, `active`, `members`, `colls`, `pins` | tables `managed_mod` (staging_root), `profile` (name, active), `profile_mod`, `collection` (slug, profile_id), `collection_mod`, with the foreign keys of migrations V3 and V5 |
| `issued` | the AUTOINCREMENT counters: a deleted id is never used again |
| `trees` | the staging roots on disk, named after the mod's display name |
| `live` | the roots whose files are in the game, which is the deploy manifest by root |
| `lock`, `proc` | the mutex and, per task, the command, its place in it and its locals |
| `up`, `calls` | whether the process runs; the calls issued so far (the bound) |

`deploy_collection` is `DeployCollection` - `CreateDedicated` - `LinkProfile` -
`JoinMod`s - `Joined` (lets go of the mutex) - `StartPurge` - `PurgeRoot`s -
`Purged` - `PlaceRoot`s - `SetActive`; `switch_profile` is the part from the
purge on, with `PlaceFails` - `ClearActive` as its error path.
`uninstall_collection` is `UninstallCollection` (read) - `StartPurge` ...
`Purged` (lets go) - `StartCleanup` - `UnflagProfile` - `DropDedicated` -
`RemoveTree`, `RemoveModRow` per mod - `RemoveCollection`, with the profile and
the mods of the read. `download_collection` upserts the row, fetches several
mods at once (`StageTree`, `AddModRow`, or `FetchFails`) and pins them one by one.

Two commands can really run at once: the page's `busy` flag is cleared by nested
calls (a download ends with a refresh that clears it while another command
runs), and `nxm://` links start downloads in the backend.

What is abstracted: the engine works root by root, since within one root
`DeployEngine` says what happens and its recovery closes only the path that was
cut; conflicts, ranks and `plugins.txt` are left out, every member is enabled;
one game; a collection has one revision; cancelling is a fetch that fails;
failures of `remove_dir_all`, whose result the code drops, are left out.
`deploy_winner_set` is the action `Purge`: it deploys the mods with `enabled` set
in `managed_mod`, which every insert writes as false and no statement sets.

| Property | Says |
|---|---|
| `SwitchSettles` | however a switch ends, the files of two profiles are never mixed, and flag and files agree in one of four ways: the flagged profile is the one deployed (a wanted tree that was missing is passed over); an error after the purge, and nothing is flagged; the purge failed or was cut, and the old flag stands over part of the old files; a crash while placing, and the old flag stands over part of the new |
| `NoDanglingRows` | no row names a parent that another command removed between the read and the write |
| `ActiveProfileKept` | no step removes the profile that is active |
| `NobodyStuck` | the holder of the mutex can always move on without it, and a waiting task can move once it is free |

### VerifyRepair

Extends `DeployEngine` by one variable, `report`: the drift that the running repair
computed when it began. `Missing`, `Changed`, `Orphans` and `OrphanDirs` are
the classes of `verify`. A repair is `StartRepair` - per drifted file
`RepairSkip` (no source there; for an entry without a mod it is looked for at the staging
root, where the tree of `Local` lies) or
`RepairRemove`, `RepairCreate` - `RepairEnd`, which removes orphaned
directories. No row is written: the crash between the removal and the placement
leaves a managed path empty, with nothing in the journal, and the purge after
it has to cope. Steam and the user may change managed files
(`touch_managed`), staged trees may vanish (`unstage`).

| Property | Says |
|---|---|
| `OriginalsSafe` | as in the engine, with repairs and drift |
| `UnmanagedIsOriginal` | a path the manifest does not list, with no row pending, holds the original byte for byte, or the debris of a copy that was cut short there |
| `RepairSettles` | after a repair, every managed file whose source can be found is as recorded |
| `RepairSparesOthers` | a repair changes only what was reported drifted, and takes no directory of a managed file |

### IniMerge and IniActivation

The editor works on lines. A line is what it can tell apart: a section header,
one of the two owned keys in NexTwist's spelling or another, the user's own
directory list, or text. `Plan` is `plan_merge`, `Merged` the bytes it plans,
`HasConflict` is `detect_conflict`, `IsActive` is `is_active_at`.

| Variable | Code |
|---|---|
| `ini`, `folder` | the file, and how far the folders above it exist (`prune` removes only empty ones) |
| `row` | the row of `vanilla_backup` under the sentinel: none, the absence marker, or the bytes of its blob |
| `pending` | rows of `op_journal` with the INI kind that are pending |
| `loose`, `dataRows` | whether the manifest lists anything; whether `Data/` rows are pending |
| `task`, `pc`, `jid`, `res`, `buf` | the running command, its next write, whether the purge journaled the INI, the resolution asked for, the bytes planned |
| `own`, `mixed` | history: the user's file when it was last all theirs, and whether they have edited an activated one since |

`ensure_ini_active` is `EnsureNothing`, or `EnsurePlan` - `EnsureIntent` -
`EnsureBackup` - `EnsureWrite` - `MarkDone`. `restore_ini_at` is `RestoreRemove` -
`RestorePrune` or `RestoreCopy` - `RestoreForget`. A purge is `PurgePlan` (the intent row)
- `PurgeData` - the restore; a redeploy goes on with a deploy; a deploy ends
with ensure; a repair calls ensure when `ini_drift` says so; a launch replays
the pending rows. Faults are a crash at every write, an error return
(`fail`), and a restore copy cut short by a crash (`torn`) or by an error
(`torn_fail`).

| Property | Says |
|---|---|
| `OriginalIniSafe` | what the user had is on disk or is what the provenance row restores |
| `InactiveIsUntouched` | without provenance the file is the user's, byte for byte |
| `EnsureSettles` | a command that ran ensure to its end leaves an active file, or one it must not touch |
| `UserDirsKept` | the user's data directories are overwritten only on request or by the restore |
| `PurgeNeverStrandsIni` | a purge of an activated game ends with the INI restored, or cut with the intent in the journal |
| `IniRecovered` | a launch closes every pending INI row |

### NexusDownloads

A task is one call of `run_download_to_window`. The mutex is taken and let go of
three times per task, so any other task, the clock or the user may act between
two steps.

| Variable | Code |
|---|---|
| `deadline`, `tokens` | `backoff_until` in seconds to come (0: elapsed but recorded, -1: none); the bucket |
| `pc`, `req`, `left` | the step of each task, the request it makes, the chunks still to come |
| `registered`, `tripped` | `AppState.downloads` and the flags in it |
| `archive`, `staged` | the `.nextwist-dl-*.archive` file; how much of the tree is in the staging root |
| `mods`, `sourced` | rows of `managed_mod` and of `nexus_source` |
| `outcome`, `row` | the terminal event; the state of the row in the window |

`until_ready` is `Gate` - `ClearElapsed` - `TakeToken`, each look at the shared
deadline a step; a response is `Answered` (with `NoteHeaders`), `TooManyRequests` or
`NoAnswer`. A body is `OpenStream` - `Chunk`s - `Flush`; then `Extract`, `StartMove` -
`MoveIntoStaging` (the move takes time, and two tasks of one root may both be in it), `Persist`, `Report`, and for an error `Rejected`, which is what the
caller's `catch` does after the event. `Kill` ends the process at any step. Times are whole
seconds.

| Property | Says |
|---|---|
| `BackoffHeld` | no response and no waking task brings a deadline nearer; only time does |
| `NoOrphanArchive` | an untrusted archive exists only while its task downloads or extracts it, or after a kill |
| `ListedIsStaged` | a mod in the store has its whole tree in its root; a root that another file of the same display name was moved to may hold a mixture |
| `CancelStops` | what was cancelled before its last chunk is never listed |
| `InvokedRowSettles` | the row of a download started in the window ends in a terminal state |

### ArchiveStaging

A task is one `install_archive`; nothing serialises two of them, and a display name
gives both one root. `pc`, `arch`, `at` place a task; `temp` is its own temporary tree;
`todo` what it still moves; `root`, `dirs`, `files` are the staging root, where each file
carries who put it there and whether it is locked. `Begin` tells the format,
`Unpack` validates and writes one entry, `RunTool` and `Revalidate` are the
external rar tool, which writes one entry at a time too, and the walk over what it wrote, `DetectRoot` finds a wrapper
folder and renames or merges, `MoveItem` moves one file (the copy may be torn),
`MarkReadonly` and `List` end it, or fail with everything in the root.

| Property | Says |
|---|---|
| `OnlyVettedContent` | a file of the root comes from an archive that passed as a whole, at its place, with its bytes; torn only if its install failed |
| `OkIsComplete` | an install that returned has all its files there and listed, none left over from an earlier one |
| `LockedDown` | its files are read-only, whatever the other install did |

`Content` defines what an archive is meant to hold without unpacking it, from its names and
the last file each of them has, which is the
reference the step-by-step extraction is checked against.

### CollectionInstall

From the text area to the deployed paths: `Paste`, `ResolveClick` - `ResolveNext`s -
`ResolveEnd` (the availability report), `DownloadClick` - `Start`, `Fetched`,
`Collect` (started in the order of the manifest, at most `Concurrency` in flight, landing
in any order) - `Collected` - `Pin`,
`PinFails` - `DownloadEnd` (the report), `DeployCollection`, `UninstallCollection`.
`RankOf` is `compute_collection_ranks`, `Deployed` is `conflict::resolve` over the
pinned mods, with `Target` for the casing map. A mod's `fileOverrides` are in its
`Adjustment`, as in the code, and are read by nothing, as in the code. A second download
unlinks the dedicated profile, after which the deploy fails on its name.

| Property | Says |
|---|---|
| `Accounted` | a bulk download accounts for every mod of the manifest exactly once, and agrees with the availability report |
| `ManifestOrderWins` | without rules, the first mod of the manifest that has a file owns it, in whatever order things arrived |
| `RulesDecide` | a rule decides who owns the files both mods have (violated, a finding) |

### FomodSchema and FomodInstaller

`FomodSchema` has the installer as data, `Holds` and `TypeState` (conditions, nested to any
depth within the constant `Composite`),
`Project` (the ordered, visible pages), `Accepted` (the gate of `resolve`), the plan with
`DedupByPriority`, and `Replay` (the choices a Collection pins). Names are numbers, so
that an order by name means something. `Ordered` says which element comes k-th: the one with
k - 1 others ahead of it, ties as in the document, which is what a stable sort makes.
`DedupByPriority` is the loop of the code, a recursive function of the number of items seen.

`FomodInstaller` is the dialog (`wizard`, `step`, `chosen`, `preview`), the flags of the page
(`busy`, `applying`, `fallback`), the calls in flight (`calls`), the archive
on disk and the mods installed. An apply is two steps, as it reads the archive twice:
`ApplyChecks` (or `ApplyRefused`) and `ApplyStages` (or `StagingFails`). The one `busy` flag is cleared by every return,
also that of a refresh which a finished download started, so several calls can
be in flight; the archive at the path may be replaced at any time.

| Property | Says |
|---|---|
| `AskedIsComplete` | action property: a plan is asked for only with every page decided, although only the shown page is checked |
| `AcceptedByItsArchive` | a mod recorded with a selection came from an archive whose own installer accepts it, unless the archive was replaced between the two reads of the apply |
| `FirstHighestWins` | each destination shows the first source of the highest priority |
| `ReplayIsTheWizard` | replaying what the user picked gives the selection the wizard sends |

### LoadOrder

`data` is what is installed, `rows` the table `plugin_state` per profile, `file` the lines of
`plugins.txt`, `view` and `proposal` the window's list and sort proposal, `saving` a
`save_plugin_order` between its two locks. `Loaded`, `Active` and `Saved` are libloot as
`loot.rs` uses it (external). `ListPlugins`, `Toggle`, `Move`, `Sort`, `ApplySorted` are the
window; `SaveClick` - `SaveWrite`, `SaveFails` (no file, or the seed) or `SaveStops` (the file
and some of the rows) the command; `Switch` a change of profile, which may fail at the same places
or after the file; `Redeploy` and `Meddle` the world outside. `rows` starts with what an earlier
session may have left (`Start`); `fresh` is history: the profile that the file was
last written for, while neither file, rows nor plugins have changed. The code's sorts and filters are `Sorted`,
`Remaining` and `Kept`, by rank instead of by recursion, so that they can be proved about.

| Property | Says |
|---|---|
| `WrittenIsRecorded` | a written file activates what the rows of its profile say, in their order |
| `InSyncIsLoaded` | if the verdict is in sync, the game loads all that the profile has enabled and is installed, masters first, in the order of its rows, whoever wrote the file |
| `WrittenIsInSync` | what a save or a switch has just written is no drift, but for enabled plugins without a line, and rows with a plugin ahead of a master |

## 3. Runs

| Run | Instance | Shows |
|---|---|---|
| `engine_crash` | 2 paths, 2 mods, 2 originals; `crash`, `torn_backup`, `torn_place`, `torn_restore`, `write`, 2 faults, 1 pending row when a command starts | `OriginalsSafe`, `LedgerClean`, `PathsExplained`, refinement of `ReversibleTree`, and under fairness `MovesEnd`, `RecoveryConverges` |
| `engine_faults` | 1 path, all faults, 3 of them, 2 pending rows | what holds whatever fails: `TypeOK`, `RowsClosedConsistent`, `CommandsReturn` |
| `engine_retry` | one failed commit | violated: `OriginalsSafe` (a finding) |
| `repair` | 2 paths, 2 mods, 1 original, one of the mods a local archive; `crash`, the three torn copies, `unstage`, `touch_managed`, 3 faults | the four properties of `VerifyRepair` |
| `ini` | 5 user files, 1 edit (before or after the activation), `crash`, `fail`, `torn`, 2 faults, 2 pending rows | the six properties of `IniActivation` |
| `shell_concurrent` | 2 tasks, 2 collections of one mod each, 1 hand-made profile, a local archive; every command, every fault, 4 calls | `NoDanglingRows`, `NobodyStuck`, `SwitchSettles`, `ActiveProfileKept` |
| `downloads` | one download of the window, one of a link, two files, one root; bucket of 1, resets 0 to 2, 2 chunks | the five properties of `NexusDownloads` |
| `staging` | 2 installs of any two of 8 archives into one root | the three properties of `ArchiveStaging` |
| `collection` | 3 manifests, 2 downloads at a time, 2 bulk downloads | `Accounted`, `ManifestOrderWins` |
| `collection_rules` | the same | violated: `RulesDecide` (a finding) |
| `fomod` | 2 installers, 1 replacement of the archive (also in mid-apply), 1 refresh, 2 installs | the four properties of `FomodInstaller` |
| `loadorder` | 4 plugins (one early, two masters), 2 profiles with the rows of an earlier session, a plugin ahead of a master among them, 1 save, 2 other changes | `InSyncIsLoaded`, `WrittenIsInSync`, `WrittenIsRecorded` |

The two violated runs are findings; `PROJECT.json` quotes the line each of them
contradicts.

Bounds of the engine (`engine_*`, `repair`). Two paths suffice for a worklist with an order, a crash after the first
file and before the second, and a directory shared by nobody and one that is;
rows of different paths never read each other's state except through the
content-addressed store, which two paths with one original exercise. Two mods
give a redeploy of another winner. Two faults in `engine_crash` allow a crash, also inside a
copy, and a crash in the recovery from it, or an update by Steam on either side of one;
three in `repair` and `engine_faults` allow all of these together.
`MaxPending` bounds the rows left behind by commands that returned an error: with
`crash` alone recovery closes every row before the next command, so 1 is not
a restriction; with failing steps 2 allows two pending rows of one path.

INI. The five files take every branch of the editor: no section, a section that is complete but
for the user's own value, keys of the same name in another section, an active file, UTF-16;
that the editor is right on every file is proved. Two faults are a crash
and a crash in its recovery. Edits while a row is pending are left out (section
6 says what happens then).

Shell. Two tasks are enough: a third could only act in the same gaps. Two
collections give two profiles to switch between, or one of them shares the
game with the hand-made profile. One mod each keeps the order of a collection's
mods out; `Download` of a collection's mod gives a second row over one tree.
Four calls (`MaxCalls`) cover what the hazards need at most: download, deploy,
then two commands that race. The run stops when the calls are used up, hence
`CHECK_DEADLOCK FALSE`; that no task is ever stuck is `NobodyStuck`.

Downloads. Two tasks make every race on the deadline: one finds it elapsed while the other
arms it. Two chunks have a before, a between and an after for the cancel; resets of
0, 1 and 2 seconds a shorter and a longer deadline than the recorded one. A bucket of one token
makes the second request wait. The two tasks download two files of one display name, so that
their trees meet in one root; tasks that download the same file are in the proof.

Staging. The archives are one per case: plain, wrapped with game folders and a readme, a path
twice, a link among files, a path that leaves the archive, two for the rar tool
(one with a link), and a text file. Collection. The first manifest has every source type and files two mods share,
one of them in two spellings, and an override by the later of two mods; the second a rule; the third is for
another game. Fomod. One installer has pages that depend on a flag, a nested
condition, a pattern that changes an option's type, and three sources of one
destination; the other a group that is over-full from the start and options
without files. Load order. Four plugins have masters and regular ones, one that sorts
by name before all of them, and one the game loads by itself; the two profiles are symmetric.

These runs stop when their calls are used up or the window has nothing to do, hence
`CHECK_DEADLOCK FALSE` in `downloads`, `staging`, `collection`, `collection_rules`,
`loadorder`. The engine, `repair`, `ini` and `fomod` check for deadlock.

Fairness. `DeployEngine`: `WF(Engine)`, since the engine is synchronous code
under a mutex that only a death of the process stops, and deaths are bounded by
`MaxFaults`; `WF(Launch)`, since a user starts a dead application again.
`VerifyRepair` adds `WF(Repair)` and `IniActivation` has `WF(Program)`, `WF(Launch)`, on the
same grounds. `NexusDownloads`: `WF(Tick)` and `WF(Step(t))`: the clock
runs, the runtime polls its tasks, and a server answers or times out.
`CollectionInstall`: `WF(Work)`, downloads end. No fairness is assumed of users,
of Steam or of faults, and none at all in `ShellCommands`, `ArchiveStaging`,
`FomodInstaller` and `LoadOrder`, whose properties are safety properties.

Every property of a passing run is refuted under a mutant: a definition placed
before the one it changes, with a plausible slip of the code in it (no intent row,
a row never closed, a cancel that is not looked at, a move that goes on after
an error).

## 4. Proofs

All statements are proved for every number of paths, tasks, mods, files,
archives, plugins and commands, and every bound on calls, edits and faults. A
hypothesis that a theorem needs beyond the ASSUMEs of its module is named here.

| Module | About | Properties of runs it proves |
|---|---|---|
| `VerifyRepairProofs` | `DeployEngine`, `ReversibleTree`, `VerifyRepair` | `TypeOK`, `RowsClosedConsistent`, `OriginalsSafe`, `LedgerClean`, `PathsExplained`, `ReversibleSpec`, `RepairSparesOthers`, `RepairSettles`, `UnmanagedIsOriginal` |
| `IniActivationProofs` | `IniMerge`, `IniActivation` | `OriginalIniSafe`, `InactiveIsUntouched`, `EnsureSettles`, `UserDirsKept` |
| `ShellCommandsProofs` | `ShellCommands` | `NoDanglingRows`, `ActiveProfileKept`, `SwitchSettles` |
| `NexusDownloadsProofs` | `NexusDownloads` | `BackoffHeld`, `NoOrphanArchive`, `CancelStops`, `ListedIsStaged` |
| `ArchiveStagingProofs` | `ArchiveStaging` | `LockedDown`, `OnlyVettedContent`, `OkIsComplete` |
| `CollectionInstallProofs` | `CollectionInstall` | `Accounted`, `ManifestOrderWins` |
| `FomodInstallerProofs` | `FomodSchema`, `FomodInstaller` | `AcceptedByItsArchive`, `AskedIsComplete`, `FirstHighestWins`, `ReplayIsTheWizard` |
| `LoadOrderProofs` | `LoadOrder` | `InSyncIsLoaded`, `WrittenIsInSync`, `WrittenIsRecorded` |

### The engine and repair (`VerifyRepairProofs`)

The first part needs only the ASSUMEs of `DeployEngine`, so it covers
every set of faults. Its inductive invariant is `TypeInv == TypeOK /\ Control`:
`Control` ties `pc` to `phase` and to the kind of the row in hand and says that
this row is where `MarkDone` will look for it (last while a command runs, first
in recovery). `TypeOK` alone is not inductive since `cur.target`, `Head` and
`plan[t]` would have no type. Results: `TypeCorrect`, `IntentFirst`, `RowsClosed`.

The second part assumes that crashes and Steam's writes happen (`CrashFaults`: `crash`,
a death inside any of the three file copies, `write`) and that no mod ships an original
unchanged (`DistinctMods`;
section 6 says what happens otherwise). Then `CrashInv` is inductive: at
most one row is pending; the worklist holds no managed path in a deploy
(`Worklist`); the ledger is sound; every path without a row is explained by its
manifest entry, and what a purge needs of it is in ledger and store (`PathSound`); a pending path that no loop has in hand is in one
of the states a crash may leave (`JournalSound`); and a path in hand is in the
state its `pc` implies (`InFlight`). Without the last two the invariant is not
preserved by the recovery's entry into the middle of a chain. A death inside a copy
leaves part of a file under its final name, and recovery takes it for the whole one. So
none of the statements can be had without an exception, and each states it exactly:
the original whose own backup copy was cut short is lost, and a path where a copy was
cut short may be left with debris (`CutShortAt`, `AsLeft`). `Kept` is what survives
that: the ledger names the original or debris, and the store has something under the
original's hash, which no later step touches (`BlobsStay`). Everything else is as without
such deaths. Results: `OriginalsAreSafe`, `LedgerIsClean`, `PathsAreExplained`.

The third part is the refinement, under the same hypotheses: `ImplementsReversibleTree`.
The initial states map to initial states, and each action is mapped to a move, an
end of a move, a change by Steam or a stutter (`RefinementStep`).

The last part adds repair and the drift it is for. `OthersAreSpared` needs no
hypothesis; `RepairsSettle` needs `QuietRepair`: nobody writes or deletes a managed file while
the repair runs (drift before it, crashes and lost trees are free). `UnmanagedIsTheUsers`
and `OriginalsOutliveRepair` hold for crashes, also inside the three copies, drift of managed
files and mods that lose staged files (`RepairFaults`), with the same exceptions, and under `DistinctMods` and `OneAtATime`
(`MaxPending <= 1`: no command starts while a row is pending). The last is a real
restriction: when a staged tree is lost during a recovery, the roll-forward fails, its
row stays pending, and a command over it can back up our placement as an original,
as in `engine_retry`. `CrashInv` does not carry over, because a managed file may now
hold anything. What replaces it (`RepairInv`) says of each path what may be concluded
without looking at its bytes: what the ledger and the store hold is `Kept` (`LedgerExact`),
an unmanaged path with no row is the original or debris (`Unclaimed`, `Paths`), a pending row knows which of
the two it found (`Rows`), and the row in hand is at a stage its `pc` implies (`Flight`).

### The INI (`IniActivationProofs`)

The editor first, on every file, a sequence of lines of any
length: `WrittenIsActive` (what is planned is a fixed point of the planner and
carries the activation) and `UserLinesStay` (no other line is lost or
moved out of order). The argument follows the two owned keys through the four
cases of which of them are there: where the header, the end of the section and
the first key of each kind lie in the merged file is computed from where they
lay before.

The activation uses the first of them and assumes `Calm`: the user does
not save the file while a row is pending, and no restore copy is torn by an error
return (a torn copy by a crash is included). Its inductive invariant `IInv` has three parts: `Types`;
`Where`, which says where the user's file is (on disk, in the row, or in both);
and `Steady`, what each `pc` may rely on: a row, a pending intent, a buffered plan
that activates. `OriginalIniSafe`
alone is not inductive: `RestoreRemove` is safe only because the row is known to
hold the original at that `pc`. Results: `OriginalIsSafe`, `InactiveUntouched`,
`EnsureIsSettled`, `UserDirsAreKept`.

### The shell (`ShellCommandsProofs`)

`IInv == TypeOK /\ NoDanglingRows /\ \A p : Fits(p)`, where `Fits`
says that a task holds the mutex exactly in its sections and that what it
read in a section still holds there. Other tasks are dismissed by
two lemmas: a step under the mutex meets nobody else in a section, a step without it
leaves the rows alone. Results: `ShellTypeCorrect`, `RowsAreWhole`, `SectionsExclude`
(two tasks are never both in a section), `ActiveIsKept`, and `SwitchIsSettled`, which
needs one more invariant (`HalfDone`): until its purge is over, the game holds a part of
what it held before and the old flag; after it, what is
deployed and what is still to be placed are together what the profile wants. The ends
of a switch are read off it, the failed purge and the crash included.

### Downloads (`NexusDownloadsProofs`)

`DownloadsTypeCorrect`, `BackoffIsHeld`, `NoArchiveOrphaned`; `CancelledStop`
from `Progress`, which says how far a task that was cancelled can have come; and `ListedAreStaged`, from
`WholeBehindMove`: behind the move, the tree is whole and stays so until another file
is moved to the same root, and no root is mixed unless one was.

### Archives (`ArchiveStagingProofs`)

`ReturnedIsLocked` and `WholeArchiveVetted` (no file of a
.zip or .7z with a refused entry reaches the root), from `Control` and `Owned`: every file of
the root belongs to a task whose archive has passed, and is locked once that task has
come past its locking step.

`RootHoldsVettedContent` and `ReturnedIsComplete` compare what is on disk with `Content`.
The link between them is `TreeOf(tree, a, n)`: after n entries a temporary tree holds
exactly what the entries so far say, the last file of each path, and the directories they
made. It holds step by step (`Trees`), so no induction over the entries is needed: the run of the
program is the induction. At the end of the archive such a tree, seen from its wrapper folder,
is `Content` (`ToMoveIsContent`, where the wrapper that `DetectRoot` finds in the tree and
the one `Content` computes from the names are shown to be one). Behind that, `Rooted` and
`Complete` follow each file from the tree to the root. `ToolCoherent` is the hypothesis: no safe
name of a .rar is a file and a directory at once. For the other formats `CanHold` refuses
such an archive; what the external tool does with one is not known.

### Collections (`CollectionInstallProofs`)

The invariant `Inv` says, beside the types (`Typed`), that the report on the window tells to
do by hand what the manifest says (`Reported`), that a mod is at one place
only, queued, in flight, landed, collected or settled (`Counted`), and that ids are not
used twice and a pin holds the rank of its row (`Listed`). `EveryModIsAccountedFor` follows at the end of a download.
`TheManifestDecides` needs the last of these; the rest is arithmetic of ranks without rules,
in which a mod's overrides have no part.

### The installer (`FomodInstallerProofs`)

`RecordedIsAccepted` follows calls across the two reads of an apply: one that is about to
stage carries the archive its selection was checked against (`Checked`), and what it then
installs is of that archive or of one that has replaced it. `AskedWhenDecided` needs `Behind`: every
page behind the shown one is valid, though it was checked when it was left and the user has
clicked on other pages since. This is true because a click changes picks under the name of its own
page; the hypothesis `OneNameAPage` says that no two steps of an installer share one.

The rest of the module is about what the engine computes, for any installer. The
library's induction theorems cannot be used here, since they take an operator as a parameter;
`ByNumber` and `ByLength` take a set instead and rest on `LeastOfNumbers`. From these
come the laws of `FlattenSeq` (its length and type, what is in it, flattening what was
mapped, filtered, appended or flattened before) and what the loop of `dedup_by_priority` has after each item (`BestAfter`, `DedupBest`).
The inductive invariant `Resolved` says that the plan on the screen is the resolver's for the
selection and the archive it was asked for, also when the archive was replaced since. Results:
`TheFirstHighestWins`, and `ThePlanIsExact` (one row for each destination the selection
writes to, and no row that it does not contribute).

`ListedAsAuthored` says that `Ordered` rearranges a list by name in the author's direction and
is stable. It counts who comes ahead of whom: in a strict total order the ranks are distinct (`RankIs`),
so each place has one element (`RankedOnce`, a pigeonhole argument). Then the pages the user sees are the steps
of the installer in another order, with the same names and flags at each depth (`ProjectionIs`). `ReplayedIsTheWizard`
compares, page by page and group by group, what the page sends with what replay finds by name. Its hypothesis
`DistinctNames` says that names differ among the steps of an installer, the groups of a
step and the options of a group. The page relies on the last two as well (it keys its
lists by these names, `+page.svelte:2050` and `2062`); section 6 says what happens otherwise.

### Load order (`LoadOrderProofs`)

A third of the module is about order: a finite set is listed by `Sorted` in a strict order, each
element once (`SortedLists`), and that list is the only one in that order (`SortedIs`, `OneOrder`),
by counting who comes before whom. With it, lists are compared by their elements and by who
goes before whom (`Goes`), never place by place: through the scan's filters, the seed, libloot's
groups and what it appends (`LoadedIs`). `reconcile_order` is then shown to change nothing
(`ReconciledIs`): the movable plugins are already in the user's order in what libloot makes of the
seed. `AppliedIs` says what a written file activates, and `SaveIntended`, `SwitchIntended` compare it
with the rows. `ListsAreSound` is the invariant: all lists name known plugins, and the file, the window's,
the proposed and the saved list repeat none, through clicks, moves, LOOT's proposals over a
list that has changed since, saves that stop half way and what others do to the file.
`TheFileSaysTheRows` follows. For `InSyncIsWhatLoads` the verdict is unfolded (`DriftIs`, `InSyncIs`): in sync means
that every enabled plugin has a line, and that the lines of the enabled ones come in the
order of the rows; what libloot makes of such a file is what the rows intend (`LoadOf`, `OneOrder`). `TheFileIsNoDrift` needs one
more invariant, `FreshInv`: until something changes, the active lines of a file just written
are enabled in the rows, and in their order but for masters first.

Only model-checked: the liveness properties (`MovesEnd`, `RecoveryConverges`, `CommandsReturn`,
`PurgeNeverStrandsIni`, `IniRecovered`, `InvokedRowSettles`) and `NobodyStuck`, which
speaks of ENABLED: both are beyond the prover. Every other invariant and action property of a
passing run is a theorem, some under the hypotheses named above.

## 5. What is not modelled

Not in `DeployEngine`: the symlink rung of the method ladder, whose link aliases
the staged file, failures of `remove_dir` after the loops, several games sharing
one database (rows are keyed by `appid` throughout), and power loss after a file
operation that was never synced.

Not in `ShellCommands`: the plugin, FOMOD and INI commands (each in the module of its
component), account and game registration commands; ranks and the enabled flags a
user sets; renaming a profile; a local archive staged over the trees of
downloaded mods (`mods.rs:24` stages it into the directory they live in).

Failures of `clear_active_profile` after a failed switch, whose result the code drops, are
in no module.

Not in the others: letter case of plugin names and masters that a plugin requires;
the masterlist download; the conflict report and the manual ranking
(`commands/conflicts.rs`); rar and 7z decoding, which are outside the repository
as libloot is; HTTP and JSON. `FomodInstaller` has one archive path and a
dry-run without game state, as the code has.

Not modelled at all, since there is no state machine in them: path
normalisation and the path guard (string handling; their effect is the
constant `Target`), the filesystem probe (its effect is the faults of
the engine), the database set-up and migrations, Steam discovery, the
keyring and OAuth, the data types of the core crate, the test fixtures.

What would come next: the symlink rung; the conflict panel's ranking beside
`switch_profile`; letter case in the load order.

## 6. Observations

What the models showed of the code where it makes no promise that a run could
contradict, or where a constant or an assumption leaves the case out:

- `engine.rs:502`. The row of `vanilla_backup` outlives the purge that used it. When
  Steam deletes the original afterwards, a later deploy and purge, or a
  roll-back by recovery, bring the deleted version back. `engine_crash` has
  no deletions for this reason.
- `journal.rs:195`. Equal bytes are taken for the same file. For a mod that ships an original
  unchanged, a crash before the backup makes recovery take the original for our
  placement, and the next purge deletes it (put `Vanilla <- MCVanillaShared` into
  `engine_crash.cfg` to see it). `DistinctMods` in the proofs excludes it.
- `engine.rs:582`. Directories go when they are empty, whoever made them: one the game
  ships empty goes with the last mod file in it. `VanillaDirs` is empty in the runs.
- `gameconfig.rs:525`. What the user edits in an activated file is lost with the purge, and a
  failed activation of an absent file leaves the absence marker and a pending row, on which
  recovery acts although the user may have saved a file since.
- `backup.rs:78`. `fs::copy` writes a backup under its final name, and a blob that is there is
  taken for whole. A death inside the copy leaves a stub; recovery skips the copy,
  records the stub and overwrites the original, which is lost, although `journal.rs:8-9` says that a crash leaves an
  effect that is "either absent or already complete". The runs include it, and
  `OriginalsSafe`, proved and checked, says that it is the only way to lose one by a crash.
- `method.rs:65`. A placement by copy that is cut short leaves debris at the path. Recovery of a deploy that was to
  overwrite nothing, or had its backup, takes the debris for a foreign file: it is backed up and replaces the
  ledger row, and a purge puts the debris back (the original's bytes stay in the store under
  their own hash). If the mod is gone by then, the roll-back leaves the debris as if
  it were the user's file (`journal.rs:216`).
- `journal.rs:237`. Steam updates a file whose older version has a ledger row from an earlier deploy; a deploy
  dies before its backup, and the staged tree is lost: the roll-back puts the older version
  over the newer one.
- `verify.rs:252`. A file that recovery recorded has `source_mod` 0, so repair looks for it at the staging
  root itself and, if a local archive lies there, places that archive's file.
- `profile.rs:85`. "If this fails, nothing has changed and the OLD active flag is still correct": a purge
  that fails part way has removed some files already. `profile.rs:22` says that the flag "never points at a
  half-applied state": after a crash while the switch places files, the old flag stands over
  part of the new profile's (recovery completes the file in hand, not the switch).
- `fomod.rs:188`. `apply_fomod` checks the selection against one read of the archive and stages another: an archive saved
  over it in between is installed unchecked.
- `replay.rs:128`. A mod's `fileOverrides` "force-win regardless of rank" (also `replay.rs:246`, `collections.rs:240`).
  `map_rules_to_ranks` records them, `compute_collection_ranks` keeps only the ranks, and
  nothing else reads them: the manifest's order wins against them.
- `collections.rs:262`. A mod that cannot be recorded ends the command with `?`, where `collections.rs:94-95` says that
  "the batch continued past each": the mods behind it stay staged and without a collection.
- `collections.rs:392`. "Cannot strand any files" is not so when another command has deployed in the gap after
  the purge: the deployed files are left without their staged trees.
- `downloads.rs:176`. A 429 is reported as "a paused, retryable row", not as a terminal one, but the rejected call's `catch` marks the row
  of the window failed.
- `plugins.rs:238`. The rows are persisted one by one with `?`: when one fails the command returns an error with the new file and part of the
  rows, where `plugins.rs:186-196` says that an error means "nothing was saved". The seed that
  `loot.rs:390` writes before libloot has accepted the order is another such case.
- `reconcile.rs:65`. An enabled master that the game loads without a line is a delta that the doc (lines 6-9) and the
  test `reconcile_expected_deltas` call in sync; it is left out only if it is protected, and an enabled
  one never is (`plugins.rs` passes what is enabled to `protected_plugins`), so it is reported as drift.
- `reconcile.rs:80`. After the app's own save of an order with a plugin ahead of a master the verdict is drift at once:
  the file has masters first and the rows do not.
- `collections.rs:170`. Downloading a collection again sets its `profile_id` to NULL; the next
  deploy tries to create the dedicated profile and fails on its name.
- `collections.rs:417`. `uninstall_collection` lets go of the mutex after its purge: a deploy in the gap
  puts the mods back, and the uninstall then deletes the staged trees of deployed mods.
- `nexus.rs:258`. The row of a download that an `nxm://` link started has no caller to
  catch its error: an error before the registration, or a 429, leaves it as it is.
- `downloads.rs:322`. Two files of one display name share a staging root, which `staging.rs:60-61` demands to be
  absent or empty: the second is merged into, or replaces files of, the first, and both stay listed.
- `ratelimit.rs:114`. A request that waits for the bucket does not look at the deadline again and is
  sent although a 429 was recorded meanwhile.
- `loot.rs:187`. A plugin is shown as locked when it is active and not enabled in the profile, so
  one that another tool activated is locked and is not drift, though `reconcile.rs:6-12` and the test
  `reconcile_real_drift` call a foreign active line real drift.
- `replay.rs:85`. Replay takes the first step, group or option of a name, and the wizard every one: a pick
  is known by the three names, so of two options of one name both count as picked and
  raise their flags. `DistinctNames` in the proofs excludes it.
