---------------------------- MODULE ShellCommands ----------------------------
(***************************************************************************)
(* The commands of the Tauri shell that change profiles, collections, mods *)
(* and what is deployed: src-tauri/src/commands/{profiles,collections,     *)
(* downloads,conflicts,deploy}.rs over crates/store and                    *)
(* crates/deploy/src/profile.rs.                                           *)
(*                                                                         *)
(* Commands are async tasks that share one mutex. A command holds it for a *)
(* section at a time, lets go of it for downloads and between sections,    *)
(* and acts on what it read before. A step here is one durable write (a    *)
(* SQLite statement or transaction, one mod's files deployed or purged, a  *)
(* staged tree moved or removed), so that a crash may fall between any two.*)
(***************************************************************************)
EXTENDS Integers, Functions

CONSTANTS
  Proc,      \* tasks in flight
  Root,      \* staging roots: downloads.rs names them after the mod's display name
  Local,     \* the root that holds the locally installed archive
  Slug,      \* collections; also the name of the profile dedicated to each
  Members,   \* the roots a collection's manifest lists
  UserName,  \* names of hand-made profiles
  Free,      \* nobody holds the mutex
  Commands,  \* the commands that are issued (a subset of AllCommands)
  Faults,    \* the faults that may occur (a subset of AllFaults)
  MaxCalls   \* BOUND: commands issued in one behaviour

AllCommands == {"create_profile", "delete_profile", "switch_profile", "purge", "deploy",
                "download", "download_collection", "deploy_collection",
                "uninstall_collection"}
AllFaults   == {"crash", "fail_purge", "fail_deploy", "fail_fetch"}

ASSUME MemberAssumption  == Members \in [Slug -> SUBSET Root] /\ Local \in Root
ASSUME ChoiceAssumption  == Commands \subseteq AllCommands /\ Faults \subseteq AllFaults
ASSUME NameAssumption    == Slug \cap UserName = {} /\ Free \notin Proc
ASSUME CallsAssumption   == MaxCalls \in Nat

VARIABLES
  mods,      \* managed_mod: the staging_root of each row, by id
  profiles,  \* profile: the name of each row, by id
  active,    \* the profiles flagged active
  members,   \* profile_mod: <<profile, mod>>, all of them enabled
  colls,     \* collection: slug and profile_id (0: NULL) of each row, by id
  pins,      \* collection_mod: <<collection, mod>>
  issued,    \* AUTOINCREMENT: the ids handed out so far
  trees,     \* the staging roots that exist
  live,      \* the roots whose files are in the game (the deploy manifest)
  lock,      \* who holds the AppState mutex
  proc,      \* the command each task runs, and its locals
  up,        \* the application runs
  calls      \* commands issued so far

store == <<mods, profiles, active, members, colls, pins, issued>>
files == <<trees, live>>
vars  == <<store, files, lock, proc, up, calls>>

Id == Nat \ {0}

Ops == {"idle", "switch_profile", "purge", "deploy", "download", "download_collection",
        "deploy_collection", "uninstall_collection"}
Ats == {"idle", "purging", "placing", "clearing", "want_purge", "want_cleanup",
        "unflagging", "dropping", "removing", "unrowing", "creating", "linking",
        "joining", "fetching", "pinning"}

(* The locals of a command: the profile and collection it works for, roots *)
(* still to deploy or to fetch, roots staged but without a row, wanted     *)
(* roots that were not there to deploy, mod ids. was and flag are history: *)
(* what was in the game, and which profile active, when its purge began.   *)
Task == [op : Ops, at : Ats, prof : {0} \cup Id, coll : {0} \cup Id,
         names : SUBSET Root, staged : SUBSET Root, absent : SUBSET Root, ids : SUBSET Id,
         was : SUBSET Root, flag : SUBSET Id]

Idle == [op |-> "idle", at |-> "idle", prof |-> 0, coll |-> 0,
         names |-> {}, staged |-> {}, absent |-> {}, ids |-> {}, was |-> {}, flag |-> {}]

TypeOK ==
  /\ DOMAIN mods \subseteq Id /\ mods \in [DOMAIN mods -> Root]
  /\ DOMAIN profiles \subseteq Id /\ profiles \in [DOMAIN profiles -> Slug \cup UserName]
  /\ active \subseteq Id
  /\ members \subseteq Id \X Id
  /\ DOMAIN colls \subseteq Id
  /\ colls \in [DOMAIN colls -> [slug : Slug, profile_id : {0} \cup Id]]
  /\ pins \subseteq Id \X Id
  /\ issued \in [{"mod", "profile", "coll"} -> {0} \cup Id]
  /\ trees \subseteq Root /\ live \subseteq Root
  /\ lock \in Proc \cup {Free}
  /\ proc \in [Proc -> Task]
  /\ up \in BOOLEAN
  /\ calls \in Nat

Init ==
  /\ mods = << >> /\ profiles = << >> /\ colls = << >>
  /\ active = {} /\ members = {} /\ pins = {}
  /\ issued = [t \in {"mod", "profile", "coll"} |-> 0]
  /\ trees = {Local} /\ live = {}
  /\ lock = Free
  /\ proc = [p \in Proc |-> Idle]
  /\ up = TRUE
  /\ calls = 0

-----------------------------------------------------------------------------
(* The store's statements. Foreign keys cascade or set NULL (migrations V3 *)
(* and V5).                                                                *)

Put(f, k, v)  == [x \in DOMAIN f \cup {k} |-> IF x = k THEN v ELSE f[x]]
Without(f, k) == Restrict(f, DOMAIN f \ {k})
First(ids)    == CHOOSE m \in ids : \A n \in ids : m <= n

NewId(t)  == issued[t] + 1
Issue(t)  == issued' = [issued EXCEPT ![t] = @ + 1]

\* The roots of a profile's enabled members (enabled_inputs_for_profile).
Wanted(q) == {mods[m] : m \in {m \in DOMAIN mods : <<q, m>> \in members}}

InsertProfile(name) ==
  /\ profiles' = Put(profiles, NewId("profile"), name)
  /\ Issue("profile")

NameTaken(name) == \E q \in DOMAIN profiles : profiles[q] = name

ActivateOnly(q) == active' = {q} \cap DOMAIN profiles

DropProfile(q) ==
  /\ profiles' = Without(profiles, q)
  /\ active' = active \ {q}
  /\ members' = {k \in members : k[1] # q}
  /\ colls' = [c \in DOMAIN colls |-> IF colls[c].profile_id = q
                                      THEN [colls[c] EXCEPT !.profile_id = 0] ELSE colls[c]]

DropMod(m) ==
  /\ mods' = Without(mods, m)
  /\ members' = {k \in members : k[2] # m}
  /\ pins' = {k \in pins : k[2] # m}

DropColl(c) ==
  /\ colls' = Without(colls, c)
  /\ pins' = {k \in pins : k[1] # c}

PinnedTo(c) == {m \in DOMAIN mods : <<c, m>> \in pins}

-----------------------------------------------------------------------------
(* Control of a task.                                                      *)

At(p, at)      == up /\ proc[p].at = at
Goto(p, at)    == proc' = [proc EXCEPT ![p].at = at]
Acquire(p)     == lock = Free /\ lock' = p
Release        == lock' = Free
Return(p)      == proc' = [proc EXCEPT ![p] = Idle]

\* A user, or an nxm:// link, issues a command to an idle task.
Issued(p, op) ==
  /\ op \in Commands /\ up /\ proc[p] = Idle
  /\ calls < MaxCalls /\ calls' = calls + 1

Start(p, op, at) == proc' = [proc EXCEPT ![p] = [Idle EXCEPT !.op = op, !.at = at]]

-----------------------------------------------------------------------------
(* Commands that are one statement under the mutex.                        *)

CreateProfile(p, u) ==
  /\ Issued(p, "create_profile") /\ lock = Free
  /\ ~ NameTaken(u)
  /\ InsertProfile(u)
  /\ UNCHANGED <<mods, active, members, colls, pins, files, lock, proc, up>>

\* MUTANT of DeleteProfile: the active profile is not refused.
DeleteProfileEvenActive(p, q) ==
  /\ Issued(p, "delete_profile") /\ lock = Free
  /\ q \in DOMAIN profiles
  /\ DropProfile(q)
  /\ UNCHANGED <<mods, pins, issued, files, lock, proc, up>>

\* Refuses the active profile.
DeleteProfile(p, q) ==
  /\ Issued(p, "delete_profile") /\ lock = Free
  /\ q \in DOMAIN profiles /\ q \notin active
  /\ DropProfile(q)
  /\ UNCHANGED <<mods, pins, issued, files, lock, proc, up>>

-----------------------------------------------------------------------------
(* Commands that call the engine under the mutex. The id may be of a       *)
(* profile that has been deleted since the list was shown.                 *)

SwitchProfile(p, q) ==
  /\ Issued(p, "switch_profile") /\ Acquire(p)
  /\ proc' = [proc EXCEPT ![p] = [Idle EXCEPT !.op = "switch_profile", !.at = "purging",
                                              !.prof = q, !.was = live, !.flag = active]]
  /\ UNCHANGED <<store, files, up>>

\* purge; and deploy_winner_set, which redeploys the mods with enabled set in
\* managed_mod. Every add_mod writes false there and no statement sets it, so
\* the winner set is empty and the command ends after its purge.
Purge(p) ==
  /\ Issued(p, "purge") /\ Acquire(p)
  /\ Start(p, "purge", "purging")
  /\ UNCHANGED <<store, files, up>>

\* deploy: lays the local archive over whatever is deployed.
Deploy(p) ==
  /\ Issued(p, "deploy") /\ Acquire(p)
  /\ proc' = [proc EXCEPT ![p] = [Idle EXCEPT !.op = "deploy", !.at = "placing",
                                              !.names = {Local}]]
  /\ UNCHANGED <<store, files, up>>

-----------------------------------------------------------------------------
(* The engine: purge, then deploy_winners, one root at a time. Within one  *)
(* root DeployEngine says what happens.                                    *)

StartPurge(p) ==
  /\ At(p, "want_purge") /\ Acquire(p)
  /\ proc' = [proc EXCEPT ![p].at = "purging", ![p].was = live, ![p].flag = active]
  /\ UNCHANGED <<store, files, up, calls>>

PurgeRoot(p) ==
  /\ At(p, "purging")
  /\ \E r \in live : live' = live \ {r}
  /\ UNCHANGED <<store, trees, lock, proc, up, calls>>

\* switch_profile goes on to resolve (a root that is not there has no files,
\* and is passed over) and deploy, uninstall_collection lets go
\* of the mutex, purge returns.
Purged(p) ==
  /\ At(p, "purging") /\ live = {}
  /\ \/ /\ proc[p].prof # 0 /\ proc[p].op # "uninstall_collection"
        /\ LET q == proc[p].prof IN
             proc' = [proc EXCEPT ![p].at = "placing", ![p].names = Wanted(q) \cap trees,
                                  ![p].absent = Wanted(q) \ trees]
        /\ UNCHANGED lock
     \/ proc[p].op = "uninstall_collection" /\ Goto(p, "want_cleanup") /\ Release
     \/ proc[p].op = "purge" /\ Return(p) /\ Release
  /\ UNCHANGED <<store, files, up, calls>>

PurgeFails(p) ==
  /\ "fail_purge" \in Faults
  /\ At(p, "purging") /\ live # {}
  /\ Return(p) /\ Release
  /\ UNCHANGED <<store, files, up, calls>>

PlaceRoot(p) ==
  /\ At(p, "placing")
  /\ \E r \in proc[p].names :
       /\ live' = live \cup {r}
       /\ proc' = [proc EXCEPT ![p].names = @ \ {r}]
  /\ UNCHANGED <<store, trees, lock, up, calls>>

\* MUTANT of PlaceFails: an early return that skips the clean-up.
PlaceFailsReported(p) ==
  /\ "fail_deploy" \in Faults
  /\ At(p, "placing")
  /\ Return(p) /\ Release
  /\ UNCHANGED <<store, files, up, calls>>

\* The deploy, or the write of plugins.txt after it, returns an error.
PlaceFails(p) ==
  /\ "fail_deploy" \in Faults
  /\ At(p, "placing")
  /\ IF proc[p].op = "deploy" THEN Return(p) /\ Release
                              ELSE Goto(p, "clearing") /\ UNCHANGED lock
  /\ UNCHANGED <<store, files, up, calls>>

\* set_active_profile: one transaction. For a profile that is gone it returns
\* Ok(false), and nothing is active.
SetActive(p) ==
  /\ At(p, "placing") /\ proc[p].names = {}
  /\ IF proc[p].op = "deploy" THEN UNCHANGED active ELSE ActivateOnly(proc[p].prof)
  /\ Return(p) /\ Release
  /\ UNCHANGED <<mods, profiles, members, colls, pins, issued, files, up, calls>>

\* switch_profile's error path.
ClearActive(p) ==
  /\ At(p, "clearing")
  /\ active' = {}
  /\ Return(p) /\ Release
  /\ UNCHANGED <<mods, profiles, members, colls, pins, issued, files, up, calls>>

-----------------------------------------------------------------------------
(* Downloads: run_download_to_window, alone or once per mod of a           *)
(* collection, several at a time. Only the row is written under the mutex. *)

Download(p, r) ==
  /\ Issued(p, "download")
  /\ proc' = [proc EXCEPT ![p] = [Idle EXCEPT !.op = "download", !.at = "fetching",
                                              !.names = {r}]]
  /\ UNCHANGED <<store, files, lock, up>>

\* add_collection with profile_id NULL: a row that exists loses its link.
UpsertUnlinked(s, c) ==
  /\ colls' = Put(colls, c, [slug |-> s, profile_id |-> 0])
  /\ IF c \in DOMAIN colls THEN UNCHANGED issued ELSE Issue("coll")

RowOf(s) == IF \E c \in DOMAIN colls : colls[c].slug = s
            THEN CHOOSE c \in DOMAIN colls : colls[c].slug = s
            ELSE NewId("coll")

DownloadCollection(p, s) ==
  /\ Issued(p, "download_collection") /\ lock = Free
  /\ UpsertUnlinked(s, RowOf(s))
  /\ proc' = [proc EXCEPT ![p] = [Idle EXCEPT !.op = "download_collection", !.at = "fetching",
                                              !.coll = RowOf(s), !.names = Members[s]]]
  /\ UNCHANGED <<mods, profiles, active, members, pins, files, lock, up>>

\* A download fails or is cancelled; the others of the batch go on.
FetchFails(p) ==
  /\ "fail_fetch" \in Faults
  /\ At(p, "fetching")
  /\ \E r \in proc[p].names : proc' = [proc EXCEPT ![p].names = @ \ {r}]
  /\ UNCHANGED <<store, files, lock, up, calls>>

\* install_archive moves the tree to its root; one that is there is merged into.
StageTree(p) ==
  /\ At(p, "fetching")
  /\ \E r \in proc[p].names :
       /\ trees' = trees \cup {r}
       /\ proc' = [proc EXCEPT ![p].names = @ \ {r}, ![p].staged = @ \cup {r}]
  /\ UNCHANGED <<store, live, lock, up, calls>>

AddModRow(p) ==
  /\ At(p, "fetching") /\ lock = Free
  /\ \E r \in proc[p].staged :
       /\ mods' = Put(mods, NewId("mod"), r)
       /\ proc' = [proc EXCEPT ![p].staged = @ \ {r}, ![p].ids = @ \cup {NewId("mod")}]
  /\ Issue("mod")
  /\ UNCHANGED <<profiles, active, members, colls, pins, files, lock, up, calls>>

Fetched(p) ==
  /\ At(p, "fetching") /\ proc[p].names = {} /\ proc[p].staged = {}
  /\ IF proc[p].op = "download" THEN Return(p) ELSE Goto(p, "pinning")
  /\ UNCHANGED <<store, files, lock, up, calls>>

\* MUTANT of PinMod: the row is written without its foreign keys being enforced.
PinModUnenforced(p) ==
  /\ At(p, "pinning") /\ proc[p].ids # {} /\ lock = Free
  /\ LET m == First(proc[p].ids) IN
       /\ pins' = pins \cup {<<proc[p].coll, m>>}
       /\ proc' = [proc EXCEPT ![p].ids = @ \ {m}]
  /\ UNCHANGED <<mods, profiles, active, members, colls, issued, files, lock, up, calls>>

\* persist_collection_mod, per mod. A foreign key that no longer holds (the
\* collection was uninstalled meanwhile) ends the command, the other mods unpinned.
PinMod(p) ==
  /\ At(p, "pinning") /\ proc[p].ids # {} /\ lock = Free
  /\ LET c == proc[p].coll
         m == First(proc[p].ids)
     IN IF c \in DOMAIN colls /\ m \in DOMAIN mods
        THEN /\ pins' = pins \cup {<<c, m>>}
             /\ proc' = [proc EXCEPT ![p].ids = @ \ {m}]
        ELSE Return(p) /\ UNCHANGED pins
  /\ UNCHANGED <<mods, profiles, active, members, colls, issued, files, lock, up, calls>>

Pinned(p) ==
  /\ At(p, "pinning") /\ proc[p].ids = {}
  /\ Return(p)
  /\ UNCHANGED <<store, files, lock, up, calls>>

-----------------------------------------------------------------------------
(* deploy_collection: one section prepares the dedicated profile, a second *)
(* one is switch_profile to it.                                            *)

DeployCollection(p, c) ==
  /\ Issued(p, "deploy_collection") /\ c \in DOMAIN colls
  /\ Acquire(p)
  /\ proc' = [proc EXCEPT ![p] =
                [Idle EXCEPT !.op = "deploy_collection", !.coll = c, !.ids = PinnedTo(c),
                             !.prof = colls[c].profile_id,
                             !.at = IF colls[c].profile_id = 0 THEN "creating" ELSE "joining"]]
  /\ UNCHANGED <<store, files, up>>

\* UNIQUE (appid, name) refuses a second profile of the name.
CreateDedicated(p) ==
  /\ At(p, "creating")
  /\ LET s == colls[proc[p].coll].slug IN
     IF NameTaken(s)
     THEN Return(p) /\ Release /\ UNCHANGED <<profiles, issued>>
     ELSE /\ InsertProfile(s)
          /\ proc' = [proc EXCEPT ![p].prof = NewId("profile"), ![p].at = "linking"]
          /\ UNCHANGED lock
  /\ UNCHANGED <<mods, active, members, colls, pins, files, up, calls>>

LinkProfile(p) ==
  /\ At(p, "linking")
  /\ colls' = [colls EXCEPT ![proc[p].coll].profile_id = proc[p].prof]
  /\ Goto(p, "joining")
  /\ UNCHANGED <<mods, profiles, active, members, pins, issued, files, lock, up, calls>>

JoinMod(p) ==
  /\ At(p, "joining") /\ proc[p].ids # {}
  /\ LET m == First(proc[p].ids) IN
       /\ members' = members \cup {<<proc[p].prof, m>>}
       /\ proc' = [proc EXCEPT ![p].ids = @ \ {m}]
  /\ UNCHANGED <<mods, profiles, active, colls, pins, issued, files, lock, up, calls>>

\* MUTANT of Joined: the guard lives on to the second lock().
JoinedHolding(p) ==
  /\ At(p, "joining") /\ proc[p].ids = {}
  /\ Goto(p, "want_purge")
  /\ UNCHANGED <<store, files, lock, up, calls>>

Joined(p) ==
  /\ At(p, "joining") /\ proc[p].ids = {}
  /\ Goto(p, "want_purge") /\ Release
  /\ UNCHANGED <<store, files, up, calls>>

-----------------------------------------------------------------------------
(* uninstall_collection: read, purge, clean up, the mutex let go of in     *)
(* between. The profile and the mods are those of the read.                *)

UninstallCollection(p, c) ==
  /\ Issued(p, "uninstall_collection") /\ c \in DOMAIN colls /\ lock = Free
  /\ proc' = [proc EXCEPT ![p] =
                [Idle EXCEPT !.op = "uninstall_collection", !.at = "want_purge", !.coll = c,
                             !.ids = PinnedTo(c), !.prof = colls[c].profile_id]]
  /\ UNCHANGED <<store, files, lock, up>>

StartCleanup(p) ==
  /\ At(p, "want_cleanup") /\ Acquire(p)
  /\ Goto(p, IF proc[p].prof = 0 THEN "removing" ELSE "unflagging")
  /\ UNCHANGED <<store, files, up, calls>>

UnflagProfile(p) ==
  /\ At(p, "unflagging")
  /\ active' = IF proc[p].prof \in active THEN {} ELSE active
  /\ Goto(p, "dropping")
  /\ UNCHANGED <<mods, profiles, members, colls, pins, issued, files, lock, up, calls>>

DropDedicated(p) ==
  /\ At(p, "dropping")
  /\ DropProfile(proc[p].prof)
  /\ Goto(p, "removing")
  /\ UNCHANGED <<mods, pins, issued, files, lock, up, calls>>

RemoveTree(p) ==
  /\ At(p, "removing") /\ proc[p].ids # {}
  /\ LET m == First(proc[p].ids) IN
       trees' = IF m \in DOMAIN mods THEN trees \ {mods[m]} ELSE trees
  /\ Goto(p, "unrowing")
  /\ UNCHANGED <<store, live, lock, up, calls>>

RemoveModRow(p) ==
  /\ At(p, "unrowing")
  /\ LET m == First(proc[p].ids) IN
       /\ DropMod(m)
       /\ proc' = [proc EXCEPT ![p].ids = @ \ {m}, ![p].at = "removing"]
  /\ UNCHANGED <<profiles, active, colls, issued, files, lock, up, calls>>

RemoveCollection(p) ==
  /\ At(p, "removing") /\ proc[p].ids = {}
  /\ DropColl(proc[p].coll)
  /\ Return(p) /\ Release
  /\ UNCHANGED <<mods, profiles, active, members, issued, files, up, calls>>

-----------------------------------------------------------------------------
(* The process dies, and is launched again. Recovery (DeployEngine) closes *)
(* the operation on one path that was cut; it does not finish the command. *)

Crash ==
  /\ "crash" \in Faults /\ up
  /\ \E p \in Proc : proc[p] # Idle
  /\ up' = FALSE
  /\ proc' = [p \in Proc |-> Idle]
  /\ lock' = Free
  /\ UNCHANGED <<store, files, calls>>

Launch ==
  /\ ~ up /\ up' = TRUE
  /\ UNCHANGED <<store, files, lock, proc, calls>>

-----------------------------------------------------------------------------
Step(p) ==
  \/ StartPurge(p) \/ PurgeRoot(p) \/ Purged(p)
  \/ PlaceRoot(p) \/ SetActive(p) \/ ClearActive(p)
  \/ StageTree(p) \/ AddModRow(p) \/ Fetched(p) \/ PinMod(p) \/ Pinned(p)
  \/ CreateDedicated(p) \/ LinkProfile(p) \/ JoinMod(p) \/ Joined(p)
  \/ StartCleanup(p) \/ UnflagProfile(p) \/ DropDedicated(p)
  \/ RemoveTree(p) \/ RemoveModRow(p) \/ RemoveCollection(p)

Call(p) ==
  \/ Purge(p) \/ Deploy(p)
  \/ \E u \in UserName : CreateProfile(p, u)
  \/ \E q \in 1 .. issued.profile : DeleteProfile(p, q) \/ SwitchProfile(p, q)
  \/ \E r \in Root \ {Local} : Download(p, r)
  \/ \E s \in Slug : DownloadCollection(p, s)
  \/ \E c \in DOMAIN colls : DeployCollection(p, c) \/ UninstallCollection(p, c)

Fault(p) == PurgeFails(p) \/ PlaceFails(p) \/ FetchFails(p)

Next == Crash \/ Launch \/ \E p \in Proc : Step(p) \/ Call(p) \/ Fault(p)

Spec == Init /\ [][Next]_vars

-----------------------------------------------------------------------------
(* Properties.                                                             *)

\* switch_profile, in its section of the mutex.
Switching(p) ==
  proc[p].op \in {"switch_profile", "deploy_collection"} /\ proc[p].at \in {"purging", "placing", "clearing"}

\* switch_profile (profile.rs): however a switch ends, the files of two profiles
\* are never mixed, and the flag and the game agree in one of these ways. It
\* succeeded, and what is flagged is what is deployed. It failed after the purge,
\* and nothing is flagged. The purge failed or was cut: the old flag is kept, over
\* part of what was there. Or, by a crash alone, the old flag over part of the new.
SwitchSettles ==
  [][\A p \in Proc : \A q \in {proc[p].prof} : Switching(p) /\ proc'[p] = Idle =>
       \/ active' = {q} /\ live' = Wanted(q)' \ proc[p].absent
       \/ active' = {} /\ live' \subseteq Wanted(q)'
       \/ active' = proc[p].flag /\ live' \subseteq proc[p].was /\ proc[p].at = "purging"
       \/ active' = proc[p].flag /\ live' \subseteq Wanted(q)' /\ ~ up']_vars

\* The foreign keys: no command writes a row whose parent another command has
\* removed since it was read, save where the statement is ready to be refused.
NoDanglingRows ==
  /\ active \subseteq DOMAIN profiles
  /\ members \subseteq (DOMAIN profiles) \X (DOMAIN mods)
  /\ pins \subseteq (DOMAIN colls) \X (DOMAIN mods)
  /\ \A c \in DOMAIN colls : colls[c].profile_id \in {0} \cup DOMAIN profiles

\* delete_profile (profiles.rs) and uninstall_collection: a profile goes only
\* when it is not active, whoever made it active since the caller looked.
ActiveProfileKept == [][\A q \in active : q \in DOMAIN profiles']_vars

\* Nobody waits for ever on the one mutex: its holder can move on without
\* it, and when it is free every task can, whatever the others have changed.
\* (A section that locks again, or keeps the mutex, freezes every command.)
NobodyStuck ==
  up => \A p \in Proc : proc[p] # Idle /\ lock \in {p, Free} => ENABLED Step(p)

=============================================================================
