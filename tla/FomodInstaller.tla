--------------------------- MODULE FomodInstaller ---------------------------
(* The guided installer from the click on "Install mod from archive" to the *)
(* staged mod: the wizard dialog (frontend +page.svelte and lib/fomod.ts),  *)
(* the three commands behind it (src-tauri/src/commands/fomod.rs), and the  *)
(* engine of FomodSchema.                                                   *)
(*                                                                          *)
(* The page has ONE busy flag.  Every call sets it, every return clears it, *)
(* also the return of a mod-list refresh that a finished download started   *)
(* while another call was still running: so several calls may be in flight. *)
EXTENDS FomodSchema

CONSTANTS
  NoFomod,        \* an archive without fomod/ModuleConfig.xml
  Broken,         \* an archive that does not open, or with a malformed one
  MaxReplaced,    \* how often the archive at the path is replaced
  MaxRefreshes,   \* how often a finished download refreshes the mod list
  MaxInstalls     \* how many mods are installed

ASSUME ModuleAssumption == \A m \in Module : IsModule(Schema[m])
ASSUME BoundAssumption  == {MaxReplaced, MaxRefreshes, MaxInstalls} \subseteq Nat

VARIABLES
  archive,     \* what the file at the archive path holds
  wizard,      \* the module the open dialog was projected from, or None
  step,        \* fomodStepIdx, from 1
  chosen,      \* fomodChosen: the ids <<step, group, option>>
  preview,     \* fomodPreview: [of : selection, m : module, plan], or None
  busy,        \* the page's busy flag
  applying,    \* fomodApplying
  fallback,    \* fomodFallback: "install as a plain mod" is offered
  calls,       \* the calls in flight: [kind, sel, gate]; gate is the archive
               \* that apply_fomod has checked the selection against
  refreshing,  \* a refresh of the mod list is in flight
  installed,   \* the mods staged and recorded: [of, m, tree, gate], in order
  replaced, refreshes

dialog == <<wizard, step, chosen, preview>>
page   == <<busy, applying, fallback>>
world  == <<archive, replaced, refreshes>>
vars   == <<dialog, page, world, calls, refreshing, installed>>

Archive == Module \cup {NoFomod, Broken}
NoSel   == [chosen |-> {}, flags |-> NoFlags]
Call(kind, sel) == [kind |-> kind, sel |-> sel, gate |-> None]

Init ==
  /\ archive \in Archive
  /\ wizard = None /\ step = 0 /\ chosen = {} /\ preview = None
  /\ busy = FALSE /\ applying = FALSE /\ fallback = FALSE
  /\ calls = {} /\ refreshing = FALSE /\ installed = <<>>
  /\ replaced = 0 /\ refreshes = 0

----------------------------------------------------------------------------
\* lib/fomod.ts over the projection of the open module.

Projection == [m \in Module |-> Project(Schema[m])]

\* Every option of a projection: its id, its group and itself, in order.
Options ==
  [m \in Module |->
     FlatMap(LAMBDA st : FlatMap(LAMBDA g :
       [i \in DOMAIN g.options |-> [id |-> <<st.name, g.name, g.options[i].name>>,
                                    group |-> g, it |-> g.options[i]]],
       st.groups), Projection[m])]

Pages == Projection[wizard]

Locked(o)  == o.it.type = "Required" \/ o.group.type = "SelectAll"
IsRadio(g) == g.type \in {"SelectExactlyOne", "SelectAtMostOne"}

Preselected(m) ==
  LET opts == Options[m] IN {opts[i].id : i \in {i \in DOMAIN opts : Locked(opts[i])}}

\* What the page sends: the picks, and their flags in projection order.
Selection ==
  LET picked == Where(Options[wizard], LAMBDA o : o.id \in chosen)
  IN [chosen |-> {picked[i].id : i \in DOMAIN picked},
      flags  |-> Raised(FlatMap(LAMBDA o : o.it.flags, picked))]

PickedIn(st, g, picks) ==
  Cardinality({i \in DOMAIN g.options : <<st.name, g.name, g.options[i].name>> \in picks})

StepValid(st, picks) ==
  \A i \in DOMAIN st.groups : LET g == st.groups[i]  n == PickedIn(st, g, picks) IN
    /\ g.type = "SelectExactlyOne" => n = 1
    /\ g.type = "SelectAtLeastOne" => n >= 1

\* A radio pick clears its siblings.
Toggle(o, siblings) ==
  CASE IsRadio(o.group) /\ ~ (o.group.type = "SelectAtMostOne" /\ o.id \in chosen)
                              -> (chosen \ siblings) \cup {o.id}
    [] IsRadio(o.group)       -> chosen \ siblings
    [] OTHER -> IF o.id \in chosen THEN chosen \ {o.id} ELSE chosen \cup {o.id}

----------------------------------------------------------------------------
\* The clicks.  Every control is disabled while busy.

Starts(c) == busy' = TRUE /\ calls' = calls \cup {c}

Close == wizard' = None /\ step' = 0 /\ chosen' = {} /\ preview' = None

\* The open dialog covers the page, its buttons with it.
OpenWizard ==
  /\ ~busy /\ wizard = None
  /\ Starts(Call("parse", NoSel)) /\ fallback' = FALSE
  /\ UNCHANGED <<dialog, applying, world, refreshing, installed>>

InstallPlain ==
  /\ ~busy /\ wizard = None /\ fallback
  /\ Close /\ Starts(Call("plain", NoSel)) /\ applying' = FALSE
  /\ UNCHANGED <<fallback, world, refreshing, installed>>

DismissFallback ==
  /\ ~busy /\ fallback
  /\ fallback' = FALSE
  /\ UNCHANGED <<dialog, busy, applying, world, calls, refreshing, installed>>

OnPage == wizard # None /\ preview = None /\ ~busy

\* A radio that is on does not fire onchange.
ToggleOption ==
  /\ OnPage
  /\ \E i \in DOMAIN Options[wizard] :
       LET o == Options[wizard][i]
           siblings == {<<o.id[1], o.id[2], o.group.options[j].name>> : j \in DOMAIN o.group.options}
       IN /\ o.id[1] = Pages[step].name
          /\ ~Locked(o) /\ o.it.type # "NotUsable"
          /\ ~(IsRadio(o.group) /\ o.id \in chosen)
          /\ chosen' = Toggle(o, siblings)
  /\ UNCHANGED <<wizard, step, preview, page, world, calls, refreshing, installed>>

\* MUTANT of NextStep: the page does not check its groups.
NextStepUnchecked ==
  /\ OnPage /\ step < Len(Pages)
  /\ step' = step + 1
  /\ UNCHANGED <<wizard, chosen, preview, page, world, calls, refreshing, installed>>

NextStep ==
  /\ OnPage /\ step < Len(Pages)
  /\ StepValid(Pages[step], chosen)
  /\ step' = step + 1
  /\ UNCHANGED <<wizard, chosen, preview, page, world, calls, refreshing, installed>>

PreviousStep ==
  /\ OnPage /\ step > 1
  /\ step' = step - 1
  /\ UNCHANGED <<wizard, chosen, preview, page, world, calls, refreshing, installed>>

ShowPreview ==
  /\ OnPage /\ step = Len(Pages) /\ StepValid(Pages[step], chosen)
  /\ Starts(Call("resolve", Selection))
  /\ UNCHANGED <<dialog, applying, fallback, world, refreshing, installed>>

OnPreview == wizard # None /\ preview # None /\ ~busy /\ ~applying

LeavePreview ==
  /\ OnPreview
  /\ preview' = None
  /\ UNCHANGED <<wizard, step, chosen, page, world, calls, refreshing, installed>>

Apply ==
  /\ OnPreview /\ Len(installed) < MaxInstalls
  /\ Starts(Call("apply", Selection)) /\ applying' = TRUE
  /\ UNCHANGED <<dialog, fallback, world, refreshing, installed>>

Cancel ==
  /\ OnPage \/ OnPreview
  /\ Close /\ applying' = FALSE
  /\ UNCHANGED <<busy, fallback, world, calls, refreshing, installed>>

----------------------------------------------------------------------------
\* The returns.  Each command extracts the archive as it is when it runs.

Returns(c) == c \in calls /\ calls' = calls \ {c} /\ busy' = FALSE

\* extract::install_archive stages the archive as it is, whatever the plan.
Staged(m) ==
  LET srcs == IF m = NoFomod THEN {} ELSE
        LET items == Schema[m].required
              \o FlatMap(LAMBDA e : IF e.it.files = None THEN <<>> ELSE e.it.files, Entries[m])
              \o FlatMap(LAMBDA c : c.files, Schema[m].conditional)
        IN {items[i].src : i \in DOMAIN items}
  IN [s \in srcs |-> s]

Install(c, m) ==
  installed' = Append(installed, [of |-> c.sel, m |-> m, tree |-> Staged(m), gate |-> c.gate])

ParseOpens(c) ==
  /\ c.kind = "parse" /\ Returns(c)
  /\ archive \in Module
  /\ wizard' = archive /\ step' = 1 /\ preview' = None
  /\ chosen' = Preselected(archive)
  /\ UNCHANGED <<applying, fallback, world, refreshing, installed>>

ParseIsPlain(c) ==   \* no installer inside: installed at once, still busy
  /\ c.kind = "parse" /\ c \in calls
  /\ archive = NoFomod
  /\ calls' = (calls \ {c}) \cup {Call("plain", NoSel)} /\ busy' = TRUE
  /\ UNCHANGED <<dialog, applying, fallback, world, refreshing, installed>>

ParseFails(c) ==
  /\ c.kind = "parse" /\ Returns(c)
  /\ archive = Broken
  /\ fallback' = TRUE
  /\ UNCHANGED <<dialog, applying, world, refreshing, installed>>

PlainReturns(c) ==
  /\ c.kind = "plain" /\ Returns(c)
  /\ IF archive = Broken \/ Len(installed) = MaxInstalls THEN UNCHANGED installed
     ELSE Install(c, archive)
  /\ UNCHANGED <<dialog, applying, fallback, world, refreshing>>

\* MUTANT of Resolves: the cardinality of the groups is not checked again.
ResolvesUnvalidated(m, sel) == m \in Module /\ ~Malformed(m, sel)

Resolves(m, sel) == m \in Module /\ Accepted(m, sel) /\ ~Malformed(m, sel)

ResolveReturns(c) ==
  /\ c.kind = "resolve" /\ Returns(c)
  /\ preview' = IF Resolves(archive, c.sel)
                THEN [of |-> c.sel, m |-> archive, plan |-> Resolve(archive, c.sel)]
                ELSE preview
  /\ UNCHANGED <<wizard, step, chosen, applying, fallback, world, refreshing, installed>>

\* apply_fomod extracts the archive, checks the selection against what is in
\* it and drops the tree again ...
ApplyChecks(c) ==
  /\ c.kind = "apply" /\ c \in calls
  /\ Resolves(archive, c.sel)
  /\ calls' = (calls \ {c}) \cup {[c EXCEPT !.kind = "stage", !.gate = archive]}
  /\ UNCHANGED <<dialog, page, world, refreshing, installed>>

ApplyRefused(c) ==
  /\ c.kind = "apply" /\ Returns(c)
  /\ ~Resolves(archive, c.sel)
  /\ applying' = FALSE
  /\ UNCHANGED <<dialog, fallback, world, refreshing, installed>>

\* ... and reads the path once more to stage what is there by then. The staged
\* mod closes the dialog and refreshes the mod list.
ApplyStages(c) ==
  /\ c.kind = "stage" /\ c \in calls /\ calls' = calls \ {c}
  /\ archive # Broken
  /\ Install(c, archive)
  /\ Close /\ applying' = FALSE /\ refreshing' = TRUE /\ busy' = TRUE
  /\ UNCHANGED <<fallback, world>>

StagingFails(c) ==
  /\ c.kind = "stage" /\ Returns(c)
  /\ applying' = FALSE
  /\ UNCHANGED <<dialog, fallback, world, refreshing, installed>>

\* A download finishes, or an nxm:// link arrives: the list is read again.
Refresh ==
  /\ ~refreshing /\ refreshes < MaxRefreshes
  /\ refreshing' = TRUE /\ busy' = TRUE /\ refreshes' = refreshes + 1
  /\ UNCHANGED <<dialog, applying, fallback, archive, replaced, calls, installed>>

Refreshed ==
  /\ refreshing
  /\ refreshing' = FALSE /\ busy' = FALSE
  /\ UNCHANGED <<dialog, applying, fallback, world, calls, installed>>

\* Another version of the mod is saved at the same path.
Replace ==
  /\ replaced < MaxReplaced
  /\ archive' \in Archive \ {archive} /\ replaced' = replaced + 1
  /\ UNCHANGED <<dialog, page, refreshes, calls, refreshing, installed>>

Click == \/ OpenWizard \/ InstallPlain \/ DismissFallback \/ ToggleOption \/ NextStep
         \/ PreviousStep \/ ShowPreview \/ LeavePreview \/ Apply \/ Cancel

Return == \E c \in calls : \/ ParseOpens(c) \/ ParseIsPlain(c) \/ ParseFails(c)
                           \/ PlainReturns(c) \/ ResolveReturns(c) \/ ApplyChecks(c)
                           \/ ApplyRefused(c) \/ ApplyStages(c) \/ StagingFails(c)

Next == Click \/ Return \/ Refresh \/ Refreshed \/ Replace

Spec == Init /\ [][Next]_vars

----------------------------------------------------------------------------

\* Whatever the dialog went through, and although only the shown page is
\* checked, every selection it asks a plan for has each exactly-one group
\* decided and each at-least-one group non-empty, on every page (stepValid,
\* fomodNext).
AskedIsComplete ==
  [][ShowPreview => \A i \in DOMAIN Pages : StepValid(Pages[i], Selection.chosen)]_vars

\* A mod recorded with a selection was staged from an archive whose OWN
\* installer accepts that selection, also when the archive was replaced
\* behind the dialog or the page let an over-full group through; the one
\* way round it is a replacement between the two reads of one apply_fomod
\* (the path is read again after the check), and then what was checked is
\* not what was staged.
AcceptedByItsArchive ==
  \A i \in DOMAIN installed : LET r == installed[i] IN
    r.of # NoSel => r.m # r.gate \/ Accepted(r.m, r.of)

\* The row shown for a destination is the first of its highest priority among
\* everything the selection contributes (dedup_by_priority).
FirstHighestWins ==
  preview # None =>
    LET items == Contributions(preview.m, preview.of) IN
    \A i \in DOMAIN items : LET d == items[i].dest IN
      (/\ \A j \in DOMAIN items : items[j].dest = d => items[j].prio <= items[i].prio
       /\ \A j \in 1 .. (i - 1) : items[j].dest = d => items[j].prio < items[i].prio)
      => preview.plan[d] = items[i]

\* The choices as a Collection pins them: the options picked, page by page.
PinnedChoices ==
  LET PicksOf(st, g) == Where([i \in DOMAIN g.options |-> g.options[i].name],
                              LAMBDA o : <<st.name, g.name, o>> \in chosen)
      GroupsOf(st) == [i \in DOMAIN st.groups |->
                         [name |-> st.groups[i].name, choices |-> PicksOf(st, st.groups[i])]]
  IN [i \in DOMAIN Pages |-> [name |-> Pages[i].name, groups |-> GroupsOf(Pages[i])]]

\* Replaying what the wizard's user picked builds the selection the wizard
\* itself sends (replay.rs: "the SAME Selection the interactive wizard would
\* build"), flags included, in whatever order the author lists the pages.
ReplayIsTheWizard ==
  wizard # None => ~Stale(wizard, PinnedChoices) /\ Replay(wizard, PinnedChoices) = Selection

=============================================================================
