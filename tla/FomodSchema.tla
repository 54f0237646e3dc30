---------------------------- MODULE FomodSchema ----------------------------
(* The pure part of the FOMOD installer: the shape of a ModuleConfig.xml,   *)
(* the condition evaluator, the wizard projection, the selection gate, the  *)
(* dry-run resolver (crates/fomod) and the replay of the choices that a     *)
(* Collection pins (crates/nexus/src/replay.rs).                            *)
(*                                                                          *)
(* A name is a number, so that "sorted by name" means something; a path, a  *)
(* flag and its value are opaque.  A lookup that finds nothing is None.     *)
EXTENDS Integers, Sequences, FiniteSets, SequencesExt

CONSTANTS
  Module,    \* the installers that archives hold, and
  Schema,    \* [Module -> their parsed ModuleConfig.xml]
  Composite, \* the <dependencies> in them, nested ones included
  None

GroupTypes  == {"SelectExactlyOne", "SelectAtMostOne", "SelectAtLeastOne", "SelectAll", "SelectAny"}
PluginTypes == {"Required", "Optional", "Recommended", "NotUsable", "CouldBeUsable"}
Orders      == {"Ascending", "Descending", "Explicit"}

\* A sequence with P of each element.
Each(s, P(_)) == s \in Seq(ToSet(s)) /\ \A i \in DOMAIN s : P(s[i])

\* The lists that Op makes of the elements, one behind the other.
FlatMap(Op(_), seq) == FlattenSeq([i \in DOMAIN seq |-> Op(seq[i])])

\* The elements with P, in their order.
Where(seq, P(_)) == FlatMap(LAMBDA x : IF P(x) THEN <<x>> ELSE <<>>, seq)

\* <dependencies>: the arms of one composite, nested composites included.
ASSUME CompositeAssumption == \A d \in Composite :
  /\ DOMAIN d = {"operator", "files", "flags", "versions", "nested"}
  /\ d.operator \in {"And", "Or"} /\ d.versions \in Nat
  /\ \A f \in d.files : f.state \in {"Missing", "Inactive", "Active"}
  /\ \A f \in d.flags : DOMAIN f = {"flag", "value"}
  /\ d.nested \subseteq Composite

IsCondition(d) == d = None \/ d \in Composite

IsItem(it) == /\ DOMAIN it = {"src", "dest", "prio", "always", "usable"}
              /\ it.prio \in Int /\ {it.always, it.usable} \subseteq BOOLEAN

IsPattern(p) == IsCondition(p.dep) /\ Each(p.files, IsItem)

\* <typeDescriptor>: a static type, or ordered patterns and a default.
IsDescriptor(d) == /\ {d.static, d.default} \subseteq PluginTypes \cup {None}
                   /\ Each(d.patterns, LAMBDA p : /\ IsCondition(p.dep)
                                                  /\ p.type \in PluginTypes)

IsPlugin(p) == /\ p.name \in Nat
               /\ p.files = None \/ Each(p.files, IsItem)
               /\ Each(p.flags, LAMBDA f : DOMAIN f = {"flag", "value"})
               /\ p.type = None \/ IsDescriptor(p.type)

\* <group>, with its <plugins> element.
IsGroup(g) == /\ g.name \in Nat /\ g.type \in GroupTypes /\ g.order \in Orders
              /\ Each(g.plugins, IsPlugin)

IsStep(st) == /\ st.name \in Nat /\ st.order \in Orders /\ Each(st.groups, IsGroup)
              /\ IsCondition(st.visible)

IsModule(m) == /\ m.order \in Orders /\ Each(m.steps, IsStep)
               /\ Each(m.required, IsItem) /\ Each(m.conditional, IsPattern)

----------------------------------------------------------------------------
\* Conditions.

\* Setting the flags of a sequence one after the other: the last write stays.
Raised(seq) ==
  [x \in {seq[i].flag : i \in DOMAIN seq} |->
     seq[SelectLastInSeq(seq, LAMBDA f : f.flag = x)].value]
NoFlags == <<>>

\* No game state is given to a dry run: every file counts as Missing, and
\* every version as satisfied.
Holds(d, flags) ==
  LET holds[c \in Composite] ==
        LET arms == {f.flag \in DOMAIN flags /\ flags[f.flag] = f.value : f \in c.flags}
                    \cup {f.state = "Missing" : f \in c.files}
                    \cup {TRUE : v \in 1 .. c.versions}
                    \cup {holds[n] : n \in c.nested}
        IN IF c.operator = "And" THEN FALSE \notin arms ELSE TRUE \in arms
  IN holds[d]

Met(d, flags) == d = None \/ Holds(d, flags)

TypeState(d, flags) ==
  LET hit == SelectInSeq(d.patterns, LAMBDA p : Met(p.dep, flags))
  IN CASE d.static # None -> d.static
       [] d.static = None /\ hit # 0 -> d.patterns[hit].type
       [] OTHER -> IF d.default = None THEN "Optional" ELSE d.default

----------------------------------------------------------------------------
\* The wizard projection: every level in its declared order.

\* By name, and where it stands among equal names: the sort is stable.
Ordered(seq, order) ==
  LET Ahead(i, j) == \/ order = "Ascending"  /\ seq[i].name < seq[j].name
                     \/ order = "Descending" /\ seq[i].name > seq[j].name
                     \/ i < j /\ (order = "Explicit" \/ seq[i].name = seq[j].name)
      Rank(j)     == Cardinality({i \in DOMAIN seq : Ahead(i, j)})
  IN [k \in DOMAIN seq |-> seq[CHOOSE j \in DOMAIN seq : Rank(j) = k - 1]]

AuthoredType(p) ==
  CASE p.type = None -> "Optional"
    [] p.type # None /\ p.type.static # None -> p.type.static
    [] OTHER -> IF p.type.default = None THEN "Optional" ELSE p.type.default

Project(m) ==   \* of a parsed module
  LET Option(p) == [name |-> p.name, type |-> AuthoredType(p), flags |-> p.flags]
      Grp(g)    == LET ps == Ordered(g.plugins, g.order) IN
                   [name |-> g.name, type |-> g.type, options |-> [i \in DOMAIN ps |-> Option(ps[i])]]
      Page(st)  == LET gs == Ordered(st.groups, st.order) IN
                   [name |-> st.name, groups |-> [i \in DOMAIN gs |-> Grp(gs[i])]]
      steps     == Ordered(m.steps, m.order)
  IN [i \in DOMAIN steps |-> Page(steps[i])]

----------------------------------------------------------------------------
\* The selection gate and the resolver.  sel = [chosen, flags]; an option is
\* known by its step, group and name.

\* Every plugin of an installer in document order, with where it stands.
Entries ==
  [m \in Module |->
     FlatMap(LAMBDA st : FlatMap(LAMBDA g :
       [i \in DOMAIN g.plugins |-> [id |-> <<st.name, g.name, g.plugins[i].name>>,
                                    visible |-> st.visible, type |-> g.type, it |-> g.plugins[i]]],
       st.groups), Schema[m].steps)]

\* The plugins of the steps that are visible under a selection.
Shown(m, sel) == Where(Entries[m], LAMBDA e : Met(e.visible, sel.flags))

CountOk(type, n) == CASE type = "SelectExactlyOne" -> n = 1
                      [] type = "SelectAtLeastOne" -> n >= 1
                      [] type = "SelectAtMostOne"  -> n <= 1
                      [] OTHER                     -> TRUE

\* Of each group of a visible step; one of no options counts as well.
Accepted(m, sel) ==
  \A i \in DOMAIN Schema[m].steps : LET st == Schema[m].steps[i] IN
    Met(st.visible, sel.flags) =>
      \A k \in DOMAIN st.groups : LET g == st.groups[k] IN
        CountOk(g.type, Cardinality({j \in DOMAIN g.plugins :
                                       <<st.name, g.name, g.plugins[j].name>> \in sel.chosen}))

\* A shown option that has files and no type descriptor stops the resolver.
Malformed(m, sel) ==
  LET es == Shown(m, sel) IN \E i \in DOMAIN es : es[i].it.files # None /\ es[i].it.type = None

PluginItems(p, selected, flags) ==
  IF p.files = None THEN <<>>
  ELSE Where(p.files, LAMBDA it : \/ selected
                                  \/ it.always
                                  \/ it.usable /\ TypeState(p.type, flags) # "NotUsable")

\* Everything a selection installs, in the order the resolver meets it.
Contributions(m, sel) ==
  Schema[m].required
  \o FlatMap(LAMBDA e : PluginItems(e.it, e.id \in sel.chosen, sel.flags), Shown(m, sel))
  \o FlatMap(LAMBDA c : IF Met(c.dep, sel.flags) THEN c.files ELSE <<>>, Schema[m].conditional)

\* The plan with one more item in it, in the place of what it has for it.
Put(plan, it) ==
  [d \in DOMAIN plan \cup {it.dest} |-> IF d = it.dest THEN it ELSE plan[d]]

\* MUTANT of DedupByPriority: the later of two items always wins.
DedupLastWins(items) ==
  LET winners[n \in 0 .. Len(items)] ==
        IF n = 0 THEN <<>> ELSE Put(winners[n - 1], items[n])
  IN winners[Len(items)]

\* One item per destination; a later one replaces it only with a higher priority.
DedupByPriority(items) ==
  LET winners[n \in 0 .. Len(items)] ==
        IF n = 0 THEN <<>>
        ELSE LET before == winners[n - 1]
                 it     == items[n]
             IN IF it.dest \in DOMAIN before /\ before[it.dest].prio >= it.prio
                THEN before ELSE Put(before, it)
  IN winners[Len(items)]

Resolve(m, sel) == DedupByPriority(Contributions(m, sel))

----------------------------------------------------------------------------
\* Replay of pinned choices: [name, groups : [name, choices : names]] in order.

Lookup(seq, name) == SelectInSeq(seq, LAMBDA x : x.name = name)

Stale(m, choices) ==
  ~ Each(choices, LAMBDA cs : LET s == Lookup(Schema[m].steps, cs.name) IN s # 0 /\
      Each(cs.groups, LAMBDA cg : LET g == Lookup(Schema[m].steps[s].groups, cg.name) IN g # 0 /\
        Each(cg.choices, LAMBDA c : Lookup(Schema[m].steps[s].groups[g].plugins, c) # 0)))

Pinned(m, choices) ==   \* the options the choices name, first match each
  FlatMap(LAMBDA cs : LET st == Schema[m].steps[Lookup(Schema[m].steps, cs.name)] IN
    FlatMap(LAMBDA cg : LET g == st.groups[Lookup(st.groups, cg.name)] IN
      [i \in DOMAIN cg.choices |->
         [id |-> <<st.name, g.name, cg.choices[i]>>,
          flags |-> g.plugins[Lookup(g.plugins, cg.choices[i])].flags]],
      cs.groups), choices)

\* MUTANT of Replay: the options are marked, their flags are forgotten.
ReplayWithoutFlags(m, choices) ==
  LET opts == Pinned(m, choices) IN [chosen |-> {opts[i].id : i \in DOMAIN opts}, flags |-> NoFlags]

Replay(m, choices) ==
  LET opts == Pinned(m, choices)
  IN [chosen |-> {opts[i].id : i \in DOMAIN opts},
      flags  |-> Raised(FlatMap(LAMBDA o : o.flags, opts))]
============================================================================
