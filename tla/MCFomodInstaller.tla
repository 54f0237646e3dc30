-------------------------- MODULE MCFomodInstaller --------------------------
(* Two installers: one of two pages, the second shown only for the first    *)
(* option of page 1, with a conditional type, a nested condition and three  *)
(* sources for one destination; and one whose at-most-one group is over-    *)
(* full from the start, beside a descriptor-less option without files.      *)
EXTENDS FomodInstaller

CONSTANTS two_pages, overfull

Flag(v)          == [flag |-> "body", value |-> v]
Dep(op, fs, ns)  == [operator |-> op, files |-> {}, flags |-> fs, versions |-> 0, nested |-> ns]
Item(s, d, p)    == [src |-> s, dest |-> d, prio |-> p, always |-> FALSE, usable |-> FALSE]
Static(t)        == [static |-> t, default |-> None, patterns |-> <<>>]
Plugin(n, f, fl, t) == [name |-> n, files |-> f, flags |-> fl, type |-> t]
Group(n, t, o, ps)  == [name |-> n, type |-> t, order |-> o, plugins |-> ps]
Step(n, v, gs)   == [name |-> n, order |-> "Explicit", visible |-> v, groups |-> gs]

Slim      == Dep("And", {Flag("slim")}, {})
BigOrSlim == Dep("Or", {Flag("big")}, {Slim})
Either    == Dep("Or", {Flag("big"), Flag("slim")}, {})
Built     == Dep("And", {}, {Either})

Conditional == [static |-> None, default |-> "Optional",
  patterns |-> <<[dep |-> BigOrSlim, type |-> "NotUsable"]>>]

TwoPages ==
  [order |-> "Ascending", required |-> <<Item("base", "skin", 0)>>,
   steps |-> <<
     Step(2, Slim, <<Group(1, "SelectAtLeastOne", "Ascending", <<
        Plugin(2, <<Item("hd", "skin", 2)>>, <<>>, Conditional),
        Plugin(1, <<[Item("ld", "skin", 2) EXCEPT !.always = TRUE]>>, <<Flag("big")>>, Static("Optional"))>>)>>),
     Step(1, None, <<Group(1, "SelectExactlyOne", "Explicit", <<
        Plugin(1, <<Item("s", "skin", 1)>>, <<Flag("slim")>>, Static("Recommended")),
        Plugin(2, None, <<Flag("big")>>, Static("Optional"))>>)>>)>>,
   conditional |-> <<[dep |-> Built, files |-> <<[Item("cloth", "cloth", 0) EXCEPT !.usable = TRUE]>>]>>]

Overfull ==
  [order |-> "Descending", required |-> <<>>, conditional |-> <<>>,
   steps |-> <<Step(1, None, <<
     Group(1, "SelectAtMostOne", "Descending", <<
        Plugin(1, <<Item("a", "a", 0)>>, <<>>, Static("Required")),
        Plugin(2, <<Item("b", "a", 1)>>, <<>>, Static("Optional"))>>),
     Group(2, "SelectAll", "Explicit", <<Plugin(1, None, <<>>, None)>>)>>),
     Step(2, None, <<Group(1, "SelectAny", "Explicit",
        <<Plugin(1, <<Item("c", "c", 0)>>, <<>>, Static("NotUsable"))>>)>>)>>]

MCComposite == {Slim, BigOrSlim, Either, Built}
MCModule == {two_pages, overfull}
MCSchema == [m \in MCModule |-> IF m = two_pages THEN TwoPages ELSE Overfull]
=============================================================================
