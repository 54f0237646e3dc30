------------------------ MODULE MCCollectionInstall ------------------------
(* A manifest without rules: three Nexus mods that share files, one of them  *)
(* in two spellings and one that overrides a file, a mod without ids, one to *)
(* fetch by hand and a bundled one.  And one whose second mod is to come     *)
(* before its first.                                                         *)
EXTENDS CollectionInstall

CONSTANTS plain, ruled, foreign

File(name, files) == [source |-> "nexus", pin |-> name, files |-> files, keys |-> {name},
                      overrides |-> IF name = "B" THEN {1} ELSE {},
                      choices |-> TRUE, stale |-> name = "B"]
Other(type, name) == [source |-> type, pin |-> None, files |-> {}, keys |-> {name},
                      overrides |-> {}, choices |-> FALSE, stale |-> FALSE]

Plain == [ours |-> TRUE, rules |-> <<>>,
  mods |-> <<File("A", {1, 3}), Other("bundle", "p"), File("B", {1, 2, 4}),
             Other("nexus", "q"), Other("direct", "r"), File("C", {1, 2})>>]

Ruled == [ours |-> TRUE,
  mods |-> <<File("D", {1}), File("E", {1})>>,
  rules |-> <<[kind |-> "before", source |-> {"E"}, reference |-> {"D"}],
              [kind |-> "requires", source |-> {"D"}, reference |-> {"nobody"}]>>]

MCManifest == {plain, ruled, foreign}
MCSchema == [m \in MCManifest |-> CASE m = plain -> Plain
                                    [] m = ruled -> Ruled
                                    [] m = foreign -> [Ruled EXCEPT !.ours = FALSE]]
\* paths 3 and 4 are two spellings of one
MCTarget == <<1, 2, 3, 3>>
=============================================================================
