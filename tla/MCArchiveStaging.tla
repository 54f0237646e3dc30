--------------------------- MODULE MCArchiveStaging ---------------------------
(* Archives with and without a wrapper folder, with an entry twice, with a   *)
(* link, with a path that leaves the archive, and a .rar the tool unpacks.   *)
EXTENDS ArchiveStaging

CONSTANTS first, second

MCTasks == {first, second}
Symmetry == Permutations(MCTasks)

F(name, bytes) == [name |-> name, kind |-> "file", bytes |-> bytes]
D(name) == [name |-> name, kind |-> "dir", bytes |-> "-"]
L(name) == [name |-> name, kind |-> "link", bytes |-> "-"]

MCEntries ==
  [plain   |-> <<F(<<"Data", "a">>, "1"), F(<<".", "b">>, "2")>>,
   wrapped |-> <<D(<<"Mod">>), F(<<"Mod", "Data", "a">>, "3"), F(<<"Mod", "readme">>, "4"),
                 F(<<"Mod", "skse">>, "5")>>,
   twice   |-> <<F(<<"Data", "a">>, "6"), F(<<"Data", "a">>, "7"), F(<<"skse", "c">>, "8")>>,
   linked  |-> <<F(<<"Data", "a">>, "9"), L(<<"Data", "x">>)>>,
   leaving |-> <<F(<<"Data", "a">>, "10"), F(<<"..", "x">>, "11")>>,
   tool    |-> <<F(<<"Mod", "Data", "a">>, "12"), F(<<"..", "d">>, "13"), D(<<"docs">>)>>,
   toolink |-> <<F(<<"Data", "a">>, "14"), L(<<"Data", "x">>)>>,
   text    |-> <<F(<<"Data", "a">>, "15")>>]

MCArchive == DOMAIN MCEntries

MCFormat == [a \in MCArchive |-> CASE a \in {"tool", "toolink"} -> "rar"
                                   [] a = "twice" -> "7z"
                                   [] a = "text" -> "other"
                                   [] OTHER -> "zip"]
MCTorn == "torn"
===============================================================================
