-------------------------- MODULE MCShellCommands --------------------------
EXTENDS ShellCommands
CONSTANTS p1, p2, a, b, local, c1, c2, mine

MCTwoTasks  == {p1, p2}
MCRoot      == {a, b, local}
MCSlug      == {c1, c2}
MCUserName  == {mine}
MCOwnMembers == [s \in {c1, c2} |-> IF s = c1 THEN {a} ELSE {b}]
=============================================================================
