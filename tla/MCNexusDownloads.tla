-------------------------- MODULE MCNexusDownloads --------------------------
(* One download of the window and one of an nxm:// link: two files with the   *)
(* display name of many NexusMods files, hence one staging root.              *)
EXTENDS NexusDownloads

CONSTANTS window, link

MCTasks == {window, link}
MCInvoked == {window}
MCRoot == [t \in MCTasks |-> "Main File"]
MCTwoFiles == [t \in MCTasks |-> IF t = window THEN "SKSE64" ELSE "SkyUI"]
=============================================================================
