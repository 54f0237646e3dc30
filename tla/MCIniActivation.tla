--------------------------- MODULE MCIniActivation ---------------------------
EXTENDS IniActivation

\* One file per case of the editor: nothing of [Archive]; the user's own
\* directories; a section to complete, with keys of the same name in another
\* section; already active; UTF-16. IniActivationProofs is about every file.
MCUserFiles ==
  {<<"text">>, <<"[Archive]", "dirs_user">>,
   <<"[Archive]", "inv_other", "[Other]", "dirs_user">>,
   Block, Utf16}
=============================================================================
