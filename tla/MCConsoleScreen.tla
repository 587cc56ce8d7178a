--------------------------- MODULE MCConsoleScreen ---------------------------
(* Keyboards that delete only at the end of the line, and one that deletes  *)
(* inside it.                                                               *)
EXTENDS ConsoleScreen

MCPrompt == <<"$">>

MCEndKeys == {{"a", "BS", "KILL", "CR"},
              {"a", "LEFT", "RIGHT", "HOME", "END", "CANCEL"},
              {"ESC", "[", "3", "~"},
              {"ESC", "O", "C", "D", "H", "F"},
              {"ESC", "[", "A", "B", "CR"}}

MCInsideKeys == {{"a", "LEFT", "BS", "CR"}}
=============================================================================
