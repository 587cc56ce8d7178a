------------------------------ MODULE MCConsole ------------------------------
(* One client, two history entries, and a buffer that holds one character   *)
(* or none; each keyboard has the keys of one kind of editing.              *)
EXTENDS Console

MCKeyboards == {{"ESC", "[", "A", "B", "CR"},
                {"ESC", "O", "A", "a", "BS", "CR"},
                {"ESC", "[", "3", "~", "D", "C"},
                {"a", "LEFT", "RIGHT", "KILL", "CR"},
                {"a", "HOME", "END", "CANCEL", "TAB"}}
=============================================================================
