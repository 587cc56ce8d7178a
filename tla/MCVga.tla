-------------------------------- MODULE MCVga ---------------------------------
(* A screen of three columns and two rows and a ring for two keys: a       *)
(* line wraps, a text scrolls, a fast typist fills the ring.               *)
EXTENDS Vga

MCTexts == {<<"a", "NL">>, <<"b", "BS", "a", "CR", "b">>}
MCTyping == {"a", "TAB", "SHIFT", "unshift", "BS", "NL"}
=============================================================================
