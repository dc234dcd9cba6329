----------------------------- MODULE MCTerminal -----------------------------
(* A screen of two columns and a short line buffer. *)
EXTENDS Terminal

ShortPrompt == <<">">>
UserTexts == {<<"a", Newline>>}
ClearName == <<"a", "a">>
=============================================================================
